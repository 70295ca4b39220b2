------------------------- MODULE MCWorktreeCleanup -------------------------
EXTENDS WorktreeCleanup, TLC

CONSTANTS w1, w2, s1, s2
Symmetric == Permutations(Session) \union Permutations(Caller)
=============================================================================
