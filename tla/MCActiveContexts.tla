-------------------------- MODULE MCActiveContexts --------------------------
EXTENDS ActiveContexts, TLC

Symmetry == Permutations(Sessions) \cup Permutations(Commands)
=============================================================================
