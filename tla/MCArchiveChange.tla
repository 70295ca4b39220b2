-------------------------- MODULE MCArchiveChange --------------------------
EXTENDS ArchiveChange

CONSTANTS p1, p2, x, y, auth, billing

Touched == x :> <<auth, billing>> @@ y :> <<billing>>
Symmetric == Permutations(Command)
=============================================================================
