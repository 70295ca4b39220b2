---------------------------- MODULE MCSessionStop ----------------------------
EXTENDS SessionStop, TLC

Symmetry == Permutations(Stops)
=============================================================================
