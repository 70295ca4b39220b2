-------------------------- MODULE MCMemoryReducer --------------------------
EXTENDS MemoryReducer, TLC
Symmetry == Permutations(Session) \union Permutations(Operator) \union Permutations(Value)

(* One event is on its way at a time, or two that are projected together.      *)
Together == Cardinality(staged) <= 1 /\ Cardinality(staged) + Cardinality(queue) <= 2
=============================================================================
