-------------------------- MODULE MCFlowPromotion --------------------------
EXTENDS FlowPromotion, TLC

CONSTANTS f1, f2, p1, p2, s1, s2
TwoSessions == (f1 :> s1) @@ (f2 :> s2)
OneSession == f1 :> s1
Procs == Permutations(Proc)
=============================================================================
