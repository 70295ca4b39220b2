---------------------------- MODULE MCFlowReader ----------------------------
EXTENDS FlowReader, TLC

CONSTANTS f1, f2, f3, s1, s2
Sessions == (f1 :> s1) @@ (f2 :> s1) @@ (f3 :> s2)
=============================================================================
