----------------------------- MODULE MCDelivery -----------------------------
EXTENDS Delivery, TLC

CONSTANTS d1, d2, old, commit, reason, other

(* A finish names its commit in the identity of its receipt; an abandonment   *)
(* has its reason in the claims only.                                        *)
Receipt(d, kind, what) == [of |-> d, kind |-> kind, what |-> what]
Old == Receipt(old, "completed", commit)
Receipts == {Receipt(d1, "completed", commit), Receipt(d1, "abandoned", reason),
             Receipt(d1, "abandoned", other), Old}
Ids == [r \in Receipts |-> IF r.kind = "abandoned" THEN [r EXCEPT !.what = reason] ELSE r]
OldLedgers == {<<>>, <<Old>>}
Fresh == {<<>>}
=============================================================================
