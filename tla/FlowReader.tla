----------------------------- MODULE FlowReader -----------------------------
(* flow status, finish and promote first read a flow without its session's   *)
(* lock: readFlow opens four files one after the other while another process *)
(* may write them.                                                           *)
EXTENDS FlowStore, Sequences

VARIABLES target,   \* the flow being read
          next,     \* position in Order of the next read, 0 when idle
          got,      \* what was read so far
          past      \* history: what the flow was at each instant of the read

reader == <<target, next, got, past>>
readVars == <<store, reader>>

(* Mutant: the attempts are read before the files that freeze them.          *)
AttemptsFirst == <<"attempts", "receipt", "promotion", "reservation">>

(* readFlow opens the files in this order.                                   *)
Order == <<"receipt", "promotion", "reservation", "attempts">>

Nothing == [receipt |-> FALSE, promotion |-> FALSE,
            reservation |-> NoReservation, attempts |-> 0]

OnDisk(f) == [receipt |-> f \in receipt, promotion |-> f \in promotion,
              reservation |-> reservation[f], attempts |-> attempts[f]]

Now == <<State(target), attempts[target]>>

BeginRead(f) == /\ next = 0
                /\ f \in contract
                /\ target' = f /\ next' = 1 /\ got' = Nothing
                /\ past' = {<<State(f), attempts[f]>>}
                /\ UNCHANGED store

Read == /\ next \in DOMAIN Order
        /\ got' = [got EXCEPT ![Order[next]] = OnDisk(target)[Order[next]]]
        /\ next' = next + 1
        /\ UNCHANGED <<store, target, past>>

Done == next = Len(Order) + 1

Forget == /\ Done
          /\ next' = 0 /\ got' = Nothing /\ past' = {}
          /\ UNCHANGED <<store, target>>

ReadInit == /\ StoreInit
            /\ target \in Flow /\ next = 0 /\ got = Nothing /\ past = {}

ReadNext == \/ /\ StoreNext
               /\ UNCHANGED <<target, next, got>>
               /\ past' = IF next = 0 THEN past ELSE past \union {Now'}
            \/ \E f \in Flow : BeginRead(f)
            \/ Read \/ Forget

ReadSpec == ReadInit /\ [][ReadNext]_readVars
-----------------------------------------------------------------------------
Reported == IF got.receipt THEN "finished"
            ELSE IF got.promotion THEN "promoted"
            ELSE IF got.reservation # NoReservation THEN "promoting"
            ELSE "active"

(* A read that overlaps a writer never takes a sound flow for a corrupt one.  *)
NeverTakenForCorrupt ==
  Done => /\ got.receipt => ~got.promotion /\ got.reservation = NoReservation
          /\ got.promotion => got.reservation # NoReservation
          /\ got.reservation # NoReservation => got.reservation.attempts = got.attempts

(* What it reports, state and attempts together, the flow was at one instant *)
(* of the read, although no instant shows all four files.                    *)
ReadWasTrue == Done => <<Reported, got.attempts>> \in past
=============================================================================
