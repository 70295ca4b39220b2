------------------------------ MODULE FlowStore ------------------------------
(* The FLOW store of packages/harness: for each flow of a session a contract, *)
(* its failed attempts, and either a receipt, or a promotion reservation and  *)
(* then a promotion.  Every file is immutable once its atomic rename made it, *)
(* and every write happens under the session's path lock (VaultLock), so each *)
(* locked operation is one action here.                                       *)
EXTENDS Naturals

CONSTANTS Flow, Session, Slug, None,
          SessionOf,       \* the session of each flow's contract
          MaxAttempts      \* bound: failed attempts of one flow

ASSUME FlowAssumption == /\ SessionOf \in [Flow -> Session]
                         /\ None \notin Slug
                         /\ MaxAttempts \in Nat

VARIABLES
  contract,      \* flows with a contract
  attempts,      \* failed attempts recorded for each flow
  reservation,   \* None, or the slug and the attempts it froze
  receipt,       \* flows with a receipt
  promotion      \* flows with a promotion

store == <<contract, attempts, reservation, receipt, promotion>>

Reservation == [slug : Slug, attempts : 0 .. MaxAttempts]
NoReservation == [slug |-> None, attempts |-> 0]

Reserved(f) == reservation[f] # NoReservation

StoreTypeOK == /\ contract \subseteq Flow
               /\ attempts \in [Flow -> 0 .. MaxAttempts]
               /\ reservation \in [Flow -> Reservation \union {NoReservation}]
               /\ receipt \subseteq contract /\ promotion \subseteq contract

StoreInit == /\ contract = {} /\ attempts = [f \in Flow |-> 0]
             /\ reservation = [f \in Flow |-> NoReservation]
             /\ receipt = {} /\ promotion = {}

(* readFlow's state.                                                         *)
State(f) == IF f \notin contract THEN "none"
            ELSE IF f \in receipt THEN "finished"
            ELSE IF f \in promotion THEN "promoted"
            ELSE IF Reserved(f) THEN "promoting"
            ELSE "active"

(* findActiveFlow: the flows of a session that still run.                    *)
Running(s) == {f \in Flow : SessionOf[f] = s /\ State(f) \in {"active", "promoting"}}
-----------------------------------------------------------------------------
(* Mutant: a reserved promotion no longer counts as running.                 *)
CreateBesideReserved(f) ==
  /\ f \notin contract
  /\ \A g \in Running(SessionOf[f]) : State(g) # "active"
  /\ contract' = contract \union {f}
  /\ UNCHANGED <<attempts, reservation, receipt, promotion>>

Create(f) == /\ f \notin contract
             /\ Running(SessionOf[f]) = {}
             /\ contract' = contract \union {f}
             /\ UNCHANGED <<attempts, reservation, receipt, promotion>>

AppendAttempt(f) == /\ State(f) = "active"
                    /\ attempts[f] < MaxAttempts
                    /\ attempts' = [attempts EXCEPT ![f] = @ + 1]
                    /\ UNCHANGED <<contract, reservation, receipt, promotion>>

(* Mutant: a second reservation replaces the first.                          *)
ReserveAgain(f, s, seen) ==
  /\ f \in Running(SessionOf[f])
  /\ seen = attempts[f]
  /\ reservation' = [reservation EXCEPT ![f] = [slug |-> s, attempts |-> seen]]
  /\ UNCHANGED <<contract, attempts, receipt, promotion>>

(* reserveFlowPromotion for a caller that saw so many attempts.              *)
Reserve(f, s, seen) ==
  /\ State(f) = "active"
  /\ seen = attempts[f]
  /\ reservation' = [reservation EXCEPT ![f] = [slug |-> s, attempts |-> seen]]
  /\ UNCHANGED <<contract, attempts, receipt, promotion>>

(* Mutant: the reservation does not stop a receipt.                          *)
FinishReserved(f) == /\ State(f) \in {"active", "promoting"}
                     /\ receipt' = receipt \union {f}
                     /\ UNCHANGED <<contract, attempts, reservation, promotion>>

WriteReceipt(f) == /\ State(f) = "active"
                   /\ receipt' = receipt \union {f}
                   /\ UNCHANGED <<contract, attempts, reservation, promotion>>

WritePromotion(f) == /\ State(f) = "promoting"
                     /\ promotion' = promotion \union {f}
                     /\ UNCHANGED <<contract, attempts, reservation, receipt>>

StoreNext == \E f \in Flow :
  \/ Create(f) \/ AppendAttempt(f) \/ WriteReceipt(f) \/ WritePromotion(f)
  \/ \E s \in Slug, seen \in 0 .. MaxAttempts : Reserve(f, s, seen)

StoreSpec == StoreInit /\ [][StoreNext]_store
-----------------------------------------------------------------------------
(* A session never has two flows that still run, whichever way the earlier   *)
(* ones ended: findActiveFlow would call the store corrupt for good.         *)
OneRunning == \A f, g \in Flow :
  /\ SessionOf[f] = SessionOf[g]
  /\ State(f) \in {"active", "promoting"} /\ State(g) \in {"active", "promoting"}
  => f = g

(* The combinations readFlow calls FLOW_STORE_CORRUPT never reach the disk:   *)
(* a receipt beside a promotion or a reservation, a promotion without one, a *)
(* reservation that froze other attempts than the flow has.                  *)
Sound == \A f \in Flow :
  /\ f \in receipt => f \notin promotion /\ ~Reserved(f)
  /\ f \in promotion => Reserved(f)
  /\ Reserved(f) => reservation[f].attempts = attempts[f]

(* What ended a flow, and what a promotion reserved, is final.               *)
Final == [][\A f \in Flow :
  /\ Reserved(f) => reservation'[f] = reservation[f]
  /\ f \in receipt \union promotion => State(f)' = State(f) /\ attempts'[f] = attempts[f]]_store
=============================================================================
