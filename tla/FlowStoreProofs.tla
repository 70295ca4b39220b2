--------------------------- MODULE FlowStoreProofs ---------------------------
(* The FLOW store keeps its files consistent for any number of flows,         *)
(* sessions, slugs and attempts, with an unlocked reader beside it, and under *)
(* the commands that promote a flow to a change.                             *)
EXTENDS FlowReader, FlowPromotion, TLAPS

StoreInv == StoreTypeOK /\ Sound /\ OneRunning
-----------------------------------------------------------------------------
(* What the cases of State mean for the files.                               *)
Live(f) == f \in contract /\ f \notin receipt /\ f \notin promotion

LEMMA StateCases ==
  ASSUME NEW f \in Flow
  PROVE  /\ State(f) = "active" <=> Live(f) /\ ~Reserved(f)
         /\ State(f) = "promoting" <=> Live(f) /\ Reserved(f)
BY DEF State, Live

LEMMA StateCasesPrimed ==
  ASSUME NEW f \in Flow
  PROVE  /\ State(f)' = "active" <=> Live(f)' /\ ~Reserved(f)'
         /\ State(f)' = "promoting" <=> Live(f)' /\ Reserved(f)'
BY DEF State, Live

(* OneRunning, said of the files.                                            *)
LEMMA OneLive ==
  OneRunning <=> \A f, g \in Flow : SessionOf[f] = SessionOf[g] /\ Live(f) /\ Live(g) => f = g
BY StateCases DEF OneRunning

LEMMA OneLivePrimed ==
  OneRunning' <=> \A f, g \in Flow : SessionOf[f] = SessionOf[g] /\ Live(f)' /\ Live(g)' => f = g
BY StateCasesPrimed DEF OneRunning
-----------------------------------------------------------------------------
LEMMA StoreInitial == StoreInit => StoreInv
<1> SUFFICES ASSUME StoreInit PROVE StoreInv
    OBVIOUS
<1>1. StoreTypeOK
      BY FlowAssumption DEF StoreInit, StoreTypeOK
<1>2. Sound
      BY DEF StoreInit, Sound, Reserved
<1>3. OneRunning
      BY OneLive DEF StoreInit, Live
<1> QED BY <1>1, <1>2, <1>3 DEF StoreInv

(* A reservation names a slug, so it is never mistaken for none.             *)
LEMMA Names ==
  ASSUME NEW s \in Slug, NEW n \in 0 .. MaxAttempts
  PROVE  /\ [slug |-> s, attempts |-> n] \in Reservation
         /\ [slug |-> s, attempts |-> n] # NoReservation
<1>1. s # None
      BY FlowAssumption
<1> QED BY <1>1 DEF Reservation, NoReservation

LEMMA StoreStep == StoreInv /\ [StoreNext]_store => StoreInv'
<1> SUFFICES ASSUME StoreInv, [StoreNext]_store PROVE StoreInv'
    OBVIOUS
<1> USE DEF StoreInv
<1>1. ASSUME NEW f \in Flow, Create(f) PROVE StoreInv'
  <2> USE <1>1 DEF Create
  <2>1. StoreTypeOK'
        BY DEF StoreTypeOK
  <2>2. Sound'
        BY DEF Sound, Reserved
  <2>3. \A g \in Flow : SessionOf[g] = SessionOf[f] => ~Live(g)
        BY StateCases DEF Running
  <2>4. \A g \in Flow : Live(g)' => Live(g) \/ g = f
        BY DEF Live
  <2>5. OneRunning'
        BY <2>3, <2>4, OneLive, OneLivePrimed
  <2> QED BY <2>1, <2>2, <2>5
<1>2. ASSUME NEW f \in Flow, AppendAttempt(f) PROVE StoreInv'
  <2> USE <1>2 DEF AppendAttempt
  <2>1. StoreTypeOK'
        BY FlowAssumption DEF StoreTypeOK
  <2>2. ~Reserved(f)
        BY StateCases
  <2>3. Sound'
        BY <2>2 DEF Sound, Reserved, StoreTypeOK
  <2>4. OneRunning'
        BY OneLive, OneLivePrimed DEF Live
  <2> QED BY <2>1, <2>3, <2>4
<1>3. ASSUME NEW f \in Flow, NEW s \in Slug, NEW seen \in 0 .. MaxAttempts,
             Reserve(f, s, seen)
      PROVE  StoreInv'
  <2> USE <1>3 DEF Reserve
  <2>1. StoreTypeOK'
        BY Names DEF StoreTypeOK
  <2>2. Live(f)
        BY StateCases
  <2>3. Sound'
        BY <2>2, Names DEF Sound, Reserved, Live, StoreTypeOK
  <2>4. OneRunning'
        BY OneLive, OneLivePrimed DEF Live
  <2> QED BY <2>1, <2>3, <2>4
<1>4. ASSUME NEW f \in Flow, WriteReceipt(f) PROVE StoreInv'
  <2> USE <1>4 DEF WriteReceipt
  <2>1. Live(f) /\ ~Reserved(f)
        BY StateCases
  <2>2. StoreTypeOK'
        BY <2>1 DEF StoreTypeOK, Live
  <2>3. Sound'
        BY <2>1 DEF Sound, Reserved, Live
  <2>4. OneRunning'
        BY OneLive, OneLivePrimed DEF Live
  <2> QED BY <2>2, <2>3, <2>4
<1>5. ASSUME NEW f \in Flow, WritePromotion(f) PROVE StoreInv'
  <2> USE <1>5 DEF WritePromotion
  <2>1. Live(f) /\ Reserved(f)
        BY StateCases
  <2>2. StoreTypeOK'
        BY <2>1 DEF StoreTypeOK, Live
  <2>3. Sound'
        BY <2>1 DEF Sound, Reserved, Live
  <2>4. OneRunning'
        BY OneLive, OneLivePrimed DEF Live
  <2> QED BY <2>2, <2>3, <2>4
<1>6. ASSUME UNCHANGED store PROVE StoreInv'
  <2> USE <1>6 DEF store
  <2>1. StoreTypeOK'
        BY DEF StoreTypeOK
  <2>2. Sound'
        BY DEF Sound, Reserved
  <2>3. OneRunning'
        BY OneLive, OneLivePrimed DEF Live
  <2> QED BY <2>1, <2>2, <2>3
<1> QED BY <1>1, <1>2, <1>3, <1>4, <1>5, <1>6 DEF StoreNext

(* One step of the store, seen from one flow: nothing is unwritten, attempts *)
(* are only added to a flow that runs, and a reservation is made once.       *)
Moved(f) ==
  /\ f \in contract => f \in contract'
  /\ f \in receipt => f \in receipt'
  /\ f \in promotion => f \in promotion'
  /\ attempts'[f] # attempts[f] =>
       Live(f) /\ ~Reserved(f) /\ Live(f)' /\ reservation'[f] = reservation[f]
  /\ reservation'[f] # reservation[f] =>
       Live(f) /\ ~Reserved(f) /\ Live(f)' /\ Reserved(f)' /\ attempts'[f] = attempts[f]
  /\ f \in receipt' /\ f \notin receipt => Live(f) /\ ~Reserved(f)
  /\ f \in promotion' /\ f \notin promotion => Live(f) /\ Reserved(f)

LEMMA StoreMoves ==
  ASSUME StoreInv, [StoreNext]_store, NEW f \in Flow
  PROVE  Moved(f)
<1> USE DEF StoreInv, StoreTypeOK, Moved, Live
<1>1. ASSUME NEW g \in Flow, Create(g) PROVE Moved(f)
      BY <1>1 DEF Create
<1>2. ASSUME NEW g \in Flow, AppendAttempt(g) PROVE Moved(f)
      BY <1>2, StateCases DEF AppendAttempt, Reserved
<1>3. ASSUME NEW g \in Flow, NEW s \in Slug, NEW seen \in 0 .. MaxAttempts,
             Reserve(g, s, seen)
      PROVE  Moved(f)
      BY <1>3, StateCases, Names DEF Reserve, Reserved
<1>4. ASSUME NEW g \in Flow, WriteReceipt(g) PROVE Moved(f)
      BY <1>4, StateCases DEF WriteReceipt
<1>5. ASSUME NEW g \in Flow, WritePromotion(g) PROVE Moved(f)
      BY <1>5, StateCases DEF WritePromotion
<1>6. ASSUME UNCHANGED store PROVE Moved(f)
      BY <1>6 DEF store
<1> QED BY <1>1, <1>2, <1>3, <1>4, <1>5, <1>6 DEF StoreNext
-----------------------------------------------------------------------------
(* A read in progress moves the store by steps of the store.                 *)
LEMMA ReadKeepsStore == [ReadNext]_readVars => [StoreNext]_store
BY DEF ReadNext, BeginRead, Read, Forget, readVars

LEMMA StoreInvariant == ReadSpec => []StoreInv
<1>1. ReadInit => StoreInv
      BY StoreInitial DEF ReadInit
<1>2. StoreInv /\ [ReadNext]_readVars => StoreInv'
      BY StoreStep, ReadKeepsStore
<1> QED BY <1>1, <1>2, PTL DEF ReadSpec

(* For every number of flows, sessions, slugs and attempts, and whatever a   *)
(* reader does meanwhile: the locked operations never put on disk what       *)
(* readFlow or findActiveFlow would call corrupt.                            *)
THEOREM StoreIsSound == ReadSpec => [](StoreTypeOK /\ Sound /\ OneRunning)
<1>1. StoreInv => StoreTypeOK /\ Sound /\ OneRunning
      BY DEF StoreInv
<1> QED BY <1>1, StoreInvariant, PTL

(* A step that changes nothing of a flow that ended, or of its reservation.  *)
LEMMA FinalStep ==
  ASSUME StoreInv, [StoreNext]_store, NEW f \in Flow
  PROVE  /\ Reserved(f) => reservation'[f] = reservation[f]
         /\ f \in receipt \union promotion => State(f)' = State(f) /\ attempts'[f] = attempts[f]
<1>1. Moved(f)
      BY StoreMoves
<1>2. Reserved(f) => reservation'[f] = reservation[f]
      BY <1>1 DEF Moved
<1>3. ASSUME f \in receipt \union promotion
      PROVE  State(f)' = State(f) /\ attempts'[f] = attempts[f]
  <2>1. f \in contract /\ f \in contract' /\ ~Live(f)
        BY <1>1, <1>3 DEF Moved, Live, StoreInv, StoreTypeOK
  <2>2. attempts'[f] = attempts[f]
        BY <1>1, <2>1 DEF Moved
  <2>3. State(f)' = State(f)
        BY <1>1, <1>3, <2>1 DEF Moved, State, StoreInv, Sound
  <2> QED BY <2>2, <2>3
<1> QED BY <1>2, <1>3

(* What ended a flow, and what a promotion reserved, is final.               *)
THEOREM EndsAreFinal == ReadSpec => Final
<1>1. StoreInv /\ [ReadNext]_readVars
        => [\A f \in Flow :
              /\ Reserved(f) => reservation'[f] = reservation[f]
              /\ f \in receipt \union promotion
                   => State(f)' = State(f) /\ attempts'[f] = attempts[f]]_store
      BY FinalStep, ReadKeepsStore
<1> QED BY <1>1, StoreInvariant, PTL DEF ReadSpec, Final
-----------------------------------------------------------------------------
(* Why the order of the reads is enough.  A file that was read as present is *)
(* still the same; for one that was read as absent, what it then meant of    *)
(* the flow was true at an instant of the read.                              *)
Field == [receipt : BOOLEAN, promotion : BOOLEAN,
          reservation : Reservation \union {NoReservation}, attempts : 0 .. MaxAttempts]

ReaderTypeOK == target \in Flow /\ next \in 0 .. 5 /\ got \in Field

PresentIsKept == next # 0 =>
  /\ target \in contract
  /\ got.receipt => target \in receipt
  /\ got.promotion => target \in promotion
  /\ got.reservation # NoReservation => got.reservation = reservation[target]

UnreservedWasActive ==
  /\ next >= 2 /\ ~got.receipt /\ ~Reserved(target) => <<"active", attempts[target]>> \in past
  /\ next >= 4 /\ ~got.receipt /\ got.reservation = NoReservation
       => ~got.promotion /\ <<"active", attempts[target]>> \in past

ReservedWasPromoting ==
  next >= 3 /\ ~got.promotion /\ Reserved(target)
    => <<"promoting", attempts[target]>> \in past

NowIsPast == next # 0 => Now \in past

AttemptsAgree ==
  next = 5 => /\ got.receipt \/ got.reservation # NoReservation
                   => got.attempts = attempts[target]
              /\ <<Reported, got.attempts>> \in past

ReaderInv == /\ ReaderTypeOK /\ PresentIsKept /\ UnreservedWasActive
             /\ ReservedWasPromoting /\ NowIsPast /\ AttemptsAgree

LEMMA ReaderInitial == ReadInit => ReaderInv
<1> SUFFICES ASSUME ReadInit PROVE ReaderInv
    OBVIOUS
<1>1. next = 0 /\ target \in Flow
      BY DEF ReadInit
<1>2. got \in Field
      BY FlowAssumption DEF ReadInit, Nothing, Field
<1> QED BY <1>1, <1>2 DEF ReaderInv, ReaderTypeOK, PresentIsKept, UnreservedWasActive,
             ReservedWasPromoting, NowIsPast, AttemptsAgree

(* A writer's step while a read is in progress.                              *)
LEMMA WriterStep ==
  ASSUME StoreInv, ReaderInv, StoreNext, UNCHANGED <<target, next, got>>,
         past' = IF next = 0 THEN past ELSE past \union {Now'}
  PROVE  ReaderInv'
<1> DEFINE t == target
<1>1. t \in Flow /\ target' = t /\ next' = next /\ got' = got /\ next \in 0 .. 5
      BY DEF ReaderInv, ReaderTypeOK
<1>2. Moved(t)
      BY <1>1, StoreMoves
<1>3. ReaderTypeOK'
      BY DEF ReaderInv, ReaderTypeOK
<1>4. CASE next = 0
      BY <1>1, <1>3, <1>4 DEF ReaderInv, PresentIsKept, UnreservedWasActive,
         ReservedWasPromoting, NowIsPast, AttemptsAgree
<1>5. CASE next # 0
  <2>1. past \subseteq past' /\ <<State(t)', attempts'[t]>> \in past'
        BY <1>1, <1>5 DEF Now
  <2>2. PresentIsKept'
        BY <1>1, <1>2, <1>5 DEF ReaderInv, PresentIsKept, Moved, Live, StoreInv, Sound, Reserved
  <2>3. NowIsPast'
        BY <1>1, <2>1 DEF NowIsPast, Now
  <2>4. attempts'[t] # attempts[t] => <<"active", attempts'[t]>> \in past'
    <3> SUFFICES ASSUME attempts'[t] # attempts[t]
                 PROVE  <<"active", attempts'[t]>> \in past'
        OBVIOUS
    <3>1. Live(t)' /\ ~Reserved(t)'
          BY <1>2 DEF Moved, Reserved
    <3>2. State(t)' = "active"
          BY <1>1, <3>1, StateCasesPrimed
    <3> QED BY <2>1, <3>2
  <2>5. UnreservedWasActive'
        BY <1>1, <1>2, <2>1, <2>4 DEF ReaderInv, UnreservedWasActive, Moved, Reserved
  <2>6. ReservedWasPromoting'
    <3> SUFFICES ASSUME next >= 3, ~got.promotion, Reserved(t)'
                 PROVE  <<"promoting", attempts'[t]>> \in past'
        BY <1>1 DEF ReservedWasPromoting
    <3>1. CASE Reserved(t)
          BY <1>1, <1>2, <2>1, <3>1 DEF ReaderInv, ReservedWasPromoting, Moved
    <3>2. CASE ~Reserved(t)
      <4>1. State(t)' = "promoting"
            BY <1>1, <1>2, <3>2, StateCasesPrimed DEF Moved, Reserved
      <4> QED BY <2>1, <4>1
    <3> QED BY <3>1, <3>2
  <2>7. AttemptsAgree'
    <3>1. ASSUME got.receipt \/ got.reservation # NoReservation
          PROVE  attempts'[t] = attempts[t]
          BY <1>1, <1>2, <1>5, <3>1 DEF ReaderInv, PresentIsKept, Moved, Live, Reserved
    <3> QED BY <1>1, <2>1, <3>1 DEF ReaderInv, AttemptsAgree, Reported
  <2> QED BY <1>3, <2>2, <2>3, <2>5, <2>6, <2>7 DEF ReaderInv
<1> QED BY <1>4, <1>5
LEMMA BeginStep ==
  ASSUME StoreInv, ReaderInv, NEW f \in Flow, BeginRead(f) PROVE ReaderInv'
<1>1. /\ next' = 1 /\ target' = f /\ got' = Nothing /\ f \in contract'
      /\ past' = {<<State(f), attempts[f]>>} /\ UNCHANGED store
      BY DEF BeginRead, store
<1>2. ReaderTypeOK'
      BY <1>1, FlowAssumption DEF ReaderTypeOK, Nothing, Field
<1>3. ~got'.receipt /\ ~got'.promotion /\ got'.reservation = NoReservation
      BY <1>1 DEF Nothing
<1>4. State(f)' = State(f)
      BY <1>1 DEF store, State, Reserved
<1>5. NowIsPast'
      BY <1>1, <1>4 DEF NowIsPast, Now, store
<1> QED BY <1>1, <1>2, <1>3, <1>5 DEF ReaderInv, PresentIsKept, UnreservedWasActive,
             ReservedWasPromoting, AttemptsAgree

LEMMA ForgetStep ==
  ASSUME StoreInv, ReaderInv, Forget PROVE ReaderInv'
<1>1. next' = 0 /\ target' = target /\ got' = Nothing
      BY DEF Forget
<1>2. ReaderTypeOK'
      BY <1>1, FlowAssumption DEF ReaderInv, ReaderTypeOK, Nothing, Field
<1> QED BY <1>1, <1>2 DEF ReaderInv, PresentIsKept, UnreservedWasActive,
             ReservedWasPromoting, NowIsPast, AttemptsAgree

(* What each of the four reads learns.                                       *)
LEMMA ReadCases ==
  ASSUME ReaderTypeOK, Read
  PROVE  /\ next \in 1 .. 4 /\ next' = next + 1
         /\ target' = target /\ past' = past /\ UNCHANGED store
         /\ got'.receipt <=> IF next = 1 THEN target \in receipt ELSE got.receipt
         /\ got'.promotion <=> IF next = 2 THEN target \in promotion ELSE got.promotion
         /\ got'.reservation = IF next = 3 THEN reservation[target] ELSE got.reservation
         /\ got'.attempts = IF next = 4 THEN attempts[target] ELSE got.attempts
<1>1. /\ next \in 1 .. 4 /\ next' = next + 1
      /\ target' = target /\ past' = past /\ UNCHANGED store
      BY DEF Read, Order
<1>2. got' = [got EXCEPT ![Order[next]] = OnDisk(target)[Order[next]]]
      BY DEF Read
<1>3. Order[1] = "receipt" /\ Order[2] = "promotion"
      /\ Order[3] = "reservation" /\ Order[4] = "attempts"
      BY DEF Order
<1>4. /\ OnDisk(target).receipt <=> target \in receipt
      /\ OnDisk(target).promotion <=> target \in promotion
      /\ OnDisk(target).reservation = reservation[target]
      /\ OnDisk(target).attempts = attempts[target]
      BY DEF OnDisk
<1>5. got \in Field
      BY DEF ReaderTypeOK
<1>6. CASE next = 1
      BY <1>2, <1>3, <1>4, <1>5, <1>6, <1>1 DEF Field
<1>7. CASE next = 2
      BY <1>2, <1>3, <1>4, <1>5, <1>7, <1>1 DEF Field
<1>8. CASE next = 3
      BY <1>2, <1>3, <1>4, <1>5, <1>8, <1>1 DEF Field
<1>9. CASE next = 4
      BY <1>2, <1>3, <1>4, <1>5, <1>9, <1>1 DEF Field
<1> QED BY <1>1, <1>6, <1>7, <1>8, <1>9

LEMMA ReadTypes ==
  ASSUME ReaderTypeOK, Read, target \in Flow => OnDisk(target) \in Field
  PROVE  got' \in Field /\ next' \in 0 .. 5
<1>1. /\ next \in 1 .. 4 /\ next' = next + 1 /\ got \in Field
      /\ got' = [got EXCEPT ![Order[next]] = OnDisk(target)[Order[next]]]
      /\ OnDisk(target) \in Field
      BY DEF Read, Order, ReaderTypeOK
<1>2. Order[1] = "receipt" /\ Order[2] = "promotion"
      /\ Order[3] = "reservation" /\ Order[4] = "attempts"
      BY DEF Order
<1>3. CASE next = 1
      BY <1>1, <1>2, <1>3 DEF Field
<1>4. CASE next = 2
      BY <1>1, <1>2, <1>4 DEF Field
<1>5. CASE next = 3
      BY <1>1, <1>2, <1>5 DEF Field
<1>6. CASE next = 4
      BY <1>1, <1>2, <1>6 DEF Field
<1> QED BY <1>1, <1>3, <1>4, <1>5, <1>6

LEMMA ReadStep ==
  ASSUME StoreInv, ReaderInv, Read PROVE ReaderInv'
<1>0. ReaderTypeOK
      BY DEF ReaderInv
<1>1. /\ next \in 1 .. 4 /\ next' = next + 1
      /\ target' = target /\ past' = past /\ UNCHANGED store
      BY <1>0, ReadCases
<1>2. target \in Flow /\ got \in Field /\ target \in contract
      BY <1>0, <1>1 DEF ReaderInv, ReaderTypeOK, PresentIsKept
<1>3. /\ attempts[target] \in 0 .. MaxAttempts
      /\ reservation[target] \in Reservation \union {NoReservation}
      BY <1>2 DEF StoreInv, StoreTypeOK
<1>4. /\ contract' = contract /\ attempts' = attempts /\ reservation' = reservation
      /\ receipt' = receipt /\ promotion' = promotion
      BY <1>1 DEF store
<1>5. State(target)' = State(target) /\ (Reserved(target)' <=> Reserved(target))
      BY <1>1, <1>4 DEF State, Reserved
<1>6. Now' = Now
      BY <1>1, <1>4, <1>5 DEF Now
<1>7. NowIsPast'
      BY <1>1, <1>4, <1>6 DEF ReaderInv, NowIsPast
<1>8. <<State(target), attempts[target]>> \in past
      BY <1>1 DEF ReaderInv, NowIsPast, Now
<1>9. /\ got'.receipt <=> IF next = 1 THEN target \in receipt ELSE got.receipt
      /\ got'.promotion <=> IF next = 2 THEN target \in promotion ELSE got.promotion
      /\ got'.reservation = IF next = 3 THEN reservation[target] ELSE got.reservation
      /\ got'.attempts = IF next = 4 THEN attempts[target] ELSE got.attempts
      BY <1>0, ReadCases
<1>10. /\ target \in receipt => target \notin promotion /\ ~Reserved(target)
       /\ target \in promotion => Reserved(target)
       BY <1>2 DEF StoreInv, Sound
<1>11. ReaderTypeOK'
  <2>1. OnDisk(target) \in Field
        BY <1>3 DEF OnDisk, Field
  <2> QED BY <1>0, <1>1, <2>1, ReadTypes DEF ReaderTypeOK
<1>12. PresentIsKept'
       BY <1>1, <1>2, <1>4, <1>9 DEF ReaderInv, PresentIsKept
<1>13. PresentIsKept
       BY DEF ReaderInv
<1>14. UnreservedWasActive'
  <2>1. ASSUME next = 1, ~got'.receipt, ~Reserved(target)
        PROVE  <<"active", attempts[target]>> \in past
    <3>1. State(target) = "active"
          BY <1>2, <1>9, <1>10, <2>1 DEF State
    <3> QED BY <1>8, <3>1
  <2>2. ASSUME next = 3, ~got'.receipt, got'.reservation = NoReservation
        PROVE  ~got'.promotion /\ <<"active", attempts[target]>> \in past
    <3>1. ~Reserved(target) /\ ~got.receipt
          BY <1>9, <2>2 DEF Reserved
    <3>2. ~got'.promotion
          BY <1>1, <1>9, <1>10, <1>13, <2>2, <3>1 DEF PresentIsKept
    <3>3. <<"active", attempts[target]>> \in past
          BY <2>2, <3>1 DEF ReaderInv, UnreservedWasActive
    <3> QED BY <3>2, <3>3
  <2>3. ASSUME next >= 2, ~got'.receipt, ~Reserved(target)
        PROVE  <<"active", attempts[target]>> \in past
        BY <1>1, <1>9, <2>3 DEF ReaderInv, UnreservedWasActive
  <2>4. ASSUME next = 4, ~got'.receipt, got'.reservation = NoReservation
        PROVE  ~got'.promotion /\ <<"active", attempts[target]>> \in past
        BY <1>9, <2>4 DEF ReaderInv, UnreservedWasActive
  <2> QED BY <1>1, <1>4, <1>5, <2>1, <2>2, <2>3, <2>4 DEF UnreservedWasActive
<1>15. ReservedWasPromoting'
  <2>1. ASSUME next = 2, ~got'.promotion, Reserved(target)
        PROVE  <<"promoting", attempts[target]>> \in past
    <3>1. State(target) = "promoting"
          BY <1>2, <1>9, <1>10, <2>1 DEF State
    <3> QED BY <1>8, <3>1
  <2>2. ASSUME next >= 3, ~got'.promotion, Reserved(target)
        PROVE  <<"promoting", attempts[target]>> \in past
        BY <1>1, <1>9, <2>2 DEF ReaderInv, ReservedWasPromoting
  <2> QED BY <1>1, <1>4, <1>5, <2>1, <2>2 DEF ReservedWasPromoting
<1>16. AttemptsAgree'
  <2> SUFFICES ASSUME next = 4
               PROVE  /\ got'.attempts = attempts[target]
                      /\ <<Reported', got'.attempts>> \in past
      BY <1>1, <1>4 DEF AttemptsAgree
  <2>1. /\ got'.attempts = attempts[target] /\ got'.reservation = got.reservation
        /\ (got'.receipt <=> got.receipt) /\ (got'.promotion <=> got.promotion)
        BY <1>9
  <2>2. CASE got.receipt
    <3>1. Reported' = "finished"
          BY <2>1, <2>2 DEF Reported
    <3>2. State(target) = "finished"
          BY <1>1, <1>2, <1>13, <2>2 DEF PresentIsKept, State
    <3> QED BY <1>8, <2>1, <3>1, <3>2
  <2>3. CASE ~got.receipt /\ got.promotion
    <3>1. Reported' = "promoted"
          BY <2>1, <2>3 DEF Reported
    <3>2. State(target) = "promoted"
          BY <1>1, <1>2, <1>10, <1>13, <2>3 DEF PresentIsKept, State
    <3> QED BY <1>8, <2>1, <3>1, <3>2
  <2>4. CASE ~got.receipt /\ ~got.promotion /\ got.reservation # NoReservation
    <3>1. Reported' = "promoting"
          BY <2>1, <2>4 DEF Reported, NoReservation
    <3>2. Reserved(target)
          BY <1>1, <1>13, <2>4 DEF PresentIsKept, Reserved
    <3>3. <<"promoting", attempts[target]>> \in past
          BY <2>4, <3>2 DEF ReaderInv, ReservedWasPromoting
    <3> QED BY <2>1, <3>1, <3>3
  <2>5. CASE ~got.receipt /\ got.reservation = NoReservation
    <3>1. ~got.promotion /\ <<"active", attempts[target]>> \in past
          BY <2>5 DEF ReaderInv, UnreservedWasActive
    <3>2. Reported' = "active"
          BY <2>1, <2>5, <3>1 DEF Reported, NoReservation
    <3> QED BY <2>1, <3>1, <3>2
  <2> QED BY <2>2, <2>3, <2>4, <2>5
<1> QED BY <1>7, <1>11, <1>12, <1>14, <1>15, <1>16 DEF ReaderInv

LEMMA ReaderInvariant == ReadSpec => [](StoreInv /\ ReaderInv)
<1>1. StoreInv /\ ReaderInv /\ [ReadNext]_readVars => ReaderInv'
  <2> SUFFICES ASSUME StoreInv, ReaderInv, [ReadNext]_readVars PROVE ReaderInv'
      OBVIOUS
  <2>1. ASSUME StoreNext, UNCHANGED <<target, next, got>>,
               past' = IF next = 0 THEN past ELSE past \union {Now'}
        PROVE  ReaderInv'
        BY <2>1, WriterStep
  <2>2. ASSUME NEW f \in Flow, BeginRead(f) PROVE ReaderInv'
        BY <2>2, BeginStep
  <2>3. CASE Read
        BY <2>3, ReadStep
  <2>4. CASE Forget
        BY <2>4, ForgetStep
  <2>5. CASE UNCHANGED readVars
        BY <2>5 DEF readVars, reader, store, ReaderInv, ReaderTypeOK, PresentIsKept,
           UnreservedWasActive, ReservedWasPromoting, NowIsPast, AttemptsAgree,
           Reserved, Reported, Now, State
  <2> QED BY <2>1, <2>2, <2>3, <2>4, <2>5 DEF ReadNext
<1> QED BY <1>1, ReaderInitial, StoreInvariant, PTL DEF ReadSpec

(* A read that overlaps writers never takes a sound flow for a corrupt one,   *)
(* and what it reports the flow was at one instant of the read.              *)
THEOREM ReadsAreTrue == ReadSpec => [](NeverTakenForCorrupt /\ ReadWasTrue)
<1>1. StoreInv /\ ReaderInv => NeverTakenForCorrupt /\ ReadWasTrue
  <2> SUFFICES ASSUME StoreInv, ReaderInv, Done
               PROVE  /\ got.receipt => ~got.promotion /\ got.reservation = NoReservation
                      /\ got.promotion => got.reservation # NoReservation
                      /\ got.reservation # NoReservation
                           => got.reservation.attempts = got.attempts
                      /\ <<Reported, got.attempts>> \in past
      BY DEF NeverTakenForCorrupt, ReadWasTrue
  <2>1. next = 5
        BY DEF Done, Order
  <2>2. /\ target \in Flow
        /\ got.receipt => target \in receipt
        /\ got.promotion => target \in promotion
        /\ got.reservation # NoReservation => got.reservation = reservation[target]
        BY <2>1 DEF ReaderInv, ReaderTypeOK, PresentIsKept
  <2>3. /\ target \in receipt => target \notin promotion /\ ~Reserved(target)
        /\ target \in promotion => Reserved(target)
        /\ Reserved(target) => reservation[target].attempts = attempts[target]
        BY <2>2 DEF StoreInv, Sound
  <2>4. /\ got.receipt \/ got.reservation # NoReservation
             => got.attempts = attempts[target]
        /\ <<Reported, got.attempts>> \in past
        BY <2>1 DEF ReaderInv, AttemptsAgree
  <2>5. ~got.receipt /\ got.reservation = NoReservation => ~got.promotion
        BY <2>1 DEF ReaderInv, UnreservedWasActive
  <2> QED BY <2>2, <2>3, <2>4, <2>5 DEF Reserved
<1> QED BY <1>1, ReaderInvariant, PTL
-----------------------------------------------------------------------------
(* The commands.  What a process knows at each place of a promotion: under   *)
(* its slug's lock nobody else reserves the slug, and what was written stays. *)
Places == Locked \union {"checks", "lock", "scaffold", "activate", "note"}

Placed(c) ==
  /\ c.cmd = "finish" => c.pc \in {"checks", "note"} /\ c.flow \in Flow
  /\ c.cmd = "promote" => c.pc # "checks" /\ c.flow \in Flow /\ c.slug \in Slug
  /\ c.cmd = "new" => c.pc \in {"scaffold", "activate"} /\ c.slug \in made

Making == {"origin", "new", "scaffold", "activate", "enrich", "register", "terminal"}

Knows(c) ==
  /\ c.pc = "note" => c.flow \in receipt \union promotion
  /\ c.cmd = "promote" =>
       /\ c.pc = "reserve" => Unowned(c.flow, c.slug)
       /\ c.pc \in Making \union {"mkdir"} => reservation[c.flow].slug = c.slug
       /\ c.pc \in Making => c.slug \in made
       /\ c.pc \in Making \ {"origin"} => originOf[c.slug] = c.flow
       /\ c.pc = "scaffold" => /\ 1 < c.at => "proposal" \in files[c.slug]
                               /\ 2 < c.at => "tasks" \in files[c.slug]
                               /\ 4 < c.at => "design" \in files[c.slug]
       /\ c.pc \in {"activate", "enrich", "register", "terminal"}
            => {"proposal", "tasks", "design"} \subseteq files[c.slug]
       /\ c.pc \in {"register", "terminal"} => "summary" \in files[c.slug]

CallsOK == \A p \in Proc : call[p] # None => Placed(call[p]) /\ Knows(call[p])

PromotionInv == TypeOK /\ StoreInv /\ CallsOK /\ SlugOwnedOnce /\ PromotedIsWhole

CallType == call \in [Proc -> Call \union {None}]
LockOK == \A s \in Slug, p \in Proc : lock[s] = p <=> Holds(p) /\ call[p].slug = s
Others(p) == \A q \in Proc \ {p} : call'[q] = call[q]

(* The five ways in which a step changes what its process is doing.          *)
LEMMA GoCalls ==
  ASSUME CallType, NEW p \in Proc, call[p] # None, NEW place \in Places, Go(p, place)
  PROVE  /\ CallType' /\ Others(p) /\ call[p] \in Call /\ call'[p] \in Call
         /\ call'[p] # None
         /\ call'[p] = [call[p] EXCEPT !.pc = place]
<1>1. call[p] \in Call
  BY DEF CallType
<1>2. call'[p] = [call[p] EXCEPT !.pc = place] /\ Others(p)
  BY DEF Go, CallType, Others
<1>3. [call[p] EXCEPT !.pc = place] \in Call
  BY <1>1 DEF Call, Places
<1>4. CallType'
  BY <1>1, <1>3 DEF Go, CallType
<1> QED BY <1>1, <1>2, <1>3, <1>4, CallAssumption

LEMMA EndCalls ==
  ASSUME CallType, NEW p \in Proc, End(p)
  PROVE  CallType' /\ Others(p) /\ call'[p] = None
BY DEF End, CallType, Others

LEMMA BeginCalls ==
  ASSUME CallType, NEW p \in Proc, NEW cmd \in {"finish", "promote", "new"},
         NEW place \in Places, NEW f \in Flow \union {None}, NEW s \in Slug \union {None},
         \E existed \in BOOLEAN : Begin(p, cmd, place, f, s, existed)
  PROVE  /\ CallType' /\ Others(p) /\ call[p] = None /\ call'[p] # None
         /\ call'[p].pc = place /\ call'[p].cmd = cmd
         /\ call'[p].flow = f /\ call'[p].slug = s
<1>0. PICK existed \in BOOLEAN : Begin(p, cmd, place, f, s, existed)
  OBVIOUS
<1> DEFINE c == [pc |-> place, cmd |-> cmd, flow |-> f, slug |-> s,
                 seen |-> 0, existed |-> existed, at |-> 1]
<1>1. c \in Call
  BY FlowAssumption DEF Call, Places, Scaffold
<1>2. call[p] = None /\ call' = [call EXCEPT ![p] = c]
  BY <1>0 DEF Begin
<1>3. c.pc = place /\ c.cmd = cmd /\ c.flow = f /\ c.slug = s
  OBVIOUS
<1> HIDE DEF c
<1>4. CallType' /\ Others(p) /\ call'[p] = c
  BY <1>1, <1>2 DEF CallType, Others
<1> QED BY <1>1, <1>2, <1>3, <1>4, CallAssumption

(* Who is where, and for which flow and slug.                                *)
LEMMA Whereabouts ==
  ASSUME TypeOK, CallsOK, NEW p \in Proc, call[p] # None
  PROVE  /\ call[p] \in Call /\ Placed(call[p]) /\ Knows(call[p])
         /\ call[p].pc \in Places
         /\ call[p].pc = "checks" => call[p].cmd = "finish"
         /\ call[p].pc \in Locked \union {"lock"} => call[p].cmd = "promote"
         /\ call[p].cmd # "new" => call[p].flow \in Flow
         /\ call[p].cmd # "finish" => call[p].slug \in Slug
<1>1. call[p] \in Call /\ Placed(call[p]) /\ Knows(call[p]) /\ made \subseteq Slug
  BY DEF TypeOK, CallsOK
<1>2. /\ call[p].pc \in Places /\ call[p].cmd \in {"finish", "promote", "new"}
      /\ call[p].seen \in 0 .. MaxAttempts
  BY <1>1 DEF Call, Places
<1>3. \A place \in Locked \union {"lock"} : place \notin {"checks", "note", "scaffold", "activate"}
  BY DEF Locked
<1> QED BY <1>1, <1>2, <1>3 DEF Placed

(* Whatever a command does, the store moves by one of its own operations.    *)
LEMMA PromotionMovesStore ==
  ASSUME TypeOK, CallsOK, [Next]_vars
  PROVE  [StoreNext]_store
<1>1. ASSUME NEW f \in Flow, Start(f) PROVE [StoreNext]_store
  BY <1>1 DEF Start, StoreNext
<1>2. ASSUME NEW p \in Proc, Red(p) \/ Green(p) PROVE [StoreNext]_store
  <2>1. call[p] # None /\ call[p].pc = "checks"
    BY <1>2 DEF Red, Green, At
  <2>2. call[p].flow \in Flow
    BY <2>1, Whereabouts
  <2> QED BY <1>2, <2>2 DEF Red, Green, StoreNext
<1>3. ASSUME NEW p \in Proc, ReserveSlug(p) PROVE [StoreNext]_store
  <2>1. call[p] # None /\ call[p].pc = "reserve" /\ "reserve" \in Locked
    BY <1>3 DEF ReserveSlug, At, Locked
  <2>2. call[p].flow \in Flow /\ call[p].slug \in Slug /\ call[p].seen \in 0 .. MaxAttempts
    BY <2>1, Whereabouts DEF Call
  <2> QED BY <1>3, <2>2 DEF ReserveSlug, StoreNext
<1>4. ASSUME NEW p \in Proc, Terminal(p) PROVE [StoreNext]_store
  <2>1. call[p] # None /\ call[p].pc = "terminal" /\ "terminal" \in Locked
    BY <1>4 DEF Terminal, At, Locked
  <2>2. call[p].flow \in Flow
    BY <2>1, Whereabouts
  <2> QED BY <1>4, <2>2 DEF Terminal, StoreNext
<1>5. ASSUME NEW p \in Proc,
             \/ Note(p) \/ Decide(p) \/ Refuse(p) \/ Mkdir(p) \/ Origin(p) \/ NewInside(p)
             \/ Write(p) \/ Activate(p) \/ Enrich(p) \/ Register(p) \/ Acquire(p) \/ Fail(p)
      PROVE  UNCHANGED store
  BY <1>5 DEF Note, Decide, Refuse, Mkdir, Origin, NewInside, Write, Activate, Enrich,
     Register, Acquire, Fail
<1>6. ASSUME NEW p \in Proc, NEW f \in Flow, NEW s \in Slug, Promote(p, f, s)
      PROVE  UNCHANGED store
  BY <1>6 DEF Promote
<1>7. ASSUME UNCHANGED vars PROVE UNCHANGED store
  BY <1>7 DEF vars
<1>8. ASSUME NEW s \in Slug, Author(s) PROVE UNCHANGED store
  BY <1>8 DEF Author
<1>9. ASSUME NEW p \in Proc, NEW f \in Flow, Finish(p, f) PROVE UNCHANGED store
  BY <1>9 DEF Finish
<1>10. ASSUME NEW p \in Proc, NEW s \in Slug, ChangeNew(p, s) PROVE UNCHANGED store
  BY <1>10 DEF ChangeNew
<1> QED BY <1>1, <1>2, <1>3, <1>4, <1>5, <1>6, <1>7, <1>8, <1>9, <1>10 DEF Next, Step

(* Nothing that a change directory holds is taken out of it.                 *)
Grows == /\ made \subseteq made'
         /\ \A s \in Slug : /\ files[s] \subseteq files'[s]
                            /\ originOf[s] # None => originOf'[s] = originOf[s]

LEMMA ChangeGrows ==
  ASSUME TypeOK, CallsOK, [Next]_vars
  PROVE  Grows
<1>1. files \in [Slug -> SUBSET (Expected \union {"delta"})] /\ originOf \in [Slug -> Flow \union {None}]
  BY DEF TypeOK
<1> USE DEF Grows, change
<1>2. ASSUME NEW f \in Flow, Start(f) PROVE Grows
  BY <1>2 DEF Start
<1>3. ASSUME NEW p \in Proc,
             \/ Red(p) \/ Green(p) \/ Note(p) \/ Decide(p) \/ Refuse(p) \/ ReserveSlug(p)
             \/ NewInside(p) \/ Terminal(p) \/ Acquire(p) \/ Fail(p)
      PROVE  Grows
  BY <1>3 DEF Red, Green, Note, Decide, Refuse, ReserveSlug, NewInside, Terminal, Acquire, Fail
<1>4. ASSUME NEW p \in Proc, Mkdir(p) \/ Activate(p) \/ Register(p) PROVE Grows
  BY <1>4 DEF Mkdir, Activate, Register
<1>5. ASSUME NEW p \in Proc, Origin(p) PROVE Grows
  BY <1>1, <1>5 DEF Origin
<1>6. ASSUME NEW p \in Proc, Write(p) \/ Enrich(p) PROVE Grows
  BY <1>1, <1>6 DEF Write, Enrich
<1>7. ASSUME NEW p \in Proc, NEW f \in Flow, Finish(p, f) PROVE Grows
  BY <1>7 DEF Finish
<1>8. ASSUME NEW p \in Proc, NEW f \in Flow, NEW s \in Slug, Promote(p, f, s) PROVE Grows
  BY <1>8 DEF Promote
<1>9. ASSUME NEW p \in Proc, NEW s \in Slug, ChangeNew(p, s) PROVE Grows
  BY <1>9 DEF ChangeNew
<1>10. ASSUME NEW s \in Slug, Author(s) PROVE Grows
  BY <1>1, <1>10 DEF Author
<1>11. CASE UNCHANGED vars
  BY <1>11 DEF vars
<1> QED BY <1>2, <1>3, <1>4, <1>5, <1>6, <1>7, <1>8, <1>9, <1>10, <1>11 DEF Next, Step

(* What a process knows stays true while others move, as long as nobody      *)
(* reserves the slug it is about to reserve.                                 *)
Elsewhere(q) == \A g \in Flow :
  reservation'[g] = reservation[g] \/ reservation'[g].slug # call[q].slug

LEMMA KnownIsKept ==
  ASSUME PromotionInv, [StoreNext]_store, Grows, NEW q \in Proc, call[q] # None,
         call'[q] = call[q], call[q].pc = "reserve" => Elsewhere(q)
  PROVE  (Placed(call[q]) /\ Knows(call[q]))'
<1> DEFINE c == call[q]
<1>1. /\ c \in Call /\ Placed(c) /\ Knows(c) /\ call'[q] = c
      /\ c.cmd # "new" => c.flow \in Flow
      /\ c.cmd # "finish" => c.slug \in Slug
  BY Whereabouts DEF PromotionInv
<1>2. c.cmd # "new" => Moved(c.flow)
  BY <1>1, StoreMoves DEF PromotionInv
<1>3. c.cmd = "promote" /\ reservation[c.flow].slug = c.slug
        => reservation'[c.flow] = reservation[c.flow]
  BY <1>1, <1>2, FlowAssumption DEF Moved, Reserved, NoReservation
<1>4. Placed(call[q])'
  BY <1>1 DEF Placed, Grows
<1>5. c.pc = "note" => c.flow \in receipt' \union promotion'
  BY <1>1, <1>2 DEF Knows, Placed, Moved
<1>6. c.cmd = "promote" /\ c.pc = "reserve" => Unowned(c.flow, c.slug)'
  BY <1>1 DEF Knows, Unowned, Elsewhere
<1>7. c.cmd = "promote" /\ c.pc \in Making \ {"origin"} => originOf'[c.slug] = c.flow
  BY <1>1, PromotionAssumption DEF Knows, Grows
<1>8. c.cmd = "promote" => files[c.slug] \subseteq files'[c.slug]
  BY <1>1 DEF Grows
<1> HIDE DEF c
<1>9. Knows(c)'
  BY <1>1, <1>3, <1>5, <1>6, <1>7, <1>8 DEF Knows, Grows, c
<1> QED BY <1>1, <1>4, <1>9 DEF c

(* The locks of the slugs.                                                   *)
LEMMA LockKept ==
  ASSUME LockOK, lock' = lock, NEW p \in Proc, Others(p), Holds(p)' <=> Holds(p),
         Holds(p) => call'[p].slug = call[p].slug
  PROVE  LockOK'
<1>1. \A q \in Proc \ {p} : (Holds(q)' <=> Holds(q)) /\ call'[q] = call[q]
  BY DEF Others, Holds
<1> QED BY <1>1 DEF LockOK

LEMMA LockFreed ==
  ASSUME LockOK, lock \in [Slug -> Proc \union {None}], NEW p \in Proc, Unlock(p),
         Others(p), ~Holds(p)'
  PROVE  LockOK' /\ lock' \in [Slug -> Proc \union {None}]
<1>1. \A q \in Proc \ {p} : (Holds(q)' <=> Holds(q)) /\ call'[q] = call[q]
  BY DEF Others, Holds
<1> QED BY <1>1, PromotionAssumption DEF LockOK, Unlock

LEMMA LockTaken ==
  ASSUME LockOK, lock \in [Slug -> Proc \union {None}], NEW p \in Proc, NEW s \in Slug,
         lock[s] = None, lock' = [lock EXCEPT ![s] = p],
         Others(p), ~Holds(p), Holds(p)', call'[p].slug = s
  PROVE  LockOK' /\ lock' \in [Slug -> Proc \union {None}]
<1>1. \A q \in Proc \ {p} : (Holds(q)' <=> Holds(q)) /\ call'[q] = call[q]
  BY DEF Others, Holds
<1> QED BY <1>1, PromotionAssumption DEF LockOK

(* TypeOK, but for the store, the calls and the locks.                       *)
ChangeTypeOK == /\ made \subseteq Slug
                /\ files \in [Slug -> SUBSET (Expected \union {"delta"})]
                /\ originOf \in [Slug -> Flow \union {None}]
                /\ \A s \in Slug \ made : files[s] = {} /\ originOf[s] = None
                /\ current \in Slug \union {None}
                /\ bound \in [Session -> Slug \union {None}]

NotesTypeOK == notes \subseteq receipt \union promotion /\ failures \in 0 .. MaxFailures

LEMMA TypeParts ==
  TypeOK <=> /\ StoreTypeOK /\ CallType /\ LockOK /\ lock \in [Slug -> Proc \union {None}]
             /\ ChangeTypeOK /\ NotesTypeOK
BY DEF TypeOK, CallType, LockOK, ChangeTypeOK, NotesTypeOK

(* A step of p keeps what the others know; what is left is what p knows.     *)
Served(p) == /\ CallType /\ LockOK /\ lock \in [Slug -> Proc \union {None}]
             /\ ChangeTypeOK /\ NotesTypeOK
             /\ call[p] # None => Placed(call[p]) /\ Knows(call[p])

LEMMA ServedIsEnough ==
  ASSUME PromotionInv, [Next]_vars, NEW p \in Proc, Others(p), Served(p)',
         \A q \in Proc \ {p} : At(q, "reserve") => Elsewhere(q)
  PROVE  TypeOK' /\ StoreInv' /\ CallsOK'
<1>1. [StoreNext]_store /\ Grows
  BY PromotionMovesStore, ChangeGrows DEF PromotionInv
<1>2. StoreInv'
  BY <1>1, StoreStep DEF PromotionInv
<1>3. TypeOK'
  BY <1>2, TypeParts DEF Served, StoreInv, TypeOK, CallType, LockOK, ChangeTypeOK, NotesTypeOK
<1>4. ASSUME NEW q \in Proc, call'[q] # None PROVE (Placed(call[q]) /\ Knows(call[q]))'
  <2>1. CASE q = p
    BY <1>4, <2>1 DEF Served
  <2>2. CASE q # p
    <3>1. call'[q] = call[q] /\ call[q] # None
      BY <1>4, <2>2 DEF Others
    <3>2. call[q].pc = "reserve" => Elsewhere(q)
      BY <2>2, <3>1 DEF At
    <3> QED BY <1>1, <3>1, <3>2, KnownIsKept
  <2> QED BY <2>1, <2>2
<1>5. CallsOK'
  BY <1>4 DEF CallsOK
<1> QED BY <1>2, <1>3, <1>5

LEMMA NobodyReserves ==
  ASSUME reservation' = reservation
  PROVE  \A q \in Proc : Elsewhere(q)
BY DEF Elsewhere

LEMMA EndsStay ==
  ASSUME StoreInv, [StoreNext]_store
  PROVE  receipt \subseteq receipt' /\ promotion \subseteq promotion'
<1>1. receipt \subseteq Flow /\ promotion \subseteq Flow
  BY DEF StoreInv, StoreTypeOK
<1> QED BY <1>1, StoreMoves DEF Moved

(* The types of what a step leaves alone.                                    *)
LEMMA RestIsTyped ==
  ASSUME PromotionInv, [Next]_vars
  PROVE  /\ UNCHANGED change => ChangeTypeOK'
         /\ UNCHANGED <<notes, failures>> => NotesTypeOK'
<1>1. receipt \subseteq receipt' /\ promotion \subseteq promotion'
  BY PromotionMovesStore, EndsStay DEF PromotionInv
<1>2. ChangeTypeOK /\ NotesTypeOK
  BY TypeParts DEF PromotionInv
<1> QED BY <1>1, <1>2 DEF ChangeTypeOK, NotesTypeOK, change

LEMMA Parts ==
  ASSUME PromotionInv
  PROVE  /\ TypeOK /\ StoreInv /\ CallsOK /\ CallType /\ LockOK /\ ChangeTypeOK /\ NotesTypeOK
         /\ lock \in [Slug -> Proc \union {None}]
BY TypeParts DEF PromotionInv

(* finish.                                                                   *)
LEMMA RedServed ==
  ASSUME PromotionInv, [Next]_vars, NEW p \in Proc, Red(p)
  PROVE  Others(p) /\ Served(p)' /\ reservation' = reservation
<1>1. End(p) /\ UNCHANGED <<lock, change, notes, failures>> /\ reservation' = reservation
  BY DEF Red, AppendAttempt, store
<1>2. call[p] # None /\ call[p].cmd = "finish"
  BY Parts, Whereabouts DEF Red, At
<1>3. CallType' /\ Others(p) /\ call'[p] = None
  BY <1>1, Parts, EndCalls
<1>4. LockOK'
  BY <1>1, <1>2, <1>3, Parts, LockKept DEF Holds
<1> QED BY <1>1, <1>3, <1>4, Parts, RestIsTyped DEF Served

LEMMA GreenServed ==
  ASSUME PromotionInv, [Next]_vars, NEW p \in Proc, Green(p)
  PROVE  Others(p) /\ Served(p)' /\ reservation' = reservation
<1>1. UNCHANGED <<lock, change, notes, failures>> /\ reservation' = reservation
  BY DEF Green, WriteReceipt, store
<1>2. call[p] # None /\ call[p].cmd = "finish" /\ call[p].flow \in Flow
  BY Parts, Whereabouts DEF Green, At
<1>3. CASE End(p)
  <2>1. CallType' /\ Others(p) /\ call'[p] = None
    BY <1>3, Parts, EndCalls
  <2>2. LockOK'
    BY <1>1, <1>2, <2>1, Parts, LockKept DEF Holds
  <2> QED BY <1>1, <2>1, <2>2, Parts, RestIsTyped DEF Served
<1>4. CASE WriteReceipt(call[p].flow) /\ Go(p, "note")
  <2>1. CallType' /\ Others(p) /\ call[p] \in Call /\ call'[p] = [call[p] EXCEPT !.pc = "note"]
    BY <1>2, <1>4, Parts, GoCalls DEF Places
  <2>2. call'[p].pc = "note" /\ call'[p].cmd = "finish" /\ call'[p].flow = call[p].flow
    BY <1>2, <2>1 DEF Call
  <2>3. LockOK'
    BY <1>1, <1>2, <2>1, <2>2, Parts, LockKept DEF Holds
  <2>4. (Placed(call[p]) /\ Knows(call[p]))'
    BY <1>2, <1>4, <2>2 DEF Placed, Knows, WriteReceipt
  <2> QED BY <1>1, <2>1, <2>3, <2>4, Parts, RestIsTyped DEF Served
<1> QED BY <1>3, <1>4 DEF Green

LEMMA NoteServed ==
  ASSUME PromotionInv, [Next]_vars, NEW p \in Proc, Note(p)
  PROVE  Others(p) /\ Served(p)' /\ reservation' = reservation
<1>1. /\ End(p) /\ UNCHANGED <<lock, change, failures>> /\ UNCHANGED store
      /\ reservation' = reservation /\ notes' = notes \union {call[p].flow}
  BY DEF Note, store
<1>2. call[p] # None /\ call[p].pc = "note" /\ call[p].flow \in receipt \union promotion
  BY Parts, Whereabouts DEF Note, At, Knows
<1>3. CallType' /\ Others(p) /\ call'[p] = None
  BY <1>1, Parts, EndCalls
<1>4. LockOK'
  BY <1>1, <1>2, <1>3, Parts, LockKept DEF Holds
<1>5. NotesTypeOK'
  BY <1>1, <1>2, Parts DEF NotesTypeOK, store
<1> QED BY <1>1, <1>3, <1>4, <1>5, Parts, RestIsTyped DEF Served

LEMMA FailServed ==
  ASSUME PromotionInv, [Next]_vars, NEW p \in Proc, Fail(p)
  PROVE  Others(p) /\ Served(p)' /\ reservation' = reservation
<1>1. /\ End(p) /\ Unlock(p) /\ UNCHANGED <<change, notes>> /\ UNCHANGED store
      /\ reservation' = reservation /\ failures < MaxFailures /\ failures' = failures + 1
  BY DEF Fail, store
<1>2. CallType' /\ Others(p) /\ call'[p] = None
  BY <1>1, Parts, EndCalls
<1>3. LockOK' /\ lock' \in [Slug -> Proc \union {None}]
  BY <1>1, <1>2, Parts, LockFreed DEF Holds
<1>4. NotesTypeOK'
  BY <1>1, Parts, PromotionAssumption DEF NotesTypeOK, store
<1> QED BY <1>1, <1>2, <1>3, <1>4, RestIsTyped DEF Served

(* The commands begin.                                                       *)
LEMMA FinishServed ==
  ASSUME PromotionInv, [Next]_vars, NEW p \in Proc, NEW f \in Flow, Finish(p, f)
  PROVE  Others(p) /\ Served(p)' /\ reservation' = reservation
<1>1. /\ UNCHANGED store /\ UNCHANGED <<lock, change, notes, failures>>
      /\ reservation' = reservation
  BY DEF Finish, store
<1>2. PICK place \in {"checks", "note"} :
        /\ \E existed \in BOOLEAN : Begin(p, "finish", place, f, None, existed)
        /\ place = "note" => State(f) = "finished"
  BY DEF Finish
<1>3. place \in Places /\ CallType
  BY Parts DEF Places
<1>4. /\ CallType' /\ Others(p) /\ call[p] = None /\ call'[p] # None
      /\ call'[p].pc = place /\ call'[p].cmd = "finish" /\ call'[p].flow = f
  BY <1>2, <1>3, BeginCalls
<1>5. place = "note" => f \in receipt'
  BY <1>1, <1>2 DEF State, store
<1>6. LockOK'
  BY <1>1, <1>4, Parts, LockKept DEF Holds
<1>7. (Placed(call[p]) /\ Knows(call[p]))'
  BY <1>4, <1>5 DEF Placed, Knows
<1> QED BY <1>1, <1>4, <1>6, <1>7, Parts, RestIsTyped DEF Served

LEMMA PromoteServed ==
  ASSUME PromotionInv, [Next]_vars, NEW p \in Proc, NEW f \in Flow, NEW s \in Slug, Promote(p, f, s)
  PROVE  Others(p) /\ Served(p)' /\ reservation' = reservation
<1>1. /\ UNCHANGED store /\ UNCHANGED <<lock, change, notes, failures>>
      /\ reservation' = reservation
  BY DEF Promote, store
<1>2. PICK place \in {"lock", "note"} :
        /\ \E existed \in BOOLEAN : Begin(p, "promote", place, f, s, existed)
        /\ place = "note" => State(f) = "promoted"
  BY DEF Promote
<1>3. place \in Places /\ CallType
  BY Parts DEF Places
<1>4. /\ CallType' /\ Others(p) /\ call[p] = None /\ call'[p] # None
      /\ call'[p].pc = place /\ call'[p].cmd = "promote" /\ call'[p].flow = f
      /\ call'[p].slug = s
  BY <1>2, <1>3, BeginCalls
<1>5. place = "note" => f \in promotion'
  BY <1>1, <1>2 DEF State, store
<1>6. LockOK'
  BY <1>1, <1>2, <1>4, Parts, LockKept DEF Holds
<1>7. place \notin Making \union {"mkdir", "reserve"}
  BY <1>2 DEF Making
<1>8. (Placed(call[p]) /\ Knows(call[p]))'
  BY <1>2, <1>4, <1>5, <1>7 DEF Placed, Knows, Making
<1> QED BY <1>1, <1>4, <1>6, <1>8, Parts, RestIsTyped DEF Served

LEMMA ChangeNewServed ==
  ASSUME PromotionInv, [Next]_vars, NEW p \in Proc, NEW s \in Slug, ChangeNew(p, s)
  PROVE  Others(p) /\ Served(p)' /\ reservation' = reservation
<1>1. /\ UNCHANGED store /\ UNCHANGED <<lock, files, originOf, current, bound, notes, failures>>
      /\ reservation' = reservation /\ made' = made \union {s}
  BY DEF ChangeNew, store
<1>7. \E existed \in BOOLEAN : Begin(p, "new", "scaffold", None, s, existed)
  <2>1. Begin(p, "new", "scaffold", None, s, "proposal" \in files[s])
    BY DEF ChangeNew
  <2>2. ("proposal" \in files[s]) \in BOOLEAN
    OBVIOUS
  <2> QED BY <2>1, <2>2, Zenon
<1>2. "scaffold" \in Places /\ CallType
  BY Parts DEF Places
<1>3. /\ CallType' /\ Others(p) /\ call[p] = None /\ call'[p] # None
      /\ call'[p].pc = "scaffold" /\ call'[p].cmd = "new" /\ call'[p].slug = s
  BY <1>2, <1>7, BeginCalls
<1>4. LockOK'
  BY <1>1, <1>3, Parts, LockKept DEF Holds
<1>5. (Placed(call[p]) /\ Knows(call[p]))'
  BY <1>1, <1>3 DEF Placed, Knows
<1>6. ChangeTypeOK'
  BY <1>1, Parts DEF ChangeTypeOK
<1> QED BY <1>1, <1>3, <1>4, <1>5, <1>6, Parts, RestIsTyped DEF Served

(* promote.  A step that goes on to another place, under the same lock.      *)
LEMMA GoesOn ==
  ASSUME PromotionInv, NEW p \in Proc, call[p] # None, NEW place \in Places, Go(p, place)
  PROVE  /\ CallType' /\ Others(p) /\ call[p] \in Call /\ call'[p] \in Call /\ call'[p] # None
         /\ call'[p].pc = place /\ call'[p].cmd = call[p].cmd /\ call'[p].flow = call[p].flow
         /\ call'[p].slug = call[p].slug /\ call'[p].at = call[p].at
<1>1. /\ CallType' /\ Others(p) /\ call[p] \in Call /\ call'[p] \in Call
      /\ call'[p] # None /\ call'[p] = [call[p] EXCEPT !.pc = place]
  BY Parts, GoCalls
<1> QED BY <1>1 DEF Call

(* A place of the saga that is under the lock, and what is known of a promote. *)
LEMMA AtWork ==
  ASSUME PromotionInv, NEW p \in Proc, call[p] # None, call[p].cmd = "promote"
  PROVE  /\ call[p].flow \in Flow /\ call[p].slug \in Slug /\ Knows(call[p])
         /\ Holds(p) <=> call[p].pc \notin {"lock", "note"}
BY Parts, Whereabouts DEF Holds

LEMMA AcquireServed ==
  ASSUME PromotionInv, [Next]_vars, NEW p \in Proc, Acquire(p)
  PROVE  Others(p) /\ Served(p)' /\ reservation' = reservation
<1>1. /\ UNCHANGED store /\ UNCHANGED <<change, notes, failures>> /\ reservation' = reservation
      /\ call[p] # None /\ call[p].pc = "lock" /\ Go(p, "decide")
      /\ lock[call[p].slug] = None /\ lock' = [lock EXCEPT ![call[p].slug] = p]
  BY DEF Acquire, store, At
<1>2. call[p].cmd = "promote" /\ "decide" \in Places
  BY <1>1, Parts, Whereabouts DEF Places, Locked
<1>3. call[p].flow \in Flow /\ call[p].slug \in Slug /\ ~Holds(p)
  BY <1>1, <1>2, AtWork
<1>4. /\ CallType' /\ Others(p) /\ call'[p] # None /\ call'[p].pc = "decide"
      /\ call'[p].cmd = "promote" /\ call'[p].flow = call[p].flow
      /\ call'[p].slug = call[p].slug
  BY <1>1, <1>2, GoesOn
<1>5. LockOK' /\ lock' \in [Slug -> Proc \union {None}]
  BY <1>1, <1>3, <1>4, Parts, LockTaken DEF Holds
<1>6. (Placed(call[p]) /\ Knows(call[p]))'
  BY <1>3, <1>4 DEF Placed, Knows, Making
<1> QED BY <1>1, <1>4, <1>5, <1>6, RestIsTyped DEF Served

LEMMA DecideServed ==
  ASSUME PromotionInv, [Next]_vars, NEW p \in Proc, Decide(p)
  PROVE  Others(p) /\ Served(p)' /\ reservation' = reservation
<1>0. PICK f, s : f = call[p].flow /\ s = call[p].slug
  OBVIOUS
<1>1. /\ UNCHANGED store /\ UNCHANGED <<lock, change, notes, failures>>
      /\ reservation' = reservation
      /\ call[p] # None /\ call[p].pc = "decide" /\ Claims(f, s)
      /\ call' = [call EXCEPT ![p].pc = FirstStep(f, s), ![p].seen = attempts[f]]
  BY <1>0 DEF Decide, store, At
<1>2. call[p].cmd = "promote" /\ call[p] \in Call
  BY <1>1, Parts, Whereabouts DEF Locked
<1>3. f \in Flow /\ s \in Slug /\ Holds(p)
  BY <1>0, <1>1, <1>2, AtWork
<1>4. attempts[f] \in 0 .. MaxAttempts
  BY <1>3, Parts DEF StoreInv, StoreTypeOK
<1>5. FirstStep(f, s) \in {"reserve", "mkdir"}
  BY DEF FirstStep
<1>6. PICK c : c = [call[p] EXCEPT !.pc = FirstStep(f, s), !.seen = attempts[f]]
  OBVIOUS
<1>7. c \in Call /\ c.pc = FirstStep(f, s) /\ c.cmd = "promote" /\ c.flow = f /\ c.slug = s
  BY <1>0, <1>2, <1>4, <1>5, <1>6 DEF Call, Locked
<1>8. CallType' /\ Others(p) /\ call'[p] = c /\ c # None
  BY <1>1, <1>6, <1>7, Parts, CallAssumption DEF CallType, Others
<1>9. LockOK'
  BY <1>0, <1>1, <1>3, <1>5, <1>7, <1>8, Parts, LockKept DEF Holds
<1>10. FirstStep(f, s) = "mkdir" => reservation'[f].slug = s
  BY <1>1 DEF Claims, FirstStep
<1>11. Unowned(f, s)'
  BY <1>1 DEF Claims, Unowned
<1>12. (Placed(c) /\ Knows(c))'
  BY <1>3, <1>5, <1>7, <1>10, <1>11 DEF Placed, Knows, Making
<1> QED BY <1>1, <1>8, <1>9, <1>12, Parts, RestIsTyped DEF Served

LEMMA RefuseServed ==
  ASSUME PromotionInv, [Next]_vars, NEW p \in Proc, Refuse(p)
  PROVE  Others(p) /\ Served(p)' /\ reservation' = reservation
<1>1. /\ UNCHANGED store /\ UNCHANGED <<change, notes, failures>> /\ reservation' = reservation
      /\ call[p] # None /\ call[p].pc = "decide" /\ Unlock(p)
      /\ \/ State(call[p].flow) = "promoted" /\ Go(p, "note")
         \/ End(p)
  BY DEF Refuse, store, At
<1>2. call[p].cmd = "promote"
  BY <1>1, Parts, Whereabouts DEF Locked
<1>3. CASE End(p)
  <2>1. CallType' /\ Others(p) /\ call'[p] = None
    BY <1>3, Parts, EndCalls
  <2>2. LockOK' /\ lock' \in [Slug -> Proc \union {None}]
    BY <1>1, <2>1, Parts, LockFreed DEF Holds
  <2> QED BY <1>1, <2>1, <2>2, RestIsTyped DEF Served
<1>4. CASE State(call[p].flow) = "promoted" /\ Go(p, "note")
  <2>1. /\ CallType' /\ Others(p) /\ call'[p] # None /\ call'[p].pc = "note"
        /\ call'[p].cmd = "promote" /\ call'[p].flow = call[p].flow
        /\ call'[p].slug = call[p].slug
    BY <1>1, <1>2, <1>4, GoesOn DEF Places
  <2>2. call[p].flow \in Flow /\ call[p].slug \in Slug /\ call[p].flow \in promotion'
    BY <1>1, <1>2, <1>4, AtWork DEF State, store
  <2>3. LockOK' /\ lock' \in [Slug -> Proc \union {None}]
    BY <1>1, <2>1, Parts, LockFreed DEF Holds
  <2>4. (Placed(call[p]) /\ Knows(call[p]))'
    BY <2>1, <2>2 DEF Placed, Knows, Making
  <2> QED BY <1>1, <2>1, <2>3, <2>4, RestIsTyped DEF Served
<1> QED BY <1>1, <1>3, <1>4

(* The reservation: the only step that gives a slug an owner.                *)
LEMMA ReserveServed ==
  ASSUME PromotionInv, [Next]_vars, NEW p \in Proc, ReserveSlug(p)
  PROVE  /\ Others(p) /\ Served(p)' /\ SlugOwnedOnce'
         /\ \A q \in Proc \ {p} : At(q, "reserve") => Elsewhere(q)
<1>0. PICK f, s : f = call[p].flow /\ s = call[p].slug
  OBVIOUS
<1>1. /\ UNCHANGED <<change, notes, failures>>
      /\ call[p] # None /\ call[p].pc = "reserve"
      /\ \/ Reserve(f, s, call[p].seen) /\ Go(p, "mkdir") /\ UNCHANGED lock
         \/ End(p) /\ Unlock(p) /\ UNCHANGED store
  BY <1>0 DEF ReserveSlug, At
<1>2. call[p].cmd = "promote" /\ call[p] \in Call
  BY <1>1, Parts, Whereabouts DEF Locked
<1>3. f \in Flow /\ s \in Slug /\ Holds(p) /\ Unowned(f, s) /\ lock[s] = p
  BY <1>0, <1>1, <1>2, AtWork, Parts DEF Knows, LockOK
<1>4. SlugOwnedOnce
  BY DEF PromotionInv
<1>5. CASE End(p) /\ Unlock(p) /\ UNCHANGED store
  <2>1. CallType' /\ Others(p) /\ call'[p] = None
    BY <1>5, Parts, EndCalls
  <2>2. LockOK' /\ lock' \in [Slug -> Proc \union {None}]
    BY <1>5, <2>1, Parts, LockFreed DEF Holds
  <2>3. reservation' = reservation
    BY <1>5 DEF store
  <2> QED BY <1>1, <1>4, <2>1, <2>2, <2>3, NobodyReserves, RestIsTyped
          DEF Served, SlugOwnedOnce, Reserved
<1>6. CASE Reserve(f, s, call[p].seen) /\ Go(p, "mkdir") /\ UNCHANGED lock
  <2>1. /\ CallType' /\ Others(p) /\ call'[p] # None /\ call'[p].pc = "mkdir"
        /\ call'[p].cmd = "promote" /\ call'[p].flow = f /\ call'[p].slug = s
    BY <1>0, <1>1, <1>2, <1>6, GoesOn DEF Places, Locked
  <2>2. reservation \in [Flow -> Reservation \union {NoReservation}]
    BY Parts DEF StoreInv, StoreTypeOK
  <2>3. reservation'[f].slug = s /\ \A g \in Flow \ {f} : reservation'[g] = reservation[g]
    BY <1>3, <1>6, <2>2 DEF Reserve
  <2>4. LockOK'
    BY <1>0, <1>3, <1>6, <2>1, Parts, LockKept DEF Holds
  <2>5. (Placed(call[p]) /\ Knows(call[p]))'
    BY <1>3, <2>1, <2>3 DEF Placed, Knows, Making
  <2>6. ASSUME NEW q \in Proc \ {p}, At(q, "reserve") PROVE Elsewhere(q)
    <3>1. call[q] # None /\ call[q].pc = "reserve" /\ call[q].cmd = "promote"
      BY <2>6, Parts, Whereabouts DEF At, Locked
    <3>2. lock[call[q].slug] = q
      BY <3>1, AtWork, Parts DEF LockOK
    <3> QED BY <1>3, <2>3, <3>2 DEF Elsewhere
  <2>7. SlugOwnedOnce'
    <3> SUFFICES ASSUME NEW g \in Flow, NEW h \in Flow, reservation'[g] # NoReservation,
                        reservation'[g].slug = reservation'[h].slug
                 PROVE  g = h
        BY DEF SlugOwnedOnce, Reserved
    <3>1. CASE g # f /\ h # f
      BY <1>4, <2>3, <3>1 DEF SlugOwnedOnce, Reserved
    <3>2. CASE g = f \/ h = f
      BY <1>3, <2>3, <3>2 DEF Unowned
    <3> QED BY <3>1, <3>2
  <2> QED BY <1>1, <1>6, <2>1, <2>4, <2>5, <2>6, <2>7, Parts, RestIsTyped DEF Served
<1> QED BY <1>1, <1>5, <1>6

(* The scaffold: each file once, and the next step knows it is there.        *)
LEMMA MkdirServed ==
  ASSUME PromotionInv, [Next]_vars, NEW p \in Proc, Mkdir(p)
  PROVE  Others(p) /\ Served(p)' /\ reservation' = reservation
<1>1. /\ UNCHANGED store /\ UNCHANGED <<lock, files, originOf, current, bound, notes, failures>>
      /\ reservation' = reservation /\ made' = made \union {call[p].slug}
      /\ call[p] # None /\ call[p].pc = "mkdir" /\ Go(p, "origin")
  BY DEF Mkdir, store, At
<1>2. call[p].cmd = "promote"
  BY <1>1, Parts, Whereabouts DEF Locked
<1>3. /\ call[p].flow \in Flow /\ call[p].slug \in Slug /\ Holds(p)
      /\ reservation[call[p].flow].slug = call[p].slug
  BY <1>1, <1>2, AtWork DEF Knows
<1>4. /\ CallType' /\ Others(p) /\ call'[p] # None /\ call'[p].pc = "origin"
      /\ call'[p].cmd = "promote" /\ call'[p].flow = call[p].flow /\ call'[p].slug = call[p].slug
  BY <1>1, <1>2, GoesOn DEF Places, Locked
<1>5. LockOK'
  BY <1>1, <1>3, <1>4, Parts, LockKept DEF Holds
<1>6. ChangeTypeOK'
  BY <1>1, <1>3, Parts DEF ChangeTypeOK
<1>7. (Placed(call[p]) /\ Knows(call[p]))'
  BY <1>1, <1>3, <1>4 DEF Placed, Knows, Making
<1> QED BY <1>1, <1>4, <1>5, <1>6, <1>7, Parts, RestIsTyped DEF Served

LEMMA OriginServed ==
  ASSUME PromotionInv, [Next]_vars, NEW p \in Proc, Origin(p)
  PROVE  Others(p) /\ Served(p)' /\ reservation' = reservation
<1>1. /\ UNCHANGED store /\ UNCHANGED <<lock, made, files, current, bound, notes, failures>>
      /\ reservation' = reservation
      /\ originOf' = [originOf EXCEPT ![call[p].slug] = call[p].flow]
      /\ call[p] # None /\ call[p].pc = "origin" /\ Go(p, "new")
  BY DEF Origin, store, At
<1>2. call[p].cmd = "promote"
  BY <1>1, Parts, Whereabouts DEF Locked
<1>3. /\ call[p].flow \in Flow /\ call[p].slug \in Slug /\ Holds(p)
      /\ reservation[call[p].flow].slug = call[p].slug /\ call[p].slug \in made
  BY <1>1, <1>2, AtWork DEF Knows, Making
<1>4. /\ CallType' /\ Others(p) /\ call'[p] # None /\ call'[p].pc = "new"
      /\ call'[p].cmd = "promote" /\ call'[p].flow = call[p].flow /\ call'[p].slug = call[p].slug
  BY <1>1, <1>2, GoesOn DEF Places, Locked
<1>5. LockOK'
  BY <1>1, <1>3, <1>4, Parts, LockKept DEF Holds
<1>6. ChangeTypeOK' /\ originOf'[call[p].slug] = call[p].flow
  BY <1>1, <1>3, Parts DEF ChangeTypeOK
<1>7. (Placed(call[p]) /\ Knows(call[p]))'
  BY <1>1, <1>3, <1>4, <1>6 DEF Placed, Knows, Making
<1> QED BY <1>1, <1>4, <1>5, <1>6, <1>7, Parts, RestIsTyped DEF Served

LEMMA ScaffoldFiles ==
  /\ Scaffold[1] = "proposal" /\ Scaffold[2] = "tasks" /\ Scaffold[3] = "impact"
  /\ Scaffold[4] = "design" /\ Scaffold[5] = "baseline" /\ Len(Scaffold) = 5
  /\ \A i \in 1 .. 5 : Scaffold[i] \in Expected
BY DEF Scaffold, Expected

LEMMA NewInsideServed ==
  ASSUME PromotionInv, [Next]_vars, NEW p \in Proc, NewInside(p)
  PROVE  Others(p) /\ Served(p)' /\ reservation' = reservation
<1>1. /\ UNCHANGED store /\ UNCHANGED <<lock, change, notes, failures>>
      /\ reservation' = reservation /\ call[p] # None /\ call[p].pc = "new"
  BY DEF NewInside, store, At
<1>2. call[p].cmd = "promote" /\ call[p] \in Call
  BY <1>1, Parts, Whereabouts DEF Locked
<1>3. PICK existed \in BOOLEAN :
        call' = [call EXCEPT ![p].pc = "scaffold", ![p].at = 1, ![p].existed = existed]
  <2>1. ("proposal" \in files[call[p].slug]) \in BOOLEAN
    OBVIOUS
  <2>2. call' = [call EXCEPT ![p].pc = "scaffold", ![p].at = 1,
                             ![p].existed = "proposal" \in files[call[p].slug]]
    BY DEF NewInside
  <2> QED BY <2>1, <2>2, Zenon
<1>4. PICK c : c = [call[p] EXCEPT !.pc = "scaffold", !.at = 1, !.existed = existed]
  OBVIOUS
<1>5. /\ c \in Call /\ c.pc = "scaffold" /\ c.cmd = "promote" /\ c.flow = call[p].flow
      /\ c.slug = call[p].slug /\ c.at = 1
  <2>1. c.pc = "scaffold" /\ c.at = 1 /\ c.existed \in BOOLEAN
    BY <1>2, <1>4 DEF Call
  <2>2. c.cmd = "promote" /\ c.flow = call[p].flow /\ c.slug = call[p].slug /\ c.seen = call[p].seen
    BY <1>2, <1>4 DEF Call
  <2>3. c = [pc |-> c.pc, cmd |-> c.cmd, flow |-> c.flow, slug |-> c.slug, seen |-> c.seen,
             existed |-> c.existed, at |-> c.at]
    BY <1>2, <1>4 DEF Call
  <2>4. c \in Call
    BY <1>2, <2>1, <2>2, <2>3, ScaffoldFiles DEF Call
  <2> QED BY <2>1, <2>2, <2>4
<1>6. CallType' /\ Others(p) /\ call'[p] = c /\ c # None
  BY <1>3, <1>4, <1>5, Parts, CallAssumption DEF CallType, Others
<1>7. /\ call[p].flow \in Flow /\ call[p].slug \in Slug /\ Holds(p)
      /\ reservation[call[p].flow].slug = call[p].slug /\ call[p].slug \in made
      /\ originOf[call[p].slug] = call[p].flow
  BY <1>1, <1>2, AtWork DEF Knows, Making
<1>8. LockOK'
  BY <1>1, <1>2, <1>5, <1>6, <1>7, Parts, LockKept DEF Holds
<1>9. (Placed(c) /\ Knows(c))'
  BY <1>1, <1>5, <1>7 DEF Placed, Knows, Making, change
<1> QED BY <1>1, <1>6, <1>8, <1>9, Parts, RestIsTyped DEF Served

LEMMA WriteServed ==
  ASSUME PromotionInv, [Next]_vars, NEW p \in Proc, Write(p)
  PROVE  Others(p) /\ Served(p)' /\ reservation' = reservation
<1>0. PICK s, n : s = call[p].slug /\ n = call[p].at
  OBVIOUS
<1>1. /\ UNCHANGED store /\ UNCHANGED <<lock, made, originOf, current, bound, notes, failures>>
      /\ reservation' = reservation /\ call[p] # None /\ call[p].pc = "scaffold"
      /\ \/ files' = files /\ Scaffold[n] \in {"impact", "baseline"}
         \/ files' = [files EXCEPT ![s] = @ \union {Scaffold[n]}]
      /\ IF n < 5 THEN call' = [call EXCEPT ![p].at = n + 1] ELSE Go(p, "activate")
  BY <1>0, ScaffoldFiles DEF Write, store, At
<1>2. call[p] \in Call /\ Placed(call[p]) /\ Knows(call[p]) /\ n \in 1 .. 5
  BY <1>0, <1>1, Parts, Whereabouts, ScaffoldFiles DEF Call
<1>3. s \in made /\ s \in Slug /\ call[p].cmd \in {"promote", "new"}
  BY <1>0, <1>1, <1>2, Parts DEF Call, Placed, Knows, Making, ChangeTypeOK
<1>4. /\ files'[s] \in SUBSET (Expected \union {"delta"})
      /\ ChangeTypeOK' /\ files[s] \subseteq files'[s]
      /\ Scaffold[n] \notin {"impact", "baseline"} => Scaffold[n] \in files'[s]
  BY <1>1, <1>2, <1>3, Parts, ScaffoldFiles DEF ChangeTypeOK
<1>5. PICK c : c = IF n < 5 THEN [call[p] EXCEPT !.at = n + 1] ELSE [call[p] EXCEPT !.pc = "activate"]
  OBVIOUS
<1>6. /\ c \in Call /\ c.cmd = call[p].cmd /\ c.flow = call[p].flow /\ c.slug = s
      /\ \/ n < 5 /\ c.pc = "scaffold" /\ c.at = n + 1
         \/ n = 5 /\ c.pc = "activate"
  BY <1>0, <1>1, <1>2, <1>5, ScaffoldFiles DEF Call
<1>7. CallType' /\ Others(p) /\ call'[p] = c /\ c # None
  BY <1>1, <1>5, <1>6, Parts, CallAssumption DEF CallType, Others, Go
<1>8. Holds(p)' <=> Holds(p)
  BY <1>1, <1>6, <1>7 DEF Holds
<1>9. LockOK'
  BY <1>0, <1>1, <1>6, <1>7, <1>8, Parts, LockKept
<1>10. CASE call[p].cmd = "new"
  BY <1>1, <1>3, <1>6, <1>7, <1>9, <1>4, <1>10, Parts, RestIsTyped DEF Placed, Knows, Served
<1>11. CASE call[p].cmd = "promote"
  <2>1. /\ call[p].flow \in Flow /\ reservation[call[p].flow].slug = s
        /\ originOf[s] = call[p].flow
        /\ 1 < n => "proposal" \in files[s]
        /\ 2 < n => "tasks" \in files[s]
        /\ 4 < n => "design" \in files[s]
    BY <1>0, <1>1, <1>2, <1>11 DEF Placed, Knows, Making
  <2>2. /\ "proposal" \in files'[s]
        /\ 2 <= n => "tasks" \in files'[s]
        /\ 4 <= n => "design" \in files'[s]
    BY <2>1, <1>2, <1>4, ScaffoldFiles
  <2>3. (Placed(c) /\ Knows(c))'
    BY <1>1, <1>2, <1>3, <1>6, <1>11, <2>1, <2>2 DEF Placed, Knows, Making
  <2> QED BY <1>1, <1>4, <1>7, <1>9, <2>3, Parts, RestIsTyped DEF Served
<1> QED BY <1>3, <1>10, <1>11

LEMMA ActivateServed ==
  ASSUME PromotionInv, [Next]_vars, NEW p \in Proc, Activate(p)
  PROVE  Others(p) /\ Served(p)' /\ reservation' = reservation
<1>1. /\ UNCHANGED store /\ UNCHANGED <<lock, made, files, originOf, bound, notes, failures>>
      /\ reservation' = reservation /\ current' = call[p].slug
      /\ call[p] # None /\ call[p].pc = "activate"
      /\ IF call[p].cmd = "new" THEN End(p) ELSE Go(p, "enrich")
  BY DEF Activate, store, At
<1>2. call[p] \in Call /\ call[p].cmd \in {"promote", "new"} /\ call[p].slug \in Slug
  BY <1>1, Parts, Whereabouts DEF Call, Placed
<1>3. ChangeTypeOK'
  BY <1>1, <1>2, Parts DEF ChangeTypeOK
<1>4. CASE call[p].cmd = "new"
  <2>1. CallType' /\ Others(p) /\ call'[p] = None
    BY <1>1, <1>4, Parts, EndCalls
  <2>2. LockOK'
    BY <1>1, <1>4, <2>1, Parts, LockKept DEF Holds
  <2> QED BY <1>1, <1>3, <2>1, <2>2, Parts, RestIsTyped DEF Served
<1>5. CASE call[p].cmd = "promote"
  <2>1. /\ call[p].flow \in Flow /\ Holds(p) /\ Knows(call[p])
    BY <1>1, <1>5, AtWork
  <2>2. /\ CallType' /\ Others(p) /\ call'[p] # None /\ call'[p].pc = "enrich"
        /\ call'[p].cmd = "promote" /\ call'[p].flow = call[p].flow
        /\ call'[p].slug = call[p].slug
    BY <1>1, <1>5, GoesOn DEF Places, Locked
  <2>3. LockOK'
    BY <1>1, <2>1, <2>2, Parts, LockKept DEF Holds
  <2>4. (Placed(call[p]) /\ Knows(call[p]))'
    BY <1>1, <1>2, <1>5, <2>1, <2>2 DEF Placed, Knows, Making
  <2> QED BY <1>1, <1>3, <2>2, <2>3, <2>4, Parts, RestIsTyped DEF Served
<1> QED BY <1>2, <1>4, <1>5

LEMMA EnrichServed ==
  ASSUME PromotionInv, [Next]_vars, NEW p \in Proc, Enrich(p)
  PROVE  Others(p) /\ Served(p)' /\ reservation' = reservation
<1>1. /\ UNCHANGED store /\ UNCHANGED <<lock, made, originOf, current, bound, notes, failures>>
      /\ reservation' = reservation
      /\ files' = [files EXCEPT ![call[p].slug] = @ \union {"summary"}]
      /\ call[p] # None /\ call[p].pc = "enrich" /\ Go(p, "register")
  BY DEF Enrich, store, At
<1>2. call[p].cmd = "promote"
  BY <1>1, Parts, Whereabouts DEF Locked
<1>3. call[p].flow \in Flow /\ call[p].slug \in Slug /\ Holds(p) /\ Knows(call[p])
  BY <1>1, <1>2, AtWork
<1>4. call[p].slug \in made
  BY <1>1, <1>2, <1>3 DEF Knows, Making
<1>5. /\ CallType' /\ Others(p) /\ call'[p] # None /\ call'[p].pc = "register"
      /\ call'[p].cmd = "promote" /\ call'[p].flow = call[p].flow /\ call'[p].slug = call[p].slug
  BY <1>1, <1>2, GoesOn DEF Places, Locked
<1>6. LockOK'
  BY <1>1, <1>3, <1>5, Parts, LockKept DEF Holds
<1>7. ChangeTypeOK' /\ files'[call[p].slug] = files[call[p].slug] \union {"summary"}
  BY <1>1, <1>3, <1>4, Parts DEF ChangeTypeOK, Expected
<1>8. (Placed(call[p]) /\ Knows(call[p]))'
  BY <1>1, <1>2, <1>3, <1>5, <1>7 DEF Placed, Knows, Making
<1> QED BY <1>1, <1>5, <1>6, <1>7, <1>8, Parts, RestIsTyped DEF Served

LEMMA RegisterServed ==
  ASSUME PromotionInv, [Next]_vars, NEW p \in Proc, Register(p)
  PROVE  Others(p) /\ Served(p)' /\ reservation' = reservation
<1>1. /\ UNCHANGED store /\ UNCHANGED <<lock, made, files, originOf, current, notes, failures>>
      /\ reservation' = reservation
      /\ bound' = [bound EXCEPT ![SessionOf[call[p].flow]] = call[p].slug]
      /\ call[p] # None /\ call[p].pc = "register" /\ Go(p, "terminal")
  BY DEF Register, store, At
<1>2. call[p].cmd = "promote"
  BY <1>1, Parts, Whereabouts DEF Locked
<1>3. call[p].flow \in Flow /\ call[p].slug \in Slug /\ Holds(p) /\ Knows(call[p])
  BY <1>1, <1>2, AtWork
<1>4. /\ CallType' /\ Others(p) /\ call'[p] # None /\ call'[p].pc = "terminal"
      /\ call'[p].cmd = "promote" /\ call'[p].flow = call[p].flow /\ call'[p].slug = call[p].slug
  BY <1>1, <1>2, GoesOn DEF Places, Locked
<1>5. LockOK'
  BY <1>1, <1>3, <1>4, Parts, LockKept DEF Holds
<1>6. ChangeTypeOK'
  BY <1>1, <1>3, Parts DEF ChangeTypeOK
<1>7. (Placed(call[p]) /\ Knows(call[p]))'
  BY <1>1, <1>2, <1>3, <1>4 DEF Placed, Knows, Making
<1> QED BY <1>1, <1>4, <1>5, <1>6, <1>7, Parts, RestIsTyped DEF Served

(* The promotion is recorded when its change is whole.                       *)
LEMMA TerminalServed ==
  ASSUME PromotionInv, [Next]_vars, NEW p \in Proc, Terminal(p)
  PROVE  Others(p) /\ Served(p)' /\ reservation' = reservation /\ PromotedIsWhole'
<1>1. /\ UNCHANGED <<change, notes, failures>> /\ UNCHANGED <<files, originOf>>
      /\ reservation' = reservation /\ promotion' = promotion \union {call[p].flow}
      /\ call[p] # None /\ call[p].pc = "terminal" /\ Go(p, "note") /\ Unlock(p)
  BY DEF Terminal, WritePromotion, At, change
<1>2. call[p].cmd = "promote"
  BY <1>1, Parts, Whereabouts DEF Locked
<1>3. call[p].flow \in Flow /\ call[p].slug \in Slug /\ Holds(p) /\ Knows(call[p])
  BY <1>1, <1>2, AtWork
<1>4. /\ CallType' /\ Others(p) /\ call'[p] # None /\ call'[p].pc = "note"
      /\ call'[p].cmd = "promote" /\ call'[p].flow = call[p].flow /\ call'[p].slug = call[p].slug
  BY <1>1, <1>2, GoesOn DEF Places
<1>5. LockOK' /\ lock' \in [Slug -> Proc \union {None}]
  BY <1>1, <1>4, Parts, LockFreed DEF Holds
<1>6. (Placed(call[p]) /\ Knows(call[p]))'
  BY <1>1, <1>3, <1>4 DEF Placed, Knows, Making
<1>7. PromotedIsWhole'
  <2>1. /\ reservation[call[p].flow].slug = call[p].slug
        /\ originOf[call[p].slug] = call[p].flow
        /\ {"proposal", "summary", "tasks", "design"} \subseteq files[call[p].slug]
    BY <1>1, <1>2, <1>3 DEF Knows, Making
  <2> QED BY <1>1, <2>1 DEF PromotionInv, PromotedIsWhole
<1> QED BY <1>1, <1>4, <1>5, <1>6, <1>7, RestIsTyped DEF Served
-----------------------------------------------------------------------------
(* What nobody promoted or reserved meanwhile stays as it was.               *)
LEMMA WholeIsKept ==
  ASSUME PromotionInv, [Next]_vars, promotion' = promotion
  PROVE  PromotedIsWhole'
<1> SUFFICES ASSUME NEW f \in promotion
             PROVE  /\ originOf'[reservation'[f].slug] = f
                    /\ {"proposal", "summary", "tasks", "design"} \subseteq files'[reservation'[f].slug]
    BY DEF PromotedIsWhole
<1>1. [StoreNext]_store /\ Grows
  BY PromotionMovesStore, ChangeGrows DEF PromotionInv
<1>2. f \in Flow /\ Reserved(f) /\ reservation[f].slug \in Slug
  BY Parts DEF StoreInv, StoreTypeOK, Sound, Reserved, Reservation
<1>3. reservation'[f] = reservation[f]
  BY <1>1, <1>2, FinalStep, Parts
<1>4. /\ originOf[reservation[f].slug] = f
      /\ {"proposal", "summary", "tasks", "design"} \subseteq files[reservation[f].slug]
  BY DEF PromotionInv, PromotedIsWhole
<1>5. f # None
  BY <1>2, PromotionAssumption
<1> QED BY <1>1, <1>2, <1>3, <1>4, <1>5 DEF Grows

LEMMA OwnersAreKept ==
  ASSUME SlugOwnedOnce, reservation' = reservation
  PROVE  SlugOwnedOnce'
BY DEF SlugOwnedOnce, Reserved

(* A step of no process.                                                     *)
LEMMA NobodyServed ==
  ASSUME PromotionInv, [Next]_vars, call' = call, lock' = lock, reservation' = reservation,
         ChangeTypeOK', UNCHANGED <<notes, failures>>
  PROVE  TypeOK' /\ StoreInv' /\ CallsOK'
<1>1. [StoreNext]_store /\ Grows
  BY PromotionMovesStore, ChangeGrows DEF PromotionInv
<1>2. StoreInv'
  BY <1>1, StoreStep, Parts
<1>3. CallType' /\ LockOK' /\ lock' \in [Slug -> Proc \union {None}]
  BY Parts DEF CallType, LockOK, Holds
<1>4. NotesTypeOK'
  BY RestIsTyped
<1>5. TypeOK'
  BY <1>2, <1>3, <1>4 DEF StoreInv, TypeOK, CallType, LockOK, ChangeTypeOK, NotesTypeOK
<1>6. CallsOK'
  BY <1>1, KnownIsKept, NobodyReserves DEF CallsOK
<1> QED BY <1>2, <1>5, <1>6

LEMMA PromotionStep == PromotionInv /\ [Next]_vars => PromotionInv'
<1> SUFFICES ASSUME PromotionInv, [Next]_vars PROVE PromotionInv'
    OBVIOUS
<1>1. SlugOwnedOnce
  BY DEF PromotionInv
<1>2. ASSUME NEW p \in Proc, Others(p), Served(p)', reservation' = reservation
      PROVE  TypeOK' /\ StoreInv' /\ CallsOK' /\ SlugOwnedOnce'
  BY <1>1, <1>2, NobodyReserves, ServedIsEnough, OwnersAreKept
<1>3. ASSUME NEW p \in Proc, Others(p), Served(p)', reservation' = reservation,
             promotion' = promotion
      PROVE  PromotionInv'
  BY <1>2, <1>3, WholeIsKept DEF PromotionInv
<1>4. ASSUME NEW p \in Proc,
             \/ Red(p) \/ Green(p) \/ Note(p) \/ Decide(p) \/ Refuse(p) \/ Mkdir(p) \/ Origin(p)
             \/ NewInside(p) \/ Write(p) \/ Activate(p) \/ Enrich(p) \/ Register(p)
             \/ Acquire(p) \/ Fail(p)
      PROVE  PromotionInv'
  <2>1. promotion' = promotion
    BY <1>4 DEF Red, Green, Note, Decide, Refuse, Mkdir, Origin, NewInside, Write, Activate,
       Enrich, Register, Acquire, Fail, AppendAttempt, WriteReceipt, store
  <2>2. Others(p) /\ Served(p)' /\ reservation' = reservation
    BY <1>4, RedServed, GreenServed, NoteServed, DecideServed, RefuseServed, MkdirServed,
       OriginServed, NewInsideServed, WriteServed, ActivateServed, EnrichServed,
       RegisterServed, AcquireServed, FailServed
  <2> QED BY <1>3, <2>1, <2>2
<1>5. ASSUME NEW p \in Proc, ReserveSlug(p) PROVE PromotionInv'
  <2>1. promotion' = promotion
    BY <1>5 DEF ReserveSlug, Reserve, store
  <2> QED BY <1>5, <2>1, ReserveServed, ServedIsEnough, WholeIsKept DEF PromotionInv
<1>6. ASSUME NEW p \in Proc, Terminal(p) PROVE PromotionInv'
  BY <1>2, <1>6, TerminalServed DEF PromotionInv
<1>7. ASSUME NEW p \in Proc, NEW f \in Flow, Finish(p, f) PROVE PromotionInv'
  <2>1. promotion' = promotion
    BY <1>7 DEF Finish, store
  <2> QED BY <1>3, <1>7, <2>1, FinishServed
<1>8. ASSUME NEW p \in Proc, NEW f \in Flow, NEW s \in Slug, Promote(p, f, s) PROVE PromotionInv'
  <2>1. promotion' = promotion
    BY <1>8 DEF Promote, store
  <2> QED BY <1>3, <1>8, <2>1, PromoteServed
<1>9. ASSUME NEW p \in Proc, NEW s \in Slug, ChangeNew(p, s) PROVE PromotionInv'
  <2>1. promotion' = promotion
    BY <1>9 DEF ChangeNew, store
  <2> QED BY <1>3, <1>9, <2>1, ChangeNewServed
<1>10. ASSUME call' = call, lock' = lock, reservation' = reservation, promotion' = promotion,
              ChangeTypeOK', UNCHANGED <<notes, failures>>
       PROVE  PromotionInv'
  BY <1>1, <1>10, NobodyServed, OwnersAreKept, WholeIsKept DEF PromotionInv
<1>11. ASSUME NEW f \in Flow, Start(f) PROVE PromotionInv'
  BY <1>10, <1>11, RestIsTyped DEF Start, Create
<1>12. ASSUME NEW s \in Slug, Author(s) PROVE PromotionInv'
  <2>1. /\ "proposal" \in files[s] /\ UNCHANGED store
        /\ files' = [files EXCEPT ![s] = @ \union {"delta"}]
        /\ UNCHANGED <<call, lock, made, originOf, current, bound, notes, failures>>
    BY <1>12 DEF Author
  <2>2. ChangeTypeOK'
    BY <2>1, Parts DEF ChangeTypeOK
  <2> QED BY <1>10, <2>1, <2>2 DEF store
<1>13. CASE UNCHANGED vars
  BY <1>10, <1>13, RestIsTyped DEF vars, store
<1> QED BY <1>4, <1>5, <1>6, <1>7, <1>8, <1>9, <1>11, <1>12, <1>13 DEF Next, Step

LEMMA PromotionInitial == Init => PromotionInv
<1> SUFFICES ASSUME Init PROVE PromotionInv
    OBVIOUS
<1>1. StoreInv
  BY StoreInitial DEF Init
<1>2. CallType /\ LockOK /\ lock \in [Slug -> Proc \union {None}]
  BY PromotionAssumption DEF Init, CallType, LockOK, Holds
<1>3. ChangeTypeOK /\ NotesTypeOK
  BY PromotionAssumption DEF Init, ChangeTypeOK, NotesTypeOK
<1>4. CallsOK /\ SlugOwnedOnce /\ PromotedIsWhole
  BY DEF Init, StoreInit, CallsOK, SlugOwnedOnce, PromotedIsWhole, Reserved
<1> QED BY <1>1, <1>2, <1>3, <1>4, TypeParts DEF PromotionInv, StoreInv

LEMMA PromotionInvariant == Spec => []PromotionInv
BY PromotionInitial, PromotionStep, PTL DEF Spec

(* The commands of flow-core keep their types and the store sound, for any    *)
(* number of processes, flows, slugs and failures.                           *)
THEOREM PromotionIsTyped == Spec => [](TypeOK /\ Sound /\ OneRunning)
<1>1. PromotionInv => TypeOK /\ Sound /\ OneRunning
  BY DEF PromotionInv, StoreInv
<1> QED BY <1>1, PromotionInvariant, PTL

(* Two flows never reserve one slug: the reservations are consulted under    *)
(* the lock of the slug, which its holder keeps until it has reserved.       *)
THEOREM SlugsAreOwned == Spec => []SlugOwnedOnce
<1>1. PromotionInv => SlugOwnedOnce
  BY DEF PromotionInv
<1> QED BY <1>1, PromotionInvariant, PTL

(* A promoted flow left a whole change, however many crashes and retries it   *)
(* took: what a step of the saga wrote is there when the next one runs.      *)
THEOREM PromotionsAreWhole == Spec => []PromotedIsWhole
<1>1. PromotionInv => PromotedIsWhole
  BY DEF PromotionInv
<1> QED BY <1>1, PromotionInvariant, PTL

(* A session never has two flows that still run, with a reader beside the     *)
(* writers.                                                                  *)
THEOREM OneFlowRuns == ReadSpec => []OneRunning
<1>1. StoreInv => OneRunning
  BY DEF StoreInv
<1> QED BY <1>1, StoreInvariant, PTL

(* The commands end a flow and reserve a promotion once and for all.          *)
THEOREM PromotionsAreFinal == Spec => Final
<1>1. PromotionInv /\ [Next]_vars
        => [\A f \in Flow :
              /\ Reserved(f) => reservation'[f] = reservation[f]
              /\ f \in receipt \union promotion
                   => State(f)' = State(f) /\ attempts'[f] = attempts[f]]_store
  BY FinalStep, PromotionMovesStore DEF PromotionInv
<1> QED BY <1>1, PromotionInvariant, PTL DEF Spec, Final
=============================================================================
