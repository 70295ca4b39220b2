----------------------- MODULE WorktreeCleanupProofs -----------------------
(* For any callers, sessions and bounds: one call at a time removes the       *)
(* worktree, it removes it under nobody, and the receipt and the tombstone it *)
(* leaves behind are true for good.                                          *)
EXTENDS WorktreeCleanup, TLAPS

(* The places of a call between the two reservations and the two releases.    *)
Held == {"ready", "revalidate", "remove"} \union Irreversible

(* Once the worktree is cleaned, a later call that completes the cleanup      *)
(* borrows the attempt of the call it releases: what is said of attempts is   *)
(* then said of the other places only.                                       *)
Apart == IF entry.state = "cleaned" THEN {"release", "fail", "failed", "idle"} ELSE {"idle"}

(* Every value has the fields that its writers give it, and an operation that *)
(* took anything has a number.                                               *)
RegistryShape(r) ==
  /\ r = [ctx |-> r.ctx, live |-> r.live, res |-> r.res, tomb |-> r.tomb]
  /\ r.ctx = [s \in Session |-> r.ctx[s]]
  /\ \A s \in Session :
       /\ r.ctx[s] = [state |-> r.ctx[s].state, delivery |-> r.ctx[s].delivery,
                      rev |-> r.ctx[s].rev]
       /\ r.ctx[s].state \in {"none", "active", "closed"} /\ r.ctx[s].rev \in Nat
  /\ r.live \subseteq Session
  /\ r.res = NoReservation
       \/ /\ r.res = [op |-> r.res.op, try |-> r.res.try, owner |-> r.res.owner,
                      phase |-> r.res.phase, cmd |-> r.res.cmd, snap |-> r.res.snap,
                      head |-> r.res.head]
          /\ r.res.op \in Nat /\ r.res.try \in Nat
  /\ r.tomb # NoTombstone => r.tomb.op \in Nat

EntryShape(e) ==
  /\ e = [state |-> e.state, op |-> e.op, try |-> e.try, owner |-> e.owner, cmd |-> e.cmd,
          snap |-> e.snap, head |-> e.head, receipt |-> e.receipt]
  /\ e.state \in {"ready", "cleaning", "failed", "cleaned"}
  /\ e.state # "ready" => e.op \in Nat
  /\ e.owner \in Caller \union {None}

LocShape(l) ==
  /\ l = [cmd |-> l.cmd, was |-> l.was, base |-> l.base, id |-> l.id, head |-> l.head,
          resumed |-> l.resumed, op |-> l.op, run |-> l.run, try |-> l.try,
          late |-> l.late, got |-> l.got]
  /\ l.try \in Nat
  /\ Resumable(l.was) => l.was.op \in Nat

CallShapes == /\ pc = [w \in Caller |-> pc[w]] /\ loc = [w \in Caller |-> loc[w]]
              /\ \A w \in Caller : LocShape(loc[w])
              /\ \A w \in Caller : pc[w] \in {"reserve", "tree", "undo", "prefail"} =>
                   loc[w].op \in Nat

Bounds == /\ path \in BOOLEAN /\ dirty \in BOOLEAN
          /\ events \in 0..MaxEvents /\ tries \in 0..MaxTries /\ faults \in 0..MaxFaults
          /\ head # None => head \in 0..events

Shapes == RegistryShape(reg) /\ EntryShape(entry) /\ CallShapes /\ Bounds

(* Attempts are numbered apart; a reservation by the number of a call that    *)
(* goes on is that call's own, and not one that another may take over.        *)
Attempts ==
  /\ reg.res # NoReservation => reg.res.try <= tries
  /\ \A w \in Caller : loc[w].try <= tries
  /\ \A w, v \in Caller : w # v /\ pc[w] \notin Apart /\ pc[v] \notin Apart =>
       loc[w].try # loc[v].try
  /\ entry.state # "cleaned" => \A w \in Caller :
       pc[w] # "idle" /\ reg.res # NoReservation /\ reg.res.try = loc[w].try =>
         reg.res.owner = w /\ reg.res.phase \notin {"failed", "finalized"}

(* A call between its reservations and its releases works on the operation    *)
(* and the command of the entry.                                             *)
Taking == /\ \A w \in Caller : pc[w] \in Held =>
               entry.state # "ready" /\ loc[w].run = entry.op /\ loc[w].cmd = entry.cmd
          /\ \A w \in Caller : pc[w] \in {"release", "complete"} => entry.state = "cleaned"

(* Whose reservation it is decides who goes on; nobody does once the worktree *)
(* is cleaned.                                                               *)
Removing == /\ OneRemover
            /\ entry.state = "cleaned" => \A w \in Caller : pc[w] \in Held => ~Owns(w)

(* What was inspected is still so: nobody else may write what is watched.     *)
StillQuiet == \A w \in Caller : pc[w] \in {"remove", "git"} /\ path /\ Owns(w) =>
                reg.live = {} /\ \A s \in ActiveIn(reg) : ~reg.ctx[s].delivery

(* How far a removal has got, by its place.                                  *)
Progress == \A w \in Caller :
  /\ pc[w] \in {"after", "close", "append", "terminal", "finalize"} => ~path
  /\ pc[w] \in {"append", "terminal", "finalize"} /\ loc[w].cmd = "finish" => head = None
  /\ pc[w] \in {"terminal", "finalize"} => loc[w].got \in receipts
  /\ pc[w] = "finalize" => reg.tomb # NoTombstone /\ reg.tomb.op = entry.op

(* Receipts are of the one operation and command that took the worktree.     *)
Receipts == /\ ReceiptIsTrue
            /\ \A r \in receipts : entry.state # "ready" /\ r.op = entry.op /\ r.cmd = entry.cmd

Sealing == /\ reg.tomb # NoTombstone => ActiveIn(reg) = {}
           /\ CleanedIsSealed

CleanupInv == /\ Shapes /\ Attempts /\ Taking /\ Removing
              /\ StillQuiet /\ Progress /\ Receipts /\ Sealing

LEMMA NoneIsApart == None \notin Caller /\ None \notin Nat
  BY CleanupAssumption

-----------------------------------------------------------------------------
(* What the writers of the registry do to its parts.                         *)
LEMMA PhaseIsSet ==
  ASSUME NEW r, RegistryShape(r), r.res # NoReservation, NEW x
  PROVE  LET q == [r EXCEPT !.res.phase = x]
         IN  /\ RegistryShape(q) /\ q.ctx = r.ctx /\ q.live = r.live /\ q.tomb = r.tomb
             /\ q.res # NoReservation /\ q.res.op = r.res.op /\ q.res.try = r.res.try
             /\ q.res.owner = r.res.owner /\ q.res.phase = x
<1> DEFINE q == [r EXCEPT !.res.phase = x]
<1>1. q = [ctx |-> r.ctx, live |-> r.live, res |-> [r.res EXCEPT !.phase = x], tomb |-> r.tomb]
  BY DEF RegistryShape
<1>2. [r.res EXCEPT !.phase = x] =
        [op |-> r.res.op, try |-> r.res.try, owner |-> r.res.owner, phase |-> x,
         cmd |-> r.res.cmd, snap |-> r.res.snap, head |-> r.res.head]
  BY DEF RegistryShape
<1> HIDE DEF q
<1> QED BY <1>1, <1>2, NoneIsApart DEF RegistryShape, NoReservation, q

LEMMA OwnerIsCleared ==
  ASSUME NEW r, RegistryShape(r), r.res # NoReservation
  PROVE  LET q == [r EXCEPT !.res.owner = None]
         IN  /\ RegistryShape(q) /\ q.ctx = r.ctx /\ q.live = r.live /\ q.tomb = r.tomb
             /\ q.res # NoReservation /\ q.res.op = r.res.op /\ q.res.try = r.res.try
             /\ q.res.owner = None /\ q.res.phase = r.res.phase
<1> DEFINE q == [r EXCEPT !.res.owner = None]
<1>1. q = [ctx |-> r.ctx, live |-> r.live, res |-> [r.res EXCEPT !.owner = None], tomb |-> r.tomb]
  BY DEF RegistryShape
<1>2. [r.res EXCEPT !.owner = None] =
        [op |-> r.res.op, try |-> r.res.try, owner |-> None, phase |-> r.res.phase,
         cmd |-> r.res.cmd, snap |-> r.res.snap, head |-> r.res.head]
  BY DEF RegistryShape
<1> HIDE DEF q
<1> QED BY <1>1, <1>2, NoneIsApart DEF RegistryShape, NoReservation, q

LEMMA ReservationIsDropped ==
  ASSUME NEW r, RegistryShape(r)
  PROVE  LET q == [r EXCEPT !.res = NoReservation]
         IN  /\ RegistryShape(q) /\ q.ctx = r.ctx /\ q.live = r.live /\ q.tomb = r.tomb
             /\ q.res = NoReservation
<1> DEFINE q == [r EXCEPT !.res = NoReservation]
<1>1. q = [ctx |-> r.ctx, live |-> r.live, res |-> NoReservation, tomb |-> r.tomb]
  BY DEF RegistryShape
<1> HIDE DEF q
<1> QED BY <1>1 DEF RegistryShape, q

LEMMA TombstoneIsSet ==
  ASSUME NEW r, RegistryShape(r), NEW t, t.op \in Nat
  PROVE  LET q == [r EXCEPT !.tomb = t]
         IN  /\ RegistryShape(q) /\ q.ctx = r.ctx /\ q.live = r.live /\ q.res = r.res
             /\ q.tomb = t /\ q.tomb # NoTombstone
<1> DEFINE q == [r EXCEPT !.tomb = t]
<1>1. q = [ctx |-> r.ctx, live |-> r.live, res |-> r.res, tomb |-> t]
  BY DEF RegistryShape
<1>2. t # NoTombstone
  BY NoneIsApart DEF NoTombstone
<1> HIDE DEF q
<1> QED BY <1>1, <1>2 DEF RegistryShape, q

LEMMA SessionsAreSet ==
  ASSUME NEW r, RegistryShape(r), NEW L \in SUBSET Session
  PROVE  LET q == [r EXCEPT !.live = L]
         IN  /\ RegistryShape(q) /\ q.ctx = r.ctx /\ q.live = L /\ q.res = r.res /\ q.tomb = r.tomb
<1> DEFINE q == [r EXCEPT !.live = L]
<1>1. q = [ctx |-> r.ctx, live |-> L, res |-> r.res, tomb |-> r.tomb]
  BY DEF RegistryShape
<1> HIDE DEF q
<1> QED BY <1>1 DEF RegistryShape, q

LEMMA ContextIsPut ==
  ASSUME NEW r, RegistryShape(r), NEW s \in Session, NEW d,
         NEW state \in {"active", "closed"}
  PROVE  LET q == Put(r, s, state, d)
         IN  /\ RegistryShape(q) /\ q.live = r.live /\ q.res = r.res /\ q.tomb = r.tomb
             /\ q.ctx[s].state = state /\ q.ctx[s] # r.ctx[s]
             /\ \A t \in Session \ {s} : q.ctx[t] = r.ctx[t]
<1> DEFINE q == Put(r, s, state, d)
           new == [state |-> state, delivery |-> d, rev |-> r.ctx[s].rev + 1]
           ctx == [r.ctx EXCEPT ![s] = new]
<1>1. q = [ctx |-> ctx, live |-> r.live, res |-> r.res, tomb |-> r.tomb]
  BY DEF RegistryShape, Put
<1>2. ctx = [t \in Session |-> IF t = s THEN new ELSE r.ctx[t]]
  BY DEF RegistryShape
<1>3. /\ new = [state |-> new.state, delivery |-> new.delivery, rev |-> new.rev]
      /\ new.state = state /\ new.rev \in Nat /\ new.rev # r.ctx[s].rev
  <2>1. r.ctx[s].rev \in Nat
    BY DEF RegistryShape
  <2>2. new.state = state /\ new.delivery = d /\ new.rev = r.ctx[s].rev + 1
    OBVIOUS
  <2> QED BY <2>1, <2>2
<1> HIDE DEF q, new, ctx
<1>4. q.ctx = ctx /\ q.live = r.live /\ q.res = r.res /\ q.tomb = r.tomb
  BY <1>1
<1>5. ctx[s] = new /\ \A t \in Session \ {s} : ctx[t] = r.ctx[t]
  BY <1>2
<1>6. /\ ctx = [t \in Session |-> ctx[t]]
      /\ \A t \in Session :
           /\ ctx[t] = [state |-> ctx[t].state, delivery |-> ctx[t].delivery, rev |-> ctx[t].rev]
           /\ ctx[t].state \in {"none", "active", "closed"} /\ ctx[t].rev \in Nat
  BY <1>2, <1>3, <1>5 DEF RegistryShape
<1>7. RegistryShape(q)
  BY <1>1, <1>4, <1>6 DEF RegistryShape
<1> QED BY <1>3, <1>4, <1>5, <1>7 DEF q

(* Registries with the same watched parts have the same active contexts.     *)
LEMMA WatchedTells ==
  ASSUME NEW r, NEW q, Watched(r) = Watched(q)
  PROVE  r.live = q.live /\ ActiveIn(r) = ActiveIn(q) /\ \A s \in ActiveIn(r) : r.ctx[s] = q.ctx[s]
<1>1. r.live = q.live /\ Snapshot(r) = Snapshot(q)
  BY DEF Watched
<1>2. DOMAIN Snapshot(r) = ActiveIn(r) /\ DOMAIN Snapshot(q) = ActiveIn(q)
  BY DEF Snapshot
<1>3. \A s \in ActiveIn(r) : Snapshot(r)[s] = r.ctx[s]
  BY DEF Snapshot
<1>4. \A s \in ActiveIn(q) : Snapshot(q)[s] = q.ctx[s]
  BY DEF Snapshot
<1> QED BY <1>1, <1>2, <1>3, <1>4

(* Who cleans nothing up writes nothing that is watched.                     *)
LEMMA NobodyWrites ==
  ASSUME NEW r, RegistryShape(r), NEW q, MayWrite(r, q, None)
  PROVE  /\ r.res # NoReservation => Watched(r) = Watched(q)
         /\ r.tomb # NoTombstone => Watched(r) = Watched(q)
BY NoneIsApart DEF RegistryShape, MayWrite

(* A step of a call moves that call alone.                                   *)
LEMMA CallMoves ==
  ASSUME CallShapes, NEW w \in Caller,
         pc' = [pc EXCEPT ![w] = pc'[w]], loc' = [loc EXCEPT ![w] = loc'[w]],
         LocShape(loc'[w]),
         pc'[w] \in {"reserve", "tree", "undo", "prefail"} => loc'[w].op \in Nat
  PROVE  CallShapes' /\ \A v \in Caller \ {w} : pc'[v] = pc[v] /\ loc'[v] = loc[v]
<1>1. \A v \in Caller \ {w} : pc'[v] = pc[v] /\ loc'[v] = loc[v]
  BY DEF CallShapes
<1>2. pc' = [v \in Caller |-> pc'[v]] /\ loc' = [v \in Caller |-> loc'[v]]
  BY DEF CallShapes
<1> QED BY <1>1, <1>2 DEF CallShapes

LEMMA CallStops ==
  ASSUME CallShapes, NEW w \in Caller, Stop(w)
  PROVE  /\ CallShapes' /\ pc'[w] = "idle" /\ loc'[w] = NoLoc /\ NoLoc.try = 0
         /\ \A v \in Caller \ {w} : pc'[v] = pc[v] /\ loc'[v] = loc[v]
<1>1. LocShape(NoLoc) /\ NoLoc.try = 0
  BY DEF LocShape, NoLoc, Ready, Resumable
<1>2. pc'[w] = "idle" /\ loc'[w] = NoLoc
  BY DEF CallShapes, Stop, Goto
<1>3. pc' = [pc EXCEPT ![w] = pc'[w]] /\ loc' = [loc EXCEPT ![w] = loc'[w]]
  BY <1>2 DEF Stop, Goto
<1> QED BY <1>1, <1>2, <1>3, CallMoves

LEMMA BeginKeeps ==
  ASSUME CleanupInv, NEW w \in Caller, NEW c \in Command, Begin(w, c) PROVE CleanupInv'
<1>1. RegistryShape(reg)'
  BY DEF CleanupInv, Shapes, Begin, Goto, files
<1>2. EntryShape(entry)'
  BY DEF CleanupInv, Shapes, Begin, Goto, files, EntryShape
<1>3. CallShapes'
  <2>1. /\ pc' = [pc EXCEPT ![w] = pc'[w]]
        /\ pc'[w] \in {"complete", "inspect"}
    BY DEF CleanupInv, Shapes, CallShapes, Begin, Goto
  <2>2. LocShape(loc[w])
    BY DEF CleanupInv, Shapes, CallShapes
  <2>3. loc'[w] = [cmd |-> c, was |-> entry, base |-> loc[w].base, id |-> loc[w].id,
                   head |-> loc[w].head, resumed |-> loc[w].resumed, op |-> loc[w].op,
                   run |-> loc[w].run, try |-> tries + 1, late |-> loc[w].late, got |-> loc[w].got]
    BY <2>2 DEF CleanupInv, Shapes, CallShapes, Begin, LocShape
  <2>4. LocShape(loc'[w])
    BY <2>3 DEF CleanupInv, Shapes, Bounds, EntryShape, LocShape, Resumable
  <2>5. /\ loc' = [v \in Caller |-> loc'[v]]
        /\ \A v \in Caller \ {w} : loc'[v] = loc[v]
    BY DEF CleanupInv, Shapes, CallShapes, Begin
  <2>6. /\ pc' = [v \in Caller |-> pc'[v]]
        /\ \A v \in Caller \ {w} : pc'[v] = pc[v]
    BY <2>1 DEF CleanupInv, Shapes, CallShapes
  <2> QED BY <2>1, <2>4, <2>5, <2>6 DEF CleanupInv, Shapes, CallShapes
<1>4. Bounds'
  BY CleanupAssumption DEF CleanupInv, Shapes, Begin, Goto, files, Bounds
<1>5. Attempts'
  BY DEF CleanupInv, Shapes, Begin, Goto, files, CallShapes, LocShape, Bounds,
    RegistryShape, Attempts, Apart
<1>6. Taking'
  BY DEF CleanupInv, Shapes, Begin, Goto, files, CallShapes, Taking, Held, Irreversible
<1>7. Removing'
  BY DEF CleanupInv, Shapes, Begin, Goto, files, CallShapes, Removing, OneRemover, Held,
    Irreversible, Owns
<1>8. StillQuiet'
  BY DEF CleanupInv, Shapes, Begin, Goto, files, CallShapes, StillQuiet, Owns
<1>9. Progress'
  BY DEF CleanupInv, Shapes, Begin, Goto, files, CallShapes, Progress
<1>10. Receipts'
  BY DEF CleanupInv, Begin, files, Receipts, ReceiptIsTrue
<1>11. Sealing'
  BY DEF CleanupInv, Begin, files, Sealing, CleanedIsSealed
<1> QED
  BY <1>1, <1>2, <1>3, <1>4, <1>5, <1>6, <1>7, <1>8, <1>9, <1>10, <1>11 DEF CleanupInv, Shapes

(* What an inspection that goes on to the reservations leaves in its call.    *)
LEMMA InspectReserves ==
  ASSUME CleanupInv, NEW w \in Caller, Inspect(w)
  PROVE  \/ pc' = [pc EXCEPT ![w] = "complete"] /\ loc' = loc /\ entry.state = "cleaned"
         \/ Stop(w)
         \/ /\ pc' = [pc EXCEPT ![w] = "reserve"]
            /\ loc' = [loc EXCEPT ![w] = loc'[w]]
            /\ LocShape(loc'[w]) /\ loc'[w].op \in Nat /\ loc'[w].try = loc[w].try
<1> DEFINE l == loc[w]
           resumed == Resumable(l.was) /\ l.was.cmd = l.cmd
           h == IF head # None THEN head ELSE IF resumed THEN l.was.head ELSE None
           id == IF l.was.op # None THEN l.was.snap ELSE Snapshot(reg)
           op == IF resumed THEN l.was.op ELSE IF Orphan(w, id, h) THEN reg.res.op ELSE l.try
<1>1. CASE Goto(w, "complete") /\ loc' = loc /\ entry.state = "cleaned"
  BY <1>1 DEF Goto
<1>2. CASE Stop(w)
  BY <1>2
<1>3. CASE /\ Goto(w, "reserve")
           /\ loc' = [loc EXCEPT ![w].base = Snapshot(reg), ![w].id = id, ![w].head = h,
                        ![w].resumed = resumed, ![w].op = op]
  <2>1. LocShape(l) /\ loc = [v \in Caller |-> loc[v]]
    BY DEF CleanupInv, Shapes, CallShapes
  <2>2. op \in Nat
    <3>1. l.try \in Nat /\ (Resumable(l.was) => l.was.op \in Nat)
      BY <2>1 DEF LocShape
    <3>2. reg.res # NoReservation => reg.res.op \in Nat
      BY DEF CleanupInv, Shapes, RegistryShape
    <3> QED BY <3>1, <3>2 DEF Orphan
  <2> HIDE DEF resumed, h, id, op
  <2>3. PICK b : b = resumed
    OBVIOUS
  <2>4. loc' = [loc EXCEPT ![w].base = Snapshot(reg), ![w].id = id, ![w].head = h,
                  ![w].resumed = b, ![w].op = op]
    BY <1>3, <2>3
  <2>5. loc'[w] = [cmd |-> l.cmd, was |-> l.was, base |-> Snapshot(reg), id |-> id, head |-> h,
                   resumed |-> b, op |-> op, run |-> l.run, try |-> l.try,
                   late |-> l.late, got |-> l.got]
    BY <2>1, <2>4 DEF LocShape
  <2>6. loc' = [loc EXCEPT ![w] = loc'[w]]
    BY <2>1, <2>4
  <2>7. LocShape(loc'[w]) /\ loc'[w].op \in Nat /\ loc'[w].try = loc[w].try
    BY <2>1, <2>2, <2>5 DEF LocShape
  <2> QED BY <1>3, <2>6, <2>7 DEF Goto
<1> QED BY <1>1, <1>2, <1>3 DEF Inspect

LEMMA InspectKeeps ==
  ASSUME CleanupInv, NEW w \in Caller, Inspect(w) PROVE CleanupInv'
<1>1. RegistryShape(reg)'
  BY DEF CleanupInv, Shapes, Inspect, Goto, files
<1>2. EntryShape(entry)'
  BY DEF CleanupInv, Shapes, Inspect, Goto, files, Resumable, Stop, NoLoc, Ready, EntryShape
<1>3. CallShapes'
  <2>1. CallShapes
    BY DEF CleanupInv, Shapes
  <2>2. CASE pc' = [pc EXCEPT ![w] = "complete"] /\ loc' = loc
    BY <2>1, <2>2 DEF CallShapes
  <2>3. CASE Stop(w)
    BY <2>1, <2>3, CallStops
  <2>4. CASE /\ pc' = [pc EXCEPT ![w] = "reserve"]
             /\ loc' = [loc EXCEPT ![w] = loc'[w]]
             /\ LocShape(loc'[w]) /\ loc'[w].op \in Nat
    <3>1. pc' = [pc EXCEPT ![w] = pc'[w]]
      BY <2>1, <2>4 DEF CallShapes
    <3> QED BY <2>1, <2>4, <3>1, CallMoves
  <2> QED BY <2>2, <2>3, <2>4, InspectReserves
<1>4. Bounds'
  BY DEF CleanupInv, Shapes, Inspect, Goto, files, Bounds
<1>5. Attempts'
  <2>1. CallShapes /\ pc[w] = "inspect" /\ \A v \in Caller : LocShape(loc[v])
    BY DEF CleanupInv, Shapes, CallShapes, Inspect
  <2>2. /\ \A v \in Caller \ {w} : pc'[v] = pc[v] /\ loc'[v] = loc[v]
        /\ \/ pc'[w] # "idle" /\ loc'[w].try = loc[w].try
           \/ pc'[w] = "idle" /\ loc'[w].try = 0
    BY <2>1, InspectReserves, CallStops DEF CallShapes
  <2> QED
    BY <2>1, <2>2 DEF CleanupInv, Shapes, Bounds, Inspect, files, Attempts, Apart
<1>6. Taking'
  BY DEF CleanupInv, Shapes, Inspect, Goto, files, Stop, CallShapes, Taking, Held,
    Irreversible
<1>7. Removing'
  BY DEF CleanupInv, Shapes, Inspect, Goto, files, Stop, CallShapes, Removing, OneRemover,
    Held, Irreversible, Owns
<1>8. StillQuiet'
  BY DEF CleanupInv, Shapes, Inspect, Goto, files, Resumable, Stop, CallShapes, LocShape,
    StillQuiet, Owns
<1>9. Progress'
  BY DEF CleanupInv, Shapes, Inspect, Goto, files, Stop, CallShapes, Progress
<1>10. Receipts'
  BY DEF CleanupInv, Inspect, Goto, files, Receipts, ReceiptIsTrue
<1>11. Sealing'
  BY DEF CleanupInv, Inspect, Goto, files, Resumable, Stop, NoLoc, Ready, Sealing,
    CleanedIsSealed
<1> QED
  BY <1>1, <1>2, <1>3, <1>4, <1>5, <1>6, <1>7, <1>8, <1>9, <1>10, <1>11 DEF CleanupInv, Shapes

(* A taken entry has its taker's command, and the operation it had if it was  *)
(* taken before.                                                             *)
LEMMA TreeIsTaken ==
  ASSUME EntryShape(entry), NEW w \in Caller, LocShape(loc[w]), loc[w].op \in Nat,
         NEW state \in {"cleaning", "failed"}, entry.state # "cleaned", ~Busy(w)
  PROVE  /\ EntryShape(Taken(w, state))
         /\ Taken(w, state).state = state /\ Taken(w, state).cmd = loc[w].cmd
         /\ entry.state # "ready" =>
              Taken(w, state).op = entry.op /\ Taken(w, state).cmd = entry.cmd
<1> DEFINE e == Taken(w, state)
           op == IF Resumable(entry) THEN entry.op ELSE loc[w].op
<1>1. e = [state |-> state, op |-> op, try |-> loc[w].try, owner |-> w, cmd |-> loc[w].cmd,
           snap |-> loc[w].id, head |-> loc[w].head, receipt |-> entry.receipt]
  <2>1. e = [entry EXCEPT !.state = state, !.op = op, !.try = loc[w].try, !.owner = w,
                          !.cmd = loc[w].cmd, !.snap = loc[w].id, !.head = loc[w].head]
    BY DEF EntryShape, Taken
  <2> HIDE DEF e, op
  <2> QED BY <2>1 DEF EntryShape
<1>2. op \in Nat /\ (entry.state # "ready" => op = entry.op)
  BY DEF EntryShape, Resumable
<1>3. entry.state # "ready" => loc[w].cmd = entry.cmd
  BY DEF EntryShape, Busy, Resumable
<1> HIDE DEF e, op
<1> QED BY <1>1, <1>2, <1>3 DEF EntryShape, e

LEMMA TreeIsReserved ==
  ASSUME CleanupInv, NEW w \in Caller, ReserveTree(w)
  PROVE  /\ pc[w] = "tree" /\ UNCHANGED <<reg, path, dirty, head, receipts, tries, faults, events>>
         /\ CallShapes' /\ EntryShape(entry)'
         /\ \A v \in Caller \ {w} : pc'[v] = pc[v] /\ loc'[v] = loc[v]
         /\ loc'[w].try = loc[w].try /\ loc'[w].cmd = loc[w].cmd
         /\ \/ pc'[w] = "undo" /\ UNCHANGED entry
            \/ /\ pc'[w] = "ready" /\ entry.state # "cleaned" /\ entry'.state = "cleaning"
               /\ loc'[w].run = entry'.op /\ loc'[w].cmd = entry'.cmd
               /\ entry.state # "ready" => entry'.op = entry.op /\ entry'.cmd = entry.cmd
<1>1. CallShapes /\ EntryShape(entry) /\ LocShape(loc[w]) /\ pc[w] = "tree" /\ loc[w].op \in Nat
  BY DEF CleanupInv, Shapes, CallShapes, ReserveTree
<1>2. CASE Goto(w, "undo") /\ UNCHANGED <<entry, loc>>
  <2>1. /\ pc' = [pc EXCEPT ![w] = pc'[w]] /\ pc'[w] = "undo"
        /\ loc' = [loc EXCEPT ![w] = loc'[w]] /\ loc'[w] = loc[w]
    BY <1>1, <1>2 DEF CallShapes, Goto
  <2> QED BY <1>1, <1>2, <2>1, CallMoves DEF ReserveTree
<1>3. CASE /\ ~(entry.state = "cleaned" \/ Busy(w)) /\ entry' = Taken(w, "cleaning")
           /\ loc' = [loc EXCEPT ![w].run = entry'.op] /\ Goto(w, "ready")
  <2>1. /\ EntryShape(entry)' /\ entry'.state = "cleaning" /\ entry'.cmd = loc[w].cmd
        /\ entry.state # "ready" => entry'.op = entry.op /\ entry'.cmd = entry.cmd
    BY <1>1, <1>3, TreeIsTaken
  <2>2. loc'[w] = [cmd |-> loc[w].cmd, was |-> loc[w].was, base |-> loc[w].base, id |-> loc[w].id,
                   head |-> loc[w].head, resumed |-> loc[w].resumed, op |-> loc[w].op,
                   run |-> entry'.op, try |-> loc[w].try, late |-> loc[w].late, got |-> loc[w].got]
    BY <1>1, <1>3 DEF CallShapes, LocShape
  <2>3. /\ pc' = [pc EXCEPT ![w] = pc'[w]] /\ pc'[w] = "ready"
        /\ loc' = [loc EXCEPT ![w] = loc'[w]]
    BY <1>1, <1>3 DEF CallShapes, Goto
  <2>4. LocShape(loc'[w])
    BY <1>1, <2>2 DEF LocShape
  <2>5. /\ CallShapes' /\ \A v \in Caller \ {w} : pc'[v] = pc[v] /\ loc'[v] = loc[v]
        /\ loc'[w].try = loc[w].try /\ loc'[w].cmd = loc[w].cmd /\ loc'[w].run = entry'.op
    BY <1>1, <2>2, <2>3, <2>4, CallMoves
  <2> QED BY <1>1, <1>3, <2>1, <2>3, <2>5 DEF ReserveTree
<1> QED BY <1>2, <1>3 DEF ReserveTree

LEMMA ReserveTreeKeeps ==
  ASSUME CleanupInv, NEW w \in Caller, ReserveTree(w) PROVE CleanupInv'
<1> USE TreeIsReserved
<1>1. Shapes'
  BY DEF CleanupInv, Shapes, Bounds
<1>2. Attempts'
  BY DEF CleanupInv, Attempts, Apart
<1>3. Taking'
  BY DEF CleanupInv, Taking, Held, Irreversible
<1>4. Removing'
  BY DEF CleanupInv, Removing, OneRemover, Owns, Held, Irreversible
<1>5. StillQuiet'
  <2>1. /\ reg' = reg /\ path' = path
        /\ \A v \in Caller : pc'[v] \in {"remove", "git"} => pc'[v] = pc[v] /\ loc'[v] = loc[v]
    OBVIOUS
  <2> QED BY <2>1 DEF CleanupInv, StillQuiet, Owns, ActiveIn
<1>6. Progress'
  BY DEF CleanupInv, Progress, Taking, Held, Irreversible
<1>7. Receipts'
  BY DEF CleanupInv, Receipts, ReceiptIsTrue
<1>8. Sealing'
  BY DEF CleanupInv, Sealing, CleanedIsSealed, Matches
<1> QED BY <1>1, <1>2, <1>3, <1>4, <1>5, <1>6, <1>7, <1>8 DEF CleanupInv

LEMMA PreFailKeeps ==
  ASSUME CleanupInv, NEW w \in Caller, PreFail(w) PROVE CleanupInv'
<1>1. RegistryShape(reg)'
  BY DEF CleanupInv, Shapes, PreFail
<1>2. EntryShape(entry)'
  <2>1. /\ EntryShape(entry) /\ LocShape(loc[w]) /\ loc[w].op \in Nat
    BY DEF CleanupInv, Shapes, CallShapes, PreFail
  <2> DEFINE e == Taken(w, "failed")
  <2>2. CASE entry' = entry
    BY <2>1, <2>2
  <2>3. CASE ~(entry.state = "cleaned" \/ Busy(w)) /\ entry' = [e EXCEPT !.try = entry.try]
    <3>1. EntryShape(e)
      BY <2>1, <2>3, TreeIsTaken
    <3> HIDE DEF e
    <3>2. entry' = [state |-> e.state, op |-> e.op, try |-> entry.try, owner |-> e.owner,
                    cmd |-> e.cmd, snap |-> e.snap, head |-> e.head, receipt |-> e.receipt]
      BY <2>3, <3>1 DEF EntryShape
    <3> QED BY <3>1, <3>2 DEF EntryShape
  <2> QED BY <2>2, <2>3 DEF PreFail
<1>3. CallShapes'
  BY DEF CleanupInv, Shapes, PreFail, Goto, Taken, Busy, Resumable, Stop, NoLoc, Ready,
    CallShapes, LocShape, EntryShape
<1>4. Bounds'
  BY DEF CleanupInv, Shapes, PreFail, Bounds
<1>5. Attempts'
  BY DEF CleanupInv, Shapes, PreFail, Goto, Stop, NoLoc, CallShapes, Bounds, Attempts, Apart
<1>6. Taking'
  BY DEF CleanupInv, Shapes, PreFail, Goto, Taken, Busy, Resumable, Stop, EntryShape,
    Taking, Held, Irreversible
<1>7. Removing'
  BY DEF CleanupInv, PreFail, Goto, Taken, Stop, Removing, OneRemover, Held, Irreversible,
    Owns
<1>8. StillQuiet'
  BY DEF CleanupInv, PreFail, Goto, Stop, StillQuiet, Owns
<1>9. Progress'
  BY DEF CleanupInv, Shapes, PreFail, Goto, Taken, Resumable, Stop, EntryShape, Progress,
    Taking, Held, Irreversible
<1>10. Receipts'
  BY DEF CleanupInv, Shapes, PreFail, Taken, Busy, Resumable, EntryShape, Receipts,
    ReceiptIsTrue
<1>11. Sealing'
  BY DEF CleanupInv, PreFail, Taken, Sealing, CleanedIsSealed
<1> QED
  BY <1>1, <1>2, <1>3, <1>4, <1>5, <1>6, <1>7, <1>8, <1>9, <1>10, <1>11 DEF CleanupInv, Shapes

LEMMA RevalidateKeeps ==
  ASSUME CleanupInv, NEW w \in Caller, Revalidate(w) PROVE CleanupInv'
<1>1. RegistryShape(reg)'
  BY DEF CleanupInv, Shapes, Revalidate, files
<1>2. EntryShape(entry)'
  BY DEF CleanupInv, Shapes, Revalidate, files
<1>3. CallShapes'
  BY DEF CleanupInv, Shapes, Revalidate, Goto, CallShapes
<1>4. Bounds'
  BY DEF CleanupInv, Shapes, Revalidate, files, Bounds
<1>5. Attempts'
  BY DEF CleanupInv, Revalidate, Goto, files, Attempts, Apart
<1>6. Taking'
  BY DEF CleanupInv, Revalidate, Goto, files, Taking, Held
<1>7. Removing'
  BY DEF CleanupInv, Shapes, Revalidate, Goto, files, Removing, OneRemover, Held,
    Irreversible, Owns
<1>8. StillQuiet'
  <2>1. /\ UNCHANGED <<reg, path, loc>> /\ pc' = [pc EXCEPT ![w] = pc'[w]]
        /\ pc'[w] # "git" /\ (pc'[w] = "remove" => Inspected)
    BY DEF CleanupInv, Shapes, CallShapes, Revalidate, Goto, files, Unchanged
  <2>2. Inspected /\ path => reg.live = {} /\ \A s \in ActiveIn(reg) : ~reg.ctx[s].delivery
    BY DEF Inspected
  <2> QED
    BY <2>1, <2>2 DEF CleanupInv, Shapes, CallShapes, StillQuiet, Owns
<1>9. Progress'
  BY DEF CleanupInv, Revalidate, Goto, files, Progress
<1>10. Receipts'
  BY DEF CleanupInv, Revalidate, files, Receipts, ReceiptIsTrue
<1>11. Sealing'
  BY DEF CleanupInv, Revalidate, files, Sealing, CleanedIsSealed
<1> QED
  BY <1>1, <1>2, <1>3, <1>4, <1>5, <1>6, <1>7, <1>8, <1>9, <1>10, <1>11 DEF CleanupInv, Shapes

LEMMA RemovePathKeeps ==
  ASSUME CleanupInv, NEW w \in Caller, RemovePath(w) PROVE CleanupInv'
<1>1. RegistryShape(reg)'
  BY DEF CleanupInv, Shapes, RemovePath, Goto
<1>2. EntryShape(entry)'
  BY DEF CleanupInv, Shapes, RemovePath
<1>3. CallShapes'
  BY DEF CleanupInv, Shapes, RemovePath, Goto, CallShapes
<1>4. Bounds'
  BY DEF CleanupInv, Shapes, RemovePath, Bounds
<1>5. Attempts'
  <2>1. /\ UNCHANGED <<reg, entry, loc, tries>> /\ pc[w] = "git"
        /\ pc' = [pc EXCEPT ![w] = pc'[w]] /\ pc'[w] \in {"fail", "after"}
    BY DEF CleanupInv, Shapes, CallShapes, RemovePath, Goto
  <2> QED BY <2>1 DEF CleanupInv, Shapes, CallShapes, Attempts, Apart
<1>6. Taking'
  BY DEF CleanupInv, Shapes, RemovePath, Goto, CallShapes, Taking, Held, Irreversible
<1>7. Removing'
  BY DEF CleanupInv, Shapes, RemovePath, Goto, CallShapes, Removing, OneRemover, Held,
    Irreversible, Owns
<1>8. StillQuiet'
  BY DEF CleanupInv, Shapes, RemovePath, Goto, CallShapes, StillQuiet, Owns
<1>9. Progress'
  BY DEF CleanupInv, Shapes, RemovePath, Goto, CallShapes, Progress
<1>10. Receipts'
  BY DEF CleanupInv, RemovePath, Receipts, ReceiptIsTrue
<1>11. Sealing'
  BY DEF CleanupInv, RemovePath, Sealing, CleanedIsSealed
<1> QED
  BY <1>1, <1>2, <1>3, <1>4, <1>5, <1>6, <1>7, <1>8, <1>9, <1>10, <1>11 DEF CleanupInv, Shapes

LEMMA RecheckKeeps ==
  ASSUME CleanupInv, NEW w \in Caller, Recheck(w) PROVE CleanupInv'
<1>1. RegistryShape(reg)'
  BY DEF CleanupInv, Shapes, Recheck, files
<1>2. EntryShape(entry)'
  BY DEF CleanupInv, Shapes, Recheck, files
<1>3. CallShapes'
  BY DEF CleanupInv, Shapes, Recheck, Goto, CallShapes
<1>4. Bounds'
  BY DEF CleanupInv, Shapes, Recheck, files, Bounds
<1>5. Attempts'
  BY DEF CleanupInv, Recheck, Goto, files, Attempts, Apart
<1>6. Taking'
  BY DEF CleanupInv, Recheck, Goto, files, Taking, Held, Irreversible
<1>7. Removing'
  BY DEF CleanupInv, Recheck, Goto, files, Removing, OneRemover, Held, Irreversible, Owns
<1>8. StillQuiet'
  BY DEF CleanupInv, Recheck, Goto, files, StillQuiet, Owns
<1>9. Progress'
  BY DEF CleanupInv, Recheck, Goto, files, Progress
<1>10. Receipts'
  BY DEF CleanupInv, Recheck, files, Receipts, ReceiptIsTrue
<1>11. Sealing'
  BY DEF CleanupInv, Recheck, files, Sealing, CleanedIsSealed
<1> QED
  BY <1>1, <1>2, <1>3, <1>4, <1>5, <1>6, <1>7, <1>8, <1>9, <1>10, <1>11 DEF CleanupInv, Shapes

LEMMA DeleteBranchKeeps ==
  ASSUME CleanupInv, NEW w \in Caller, DeleteBranch(w) PROVE CleanupInv'
<1>1. RegistryShape(reg)'
  BY DEF CleanupInv, Shapes, DeleteBranch, Goto
<1>2. EntryShape(entry)'
  BY DEF CleanupInv, Shapes, DeleteBranch
<1>3. CallShapes'
  BY DEF CleanupInv, Shapes, DeleteBranch, Goto, CallShapes
<1>4. Bounds'
  BY DEF CleanupInv, Shapes, DeleteBranch, Bounds
<1>5. Attempts'
  <2>1. /\ UNCHANGED <<reg, entry, loc, tries>> /\ pc[w] = "close"
        /\ pc' = [pc EXCEPT ![w] = pc'[w]] /\ pc'[w] \in {"fail", "append"}
    BY DEF CleanupInv, Shapes, CallShapes, DeleteBranch, Goto
  <2> QED BY <2>1 DEF CleanupInv, Shapes, CallShapes, Attempts, Apart
<1>6. Taking'
  BY DEF CleanupInv, Shapes, DeleteBranch, Goto, CallShapes, Taking, Held, Irreversible
<1>7. Removing'
  BY DEF CleanupInv, Shapes, DeleteBranch, Goto, CallShapes, Removing, OneRemover, Held,
    Irreversible, Owns
<1>8. StillQuiet'
  BY DEF CleanupInv, Shapes, DeleteBranch, Goto, CallShapes, StillQuiet, Owns
<1>9. Progress'
  BY DEF CleanupInv, Shapes, DeleteBranch, Goto, CallShapes, Progress
<1>10. Receipts'
  BY DEF CleanupInv, DeleteBranch, Receipts, ReceiptIsTrue
<1>11. Sealing'
  BY DEF CleanupInv, DeleteBranch, Sealing, CleanedIsSealed
<1> QED
  BY <1>1, <1>2, <1>3, <1>4, <1>5, <1>6, <1>7, <1>8, <1>9, <1>10, <1>11 DEF CleanupInv, Shapes

(* All receipts are of the operation that appends: it takes the one there is. *)
LEMMA ReceiptIsFound ==
  ASSUME CleanupInv, NEW w \in Caller, AppendReceipt(w)
  PROVE  /\ UNCHANGED <<reg, entry, path, dirty, head, tries, faults, events>>
         /\ pc[w] = "append" /\ CallShapes'
         /\ \A v \in Caller \ {w} : pc'[v] = pc[v] /\ loc'[v] = loc[v]
         /\ loc'[w].run = loc[w].run /\ loc'[w].try = loc[w].try /\ loc'[w].cmd = loc[w].cmd
         /\ pc'[w] \in {"fail", "terminal"}
         /\ pc'[w] = "terminal" => loc'[w].got \in receipts'
         /\ receipts \subseteq receipts'
         /\ \A r \in receipts' : receipts' = {r} /\ r.op = entry.op /\ r.cmd = entry.cmd
<1> DEFINE same == {r \in receipts : Subject(r) = Subject(Draft(w))}
           r == IF OfOperation(w) # {} THEN CHOOSE x \in OfOperation(w) : TRUE ELSE Draft(w)
<1>1. /\ CallShapes /\ LocShape(loc[w]) /\ pc[w] = "append"
      /\ entry.state # "ready" /\ loc[w].run = entry.op /\ loc[w].cmd = entry.cmd
  BY DEF CleanupInv, Shapes, CallShapes, AppendReceipt, Taking, Held, Irreversible
<1>2. \A x \in receipts : receipts = {x} /\ x.op = entry.op /\ x.cmd = entry.cmd
  BY DEF CleanupInv, Receipts, ReceiptIsTrue
<1>3. OfOperation(w) = receipts
  BY <1>1, <1>2 DEF OfOperation
<1>4. /\ r.op = entry.op /\ r.cmd = entry.cmd /\ receipts \union {r} = {r}
  <2>1. CASE receipts = {}
    BY <1>1, <1>3, <2>1 DEF Draft
  <2>2. CASE receipts # {}
    BY <1>2, <1>3, <2>2
  <2> QED BY <2>1, <2>2
<1>5. CASE Goto(w, "fail") /\ UNCHANGED <<receipts, loc>>
  <2>1. /\ pc' = [pc EXCEPT ![w] = pc'[w]] /\ pc'[w] = "fail"
        /\ loc' = [loc EXCEPT ![w] = loc'[w]] /\ loc'[w] = loc[w]
    BY <1>1, <1>5 DEF CallShapes, Goto
  <2>2. CallShapes' /\ \A v \in Caller \ {w} : pc'[v] = pc[v] /\ loc'[v] = loc[v]
    BY <1>1, <2>1, CallMoves
  <2> QED BY <1>1, <1>2, <1>5, <2>1, <2>2 DEF AppendReceipt
<1>6. CASE /\ receipts' = receipts \union {r} /\ loc' = [loc EXCEPT ![w].got = r]
           /\ Goto(w, IF Matches(r, entry) THEN "terminal" ELSE "fail")
  <2> HIDE DEF r
  <2>1. loc'[w] = [cmd |-> loc[w].cmd, was |-> loc[w].was, base |-> loc[w].base, id |-> loc[w].id,
                   head |-> loc[w].head, resumed |-> loc[w].resumed, op |-> loc[w].op,
                   run |-> loc[w].run, try |-> loc[w].try, late |-> loc[w].late, got |-> r]
    BY <1>1, <1>6 DEF CallShapes, LocShape
  <2>2. /\ pc' = [pc EXCEPT ![w] = pc'[w]] /\ pc'[w] \in {"fail", "terminal"}
        /\ loc' = [loc EXCEPT ![w] = loc'[w]]
    BY <1>1, <1>6 DEF CallShapes, Goto
  <2>3. LocShape(loc'[w])
    BY <1>1, <2>1 DEF LocShape
  <2>4. CallShapes' /\ \A v \in Caller \ {w} : pc'[v] = pc[v] /\ loc'[v] = loc[v]
    BY <1>1, <2>2, <2>3, CallMoves
  <2>5. /\ \A x \in receipts' : x = r /\ receipts' = {x}
        /\ loc'[w].got \in receipts' /\ receipts \subseteq receipts'
    BY <1>4, <1>6, <2>1
  <2>6. UNCHANGED <<reg, entry, path, dirty, head, tries, faults, events>>
    BY DEF AppendReceipt
  <2> QED BY <1>1, <1>4, <2>1, <2>2, <2>4, <2>5, <2>6
<1> QED BY <1>5, <1>6 DEF AppendReceipt

LEMMA AppendReceiptKeeps ==
  ASSUME CleanupInv, NEW w \in Caller, AppendReceipt(w) PROVE CleanupInv'
<1> USE ReceiptIsFound
<1>1. Shapes'
  BY DEF CleanupInv, Shapes, Bounds
<1>2. Attempts'
  BY DEF CleanupInv, Attempts, Apart
<1>3. Taking'
  BY DEF CleanupInv, Taking, Held, Irreversible
<1>4. Removing'
  BY DEF CleanupInv, Removing, OneRemover, Owns, Held, Irreversible
<1>5. StillQuiet'
  <2>1. /\ reg' = reg /\ path' = path
        /\ \A v \in Caller : pc'[v] \in {"remove", "git"} => pc'[v] = pc[v] /\ loc'[v] = loc[v]
    OBVIOUS
  <2> QED BY <2>1 DEF CleanupInv, StillQuiet, Owns, ActiveIn
<1>6. Progress'
  BY DEF CleanupInv, Progress
<1>7. Receipts'
  BY DEF CleanupInv, Receipts, ReceiptIsTrue, Progress, Taking, Held, Irreversible
<1>8. Sealing'
  BY DEF CleanupInv, Sealing, CleanedIsSealed
<1> QED BY <1>1, <1>2, <1>3, <1>4, <1>5, <1>6, <1>7, <1>8 DEF CleanupInv

LEMMA FinalizeKeeps ==
  ASSUME CleanupInv, NEW w \in Caller, Finalize(w) PROVE CleanupInv'
<1>1. RegistryShape(reg)'
  BY DEF CleanupInv, Shapes, Finalize
<1>2. EntryShape(entry)'
  BY DEF CleanupInv, Shapes, Finalize, EntryShape
<1>3. CallShapes'
  BY DEF CleanupInv, Shapes, Finalize, Goto, CallShapes
<1>4. Bounds'
  BY DEF CleanupInv, Shapes, Finalize, Bounds
<1>5. Attempts'
  <2>1. /\ UNCHANGED <<reg, loc, tries>> /\ pc[w] = "finalize"
        /\ pc' = [pc EXCEPT ![w] = pc'[w]]
        /\ \/ pc'[w] = "fail" /\ UNCHANGED entry
           \/ pc'[w] = "release" /\ entry.state = "cleaning" /\ entry'.state = "cleaned"
    BY DEF CleanupInv, Shapes, CallShapes, EntryShape, Finalize, Goto
  <2> QED BY <2>1 DEF CleanupInv, Shapes, CallShapes, Attempts, Apart
<1>6. Taking'
  <2>1. /\ UNCHANGED loc /\ pc' = [pc EXCEPT ![w] = pc'[w]]
        /\ \/ pc'[w] = "fail" /\ UNCHANGED entry
           \/ /\ pc'[w] = "release" /\ entry.state = "cleaning" /\ entry'.state = "cleaned"
              /\ entry'.op = entry.op /\ entry'.cmd = entry.cmd
    BY DEF CleanupInv, Shapes, CallShapes, EntryShape, Finalize, Goto
  <2> QED BY <2>1 DEF CleanupInv, Shapes, CallShapes, Taking, Held, Irreversible
<1>7. Removing'
  <2>1. /\ UNCHANGED <<reg, loc>> /\ pc[w] = "finalize" /\ entry.state # "cleaned"
        /\ pc'[w] \in {"fail", "release"} /\ \A v \in Caller \ {w} : pc'[v] = pc[v]
    <3>1. UNCHANGED <<reg, loc>> /\ pc[w] = "finalize"
      BY DEF Finalize
    <3>2. entry.state # "cleaned"
      BY <3>1 DEF CleanupInv, Removing, OneRemover, Held, Irreversible
    <3> QED BY <3>1, <3>2 DEF CleanupInv, Shapes, CallShapes, Finalize, Goto
  <2>2. Owns(w)
    BY <2>1 DEF CleanupInv, Removing, OneRemover, Irreversible
  <2>3. \A v \in Caller \ {w} : pc[v] \in Held => loc[v].try # loc[w].try
    BY <2>1 DEF CleanupInv, Attempts, Apart, Held, Irreversible
  <2>4. \A v \in Caller : pc'[v] \in Held => ~Owns(v)
    BY <2>1, <2>2, <2>3 DEF Owns, Held, Irreversible
  <2> QED BY <2>1, <2>4 DEF CleanupInv, Removing, OneRemover, Owns, Irreversible
<1>8. StillQuiet'
  BY DEF CleanupInv, Shapes, Finalize, Goto, CallShapes, StillQuiet, Owns
<1>9. Progress'
  BY DEF CleanupInv, Shapes, Finalize, Goto, Matches, CallShapes, LocShape, EntryShape,
    Progress, Taking, Held, Irreversible
<1>10. Receipts'
  BY DEF CleanupInv, Shapes, Finalize, EntryShape, Receipts, ReceiptIsTrue
<1>11. Sealing'
  <2>1. CASE UNCHANGED <<reg, entry, receipts>>
    BY <2>1 DEF CleanupInv, Sealing, CleanedIsSealed
  <2>2. CASE entry' = [entry EXCEPT !.state = "cleaned", !.receipt = loc[w].got]
    <3>1. /\ UNCHANGED <<reg, receipts>> /\ pc[w] = "finalize"
          /\ Matches(loc[w].got, entry) \/ entry' = entry
      BY DEF Finalize
    <3>2. /\ reg.tomb # NoTombstone /\ reg.tomb.op = entry.op /\ loc[w].got \in receipts
          /\ ActiveIn(reg) = {}
      BY DEF Finalize, CleanupInv, Progress, Sealing
    <3>3. /\ entry'.receipt = loc[w].got /\ entry'.op = entry.op /\ entry'.cmd = entry.cmd
          /\ entry'.snap = entry.snap /\ entry'.head = entry.head
      BY <2>2 DEF CleanupInv, Shapes, EntryShape
    <3>4. CASE entry' = entry
      BY <3>2, <3>4 DEF CleanupInv, Sealing, CleanedIsSealed, Finalize
    <3>5. CASE Matches(loc[w].got, entry)
      BY <3>2, <3>3, <3>5 DEF Finalize, Sealing, CleanedIsSealed, Matches
    <3> QED BY <3>1, <3>4, <3>5
  <2> QED BY <2>1, <2>2 DEF Finalize
<1> QED
  BY <1>1, <1>2, <1>3, <1>4, <1>5, <1>6, <1>7, <1>8, <1>9, <1>10, <1>11 DEF CleanupInv, Shapes

LEMMA FailEntryKeeps ==
  ASSUME CleanupInv, NEW w \in Caller, FailEntry(w) PROVE CleanupInv'
<1>1. RegistryShape(reg)'
  BY DEF CleanupInv, Shapes, FailEntry, Goto
<1>2. EntryShape(entry)'
  BY DEF CleanupInv, Shapes, FailEntry, EntryShape
<1>3. CallShapes'
  BY DEF CleanupInv, Shapes, FailEntry, Goto, CallShapes
<1>4. Bounds'
  BY DEF CleanupInv, Shapes, FailEntry, Bounds
<1>5. Attempts'
  BY DEF CleanupInv, FailEntry, Goto, Attempts, Apart
<1>6. Taking'
  BY DEF CleanupInv, FailEntry, Goto, Taking, Held, Irreversible
<1>7. Removing'
  BY DEF CleanupInv, FailEntry, Goto, Removing, OneRemover, Held, Irreversible, Owns
<1>8. StillQuiet'
  BY DEF CleanupInv, FailEntry, Goto, StillQuiet, Owns
<1>9. Progress'
  BY DEF CleanupInv, FailEntry, Goto, Progress
<1>10. Receipts'
  BY DEF CleanupInv, FailEntry, Receipts, ReceiptIsTrue
<1>11. Sealing'
  BY DEF CleanupInv, FailEntry, Sealing, CleanedIsSealed
<1> QED
  BY <1>1, <1>2, <1>3, <1>4, <1>5, <1>6, <1>7, <1>8, <1>9, <1>10, <1>11 DEF CleanupInv, Shapes

LEMMA ThrowKeeps ==
  ASSUME CleanupInv, NEW w \in Caller, Throw(w) PROVE CleanupInv'
<1>1. RegistryShape(reg)'
  BY DEF CleanupInv, Shapes, Throw, files
<1>2. EntryShape(entry)'
  BY DEF CleanupInv, Shapes, Throw, files
<1>3. CallShapes'
  BY DEF CleanupInv, Shapes, Throw, Goto, files, CallShapes
<1>4. Bounds'
  BY CleanupAssumption DEF CleanupInv, Shapes, Throw, files, Bounds
<1>5. Attempts'
  BY DEF CleanupInv, Throw, Goto, Guarded, files, Attempts, Apart
<1>6. Taking'
  BY DEF CleanupInv, Throw, Goto, files, Taking, Held, Irreversible
<1>7. Removing'
  BY DEF CleanupInv, Throw, Goto, files, Removing, OneRemover, Held, Irreversible, Owns
<1>8. StillQuiet'
  BY DEF CleanupInv, Throw, Goto, files, StillQuiet, Owns
<1>9. Progress'
  BY DEF CleanupInv, Throw, Goto, files, Progress
<1>10. Receipts'
  BY DEF CleanupInv, Throw, files, Receipts, ReceiptIsTrue
<1>11. Sealing'
  BY DEF CleanupInv, Throw, files, Sealing, CleanedIsSealed
<1> QED
  BY <1>1, <1>2, <1>3, <1>4, <1>5, <1>6, <1>7, <1>8, <1>9, <1>10, <1>11 DEF CleanupInv, Shapes

(* A call that stops, or waits before its reservation, disturbs nothing.     *)
LEMMA CallsAlone ==
  ASSUME CleanupInv, NEW w \in Caller, CallShapes',
         UNCHANGED <<files, tries, faults, events>>,
         \A v \in Caller \ {w} : pc'[v] = pc[v] /\ loc'[v] = loc[v],
         pc[w] # "idle", pc[w] \notin Apart \/ pc'[w] = "idle",
         \/ pc'[w] = "idle" /\ loc'[w].try = 0
         \/ pc'[w] = "prefail" /\ loc'[w] = loc[w]
  PROVE  CleanupInv'
<1>1. Shapes'
  BY DEF files, CleanupInv, Shapes, Bounds
<1>2. Attempts'
  BY DEF files, CleanupInv, Shapes, Bounds, Attempts, Apart
<1>3. Taking'
  BY DEF files, CleanupInv, Taking, Held, Irreversible
<1>4. Removing'
  BY DEF files, CleanupInv, Removing, OneRemover, Owns, Held, Irreversible
<1>5. StillQuiet'
  <2>1. /\ reg' = reg /\ path' = path
        /\ \A v \in Caller : pc'[v] \in {"remove", "git"} => pc'[v] = pc[v] /\ loc'[v] = loc[v]
    BY DEF files
  <2> QED BY <2>1 DEF CleanupInv, StillQuiet, Owns, ActiveIn
<1>6. Progress' /\ Receipts' /\ Sealing'
  BY DEF files, CleanupInv, Progress, Receipts, ReceiptIsTrue, Sealing, CleanedIsSealed
<1> QED BY <1>1, <1>2, <1>3, <1>4, <1>5, <1>6 DEF CleanupInv

-----------------------------------------------------------------------------
(* The steps that write the registry.                                        *)
LEMMA ReservationIsMade ==
  ASSUME RegistryShape(reg), NEW w \in Caller, loc[w].op \in Nat, loc[w].try \in Nat
  PROVE  LET q == Reserved(w)
         IN  /\ RegistryShape(q) /\ q.ctx = reg.ctx /\ q.tomb = reg.tomb
             /\ q.res # NoReservation /\ q.res.op = loc[w].op /\ q.res.try = loc[w].try
             /\ q.res.owner = w /\ q.res.phase = "reserved"
<1> DEFINE q == Reserved(w)
           live == IF loc[w].resumed /\ ~path THEN {} ELSE reg.live
           res == [op |-> loc[w].op, try |-> loc[w].try, owner |-> w, phase |-> "reserved",
                   cmd |-> loc[w].cmd, snap |-> loc[w].id, head |-> loc[w].head]
<1>1. live \subseteq Session
  BY DEF RegistryShape
<1>2. q = [reg EXCEPT !.live = live, !.res = res]
  BY DEF Reserved, RegistryShape
<1> HIDE DEF q, live
<1>3. q = [ctx |-> reg.ctx, live |-> live, res |-> res, tomb |-> reg.tomb]
  BY <1>2 DEF RegistryShape
<1>4. res # NoReservation
  BY NoneIsApart DEF NoReservation
<1>5. res = [op |-> res.op, try |-> res.try, owner |-> res.owner, phase |-> res.phase,
             cmd |-> res.cmd, snap |-> res.snap, head |-> res.head]
  OBVIOUS
<1>6. q.ctx = reg.ctx /\ q.tomb = reg.tomb /\ q.live = live /\ q.res = res
  BY <1>3
<1>7. RegistryShape(q)
  BY <1>1, <1>3, <1>5, <1>6 DEF RegistryShape
<1> QED BY <1>4, <1>6, <1>7 DEF q

LEMMA ReserveContextsKeeps ==
  ASSUME CleanupInv, NEW w \in Caller, ReserveContexts(w) PROVE CleanupInv'
<1>1. /\ RegistryShape(reg) /\ CallShapes /\ LocShape(loc[w]) /\ loc[w].op \in Nat
      /\ pc[w] = "reserve" /\ UNCHANGED <<entry, path, dirty, head, receipts, tries, faults, events>>
  BY DEF CleanupInv, Shapes, CallShapes, ReserveContexts
<1>2. CASE Stop(w) /\ UNCHANGED reg
  BY <1>1, <1>2, CallStops, CallsAlone DEF files, Apart
<1>3. CASE Goto(w, "prefail") /\ UNCHANGED <<reg, loc>>
  <2>1. /\ pc' = [pc EXCEPT ![w] = pc'[w]] /\ pc'[w] = "prefail"
        /\ loc' = [loc EXCEPT ![w] = loc'[w]] /\ loc'[w] = loc[w]
    BY <1>1, <1>3 DEF CallShapes, Goto
  <2>2. CallShapes' /\ \A v \in Caller \ {w} : pc'[v] = pc[v] /\ loc'[v] = loc[v]
    BY <1>1, <2>1, CallMoves
  <2> QED BY <1>1, <1>3, <2>1, <2>2, CallsAlone DEF files, Apart
<1>4. CASE Free(w) /\ Goto(w, "tree") /\ Write(loc[w].op, Reserved(w)) /\ UNCHANGED loc
  <2>1. /\ CallShapes' /\ \A v \in Caller \ {w} : pc'[v] = pc[v] /\ loc'[v] = loc[v]
        /\ pc'[w] = "tree" /\ loc'[w] = loc[w]
    <3>1. /\ pc' = [pc EXCEPT ![w] = pc'[w]] /\ pc'[w] = "tree"
          /\ loc' = [loc EXCEPT ![w] = loc'[w]] /\ loc'[w] = loc[w]
      BY <1>1, <1>4 DEF CallShapes, Goto
    <3> QED BY <1>1, <3>1, CallMoves
  <2>2. /\ RegistryShape(reg)' /\ reg'.ctx = reg.ctx /\ reg'.tomb = reg.tomb
        /\ reg'.res # NoReservation /\ reg'.res.op = loc[w].op /\ reg'.res.try = loc[w].try
        /\ reg'.res.owner = w /\ reg'.res.phase = "reserved"
    BY <1>1, <1>4, ReservationIsMade DEF LocShape, Write
  <2>3. \A v \in Caller : pc[v] \in Held => loc[v].try # loc[w].try
    BY <1>1 DEF CleanupInv, Attempts, Apart, Held, Irreversible
  <2>4. \A v \in Caller : pc[v] \notin Irreversible
    <3> SUFFICES ASSUME NEW v \in Caller, pc[v] \in Irreversible PROVE FALSE
      OBVIOUS
    <3>1. Owns(v) /\ entry.state # "cleaned" /\ pc[v] # "idle"
      BY DEF CleanupInv, Removing, OneRemover, Held, Irreversible
    <3>2. reg.res # NoReservation /\ reg.res.owner = v /\ reg.res.phase \notin {"failed", "finalized"}
      BY <3>1 DEF CleanupInv, Attempts, Owns
    <3> QED BY <1>4, <3>2, NoneIsApart DEF Free
  <2>5. Shapes'
    BY <1>1, <2>1, <2>2 DEF CleanupInv, Shapes, Bounds, EntryShape
  <2>6. Attempts'
    BY <1>1, <2>1, <2>2 DEF CleanupInv, Attempts, Apart
  <2>7. Taking'
    BY <1>1, <2>1 DEF CleanupInv, Taking, Held, Irreversible
  <2>8. Removing'
    BY <1>1, <2>1, <2>2, <2>3, <2>4 DEF CleanupInv, Removing, OneRemover, Owns, Held,
      Irreversible
  <2>9. StillQuiet'
    BY <1>1, <2>1, <2>2, <2>3 DEF StillQuiet, Owns, Held, Irreversible
  <2>10. Progress' /\ Receipts' /\ Sealing'
    BY <1>1, <2>1, <2>2 DEF CleanupInv, Progress, Receipts, ReceiptIsTrue, Sealing,
      CleanedIsSealed, ActiveIn
  <2> QED BY <2>5, <2>6, <2>7, <2>8, <2>9, <2>10 DEF CleanupInv
<1> QED BY <1>2, <1>3, <1>4 DEF ReserveContexts

(* A reservation is given back by its own attempt: nobody else goes on by it. *)
LEMMA ReservationGoesAlone ==
  ASSUME CleanupInv, NEW w \in Caller, CallShapes',
         reg' = reg \/ (reg' = [reg EXCEPT !.res = NoReservation]
                        /\ (entry.state = "cleaned"
                              \/ (reg.res # NoReservation /\ reg.res.try = loc[w].try))),
         UNCHANGED <<entry, path, dirty, head, receipts, tries, faults, events>>,
         \A v \in Caller \ {w} : pc'[v] = pc[v] /\ loc'[v] = loc[v],
         pc[w] \in {"undo", "failed", "release"},
         \/ pc'[w] = "idle" /\ loc'[w].try = 0
         \/ pc'[w] = "complete" /\ loc'[w] = loc[w] /\ entry.state = "cleaned"
            /\ pc[w] = "undo"
  PROVE  CleanupInv'
<1>1. RegistryShape(reg)
  BY DEF CleanupInv, Shapes
<1>2. /\ RegistryShape(reg)' /\ reg'.ctx = reg.ctx /\ reg'.live = reg.live /\ reg'.tomb = reg.tomb
      /\ reg'.res \in {reg.res, NoReservation}
  BY <1>1, ReservationIsDropped
<1>3. \A v \in Caller : pc[v] \in Irreversible => reg'.res = reg.res
  <2> SUFFICES ASSUME NEW v \in Caller, pc[v] \in Irreversible, reg' # reg PROVE FALSE
    OBVIOUS
  <2>1. Owns(v) /\ entry.state # "cleaned" /\ v # w
    BY DEF CleanupInv, Removing, OneRemover, Held, Irreversible
  <2>2. loc[v].try # loc[w].try
    BY <2>1 DEF CleanupInv, Attempts, Apart, Irreversible
  <2> QED BY <2>1, <2>2 DEF Owns
<1>4. Shapes'
  BY <1>2 DEF CleanupInv, Shapes, Bounds, EntryShape
<1>5. Attempts'
  BY <1>2 DEF CleanupInv, Shapes, Bounds, Attempts, Apart
<1>6. Taking'
  BY DEF CleanupInv, Taking, Held, Irreversible
<1>7. Removing'
  BY <1>2, <1>3 DEF CleanupInv, Removing, OneRemover, Owns, Held, Irreversible
<1>8. StillQuiet'
  <2>1. /\ path' = path /\ reg'.ctx = reg.ctx /\ reg'.live = reg.live
        /\ \A v \in Caller : pc'[v] \in {"remove", "git"} => pc'[v] = pc[v] /\ loc'[v] = loc[v]
        /\ reg'.res # NoReservation => reg'.res = reg.res
    BY <1>2
  <2> QED BY <2>1 DEF CleanupInv, StillQuiet, Owns, ActiveIn
<1>9. Progress' /\ Receipts' /\ Sealing'
  BY <1>2 DEF CleanupInv, Progress, Receipts, ReceiptIsTrue, Sealing, CleanedIsSealed,
    ActiveIn, Matches
<1> QED BY <1>4, <1>5, <1>6, <1>7, <1>8, <1>9 DEF CleanupInv

LEMMA UndoKeeps ==
  ASSUME CleanupInv, NEW w \in Caller, Undo(w) PROVE CleanupInv'
<1>1. /\ CallShapes /\ LocShape(loc[w]) /\ loc[w].op \in Nat /\ pc[w] = "undo"
      /\ UNCHANGED <<entry, path, dirty, head, receipts, tries, faults, events>>
  BY DEF CleanupInv, Shapes, CallShapes, Undo
<1>2. reg' = reg \/ (reg' = [reg EXCEPT !.res = NoReservation]
                     /\ reg.res # NoReservation /\ reg.res.try = loc[w].try)
  BY DEF Undo, Try
<1>3. CASE Stop(w)
  BY <1>1, <1>2, <1>3, CallStops, ReservationGoesAlone
<1>4. CASE entry.state = "cleaned" /\ Goto(w, "complete") /\ UNCHANGED loc
  <2>1. /\ pc' = [pc EXCEPT ![w] = pc'[w]] /\ pc'[w] = "complete"
        /\ loc' = [loc EXCEPT ![w] = loc'[w]] /\ loc'[w] = loc[w]
    BY <1>1, <1>4 DEF CallShapes, Goto
  <2>2. CallShapes' /\ \A v \in Caller \ {w} : pc'[v] = pc[v] /\ loc'[v] = loc[v]
    BY <1>1, <2>1, CallMoves
  <2> QED BY <1>1, <1>2, <1>4, <2>1, <2>2, ReservationGoesAlone
<1> QED BY <1>3, <1>4 DEF Undo

LEMMA ReleaseKeeps ==
  ASSUME CleanupInv, NEW w \in Caller, Release(w) PROVE CleanupInv'
<1>1. /\ CallShapes /\ pc[w] = "release" /\ entry.state = "cleaned" /\ Stop(w)
      /\ UNCHANGED <<entry, path, dirty, head, receipts, tries, faults, events>>
  BY DEF CleanupInv, Shapes, Taking, Release
<1>2. reg' = reg \/ reg' = [reg EXCEPT !.res = NoReservation]
  BY DEF Release, Try, Released
<1> QED BY <1>1, <1>2, CallStops, ReservationGoesAlone

(* A phase is set by the attempt that the reservation is of.                 *)
LEMMA PhaseGoesAlone ==
  ASSUME CleanupInv, NEW w \in Caller, CallShapes', Owns(w), NEW phase,
         reg' = [reg EXCEPT !.res.phase = phase],
         UNCHANGED <<entry, path, dirty, head, receipts, tries, faults, events>>,
         \A v \in Caller \ {w} : pc'[v] = pc[v] /\ loc'[v] = loc[v],
         \/ pc'[w] = "idle" /\ loc'[w].try = 0 /\ pc[w] = "failed"
         \/ /\ (pc[w] = "ready" /\ pc'[w] = "revalidate") \/ (pc[w] = "remove" /\ pc'[w] = "git")
            /\ loc'[w].try = loc[w].try /\ loc'[w].run = loc[w].run /\ loc'[w].cmd = loc[w].cmd
            /\ phase \notin {"failed", "finalized"}
  PROVE  CleanupInv'
<1>1. RegistryShape(reg) /\ reg.res # NoReservation
  BY DEF CleanupInv, Shapes, Owns
<1>2. /\ RegistryShape(reg)' /\ reg'.ctx = reg.ctx /\ reg'.live = reg.live /\ reg'.tomb = reg.tomb
      /\ reg'.res # NoReservation /\ reg'.res.op = reg.res.op /\ reg'.res.try = reg.res.try
      /\ reg'.res.owner = reg.res.owner /\ reg'.res.phase = phase
  <2> DEFINE q == [reg EXCEPT !.res.phase = phase]
  <2>1. /\ RegistryShape(q) /\ q.ctx = reg.ctx /\ q.live = reg.live /\ q.tomb = reg.tomb
        /\ q.res # NoReservation /\ q.res.op = reg.res.op /\ q.res.try = reg.res.try
        /\ q.res.owner = reg.res.owner /\ q.res.phase = phase
    BY <1>1, PhaseIsSet
  <2>2. reg' = q
    OBVIOUS
  <2> HIDE DEF q
  <2> QED BY <2>1, <2>2
<1>3. Shapes'
  BY <1>2 DEF CleanupInv, Shapes, Bounds, EntryShape
<1>4. Attempts'
  BY <1>1, <1>2 DEF CleanupInv, Shapes, Bounds, Attempts, Apart, Owns
<1>5. Taking'
  BY DEF CleanupInv, Taking, Held, Irreversible
<1>6. Removing'
  BY <1>1, <1>2 DEF CleanupInv, Removing, OneRemover, Owns, Held, Irreversible
<1>7. StillQuiet'
  <2>1. /\ path' = path /\ reg'.ctx = reg.ctx /\ reg'.live = reg.live
        /\ \A v \in Caller : pc'[v] \in {"remove", "git"} =>
             /\ pc[v] \in {"remove", "git"}
             /\ loc'[v].run = loc[v].run /\ loc'[v].try = loc[v].try
    BY <1>2
  <2>2. \A v \in Caller : pc'[v] \in {"remove", "git"} /\ Owns(v)' => Owns(v)
    BY <1>1, <1>2, <2>1 DEF Owns
  <2> QED BY <2>1, <2>2 DEF CleanupInv, StillQuiet, ActiveIn
<1>8. Progress' /\ Receipts' /\ Sealing'
  BY <1>2 DEF CleanupInv, Progress, Receipts, ReceiptIsTrue, Sealing, CleanedIsSealed,
    ActiveIn, Matches
<1> QED BY <1>3, <1>4, <1>5, <1>6, <1>7, <1>8 DEF CleanupInv

(* A call that lost its reservation, or is done, gives up.                   *)
LEMMA FailingGoesAlone ==
  ASSUME CleanupInv, NEW w \in Caller, CallShapes',
         UNCHANGED <<files, tries, faults, events>>,
         \A v \in Caller \ {w} : pc'[v] = pc[v] /\ loc'[v] = loc[v],
         pc[w] # "idle", pc'[w] = "fail" /\ loc'[w] = loc[w]
  PROVE  CleanupInv'
<1>1. Shapes'
  BY DEF files, CleanupInv, Shapes, Bounds, EntryShape, RegistryShape
<1>2. Attempts'
  BY DEF files, CleanupInv, Attempts, Apart
<1>3. Taking'
  BY DEF files, CleanupInv, Taking, Held, Irreversible
<1>4. Removing'
  BY DEF files, CleanupInv, Removing, OneRemover, Owns, Held, Irreversible
<1>5. StillQuiet'
  <2>1. /\ reg' = reg /\ path' = path
        /\ \A v \in Caller : pc'[v] \in {"remove", "git"} => pc'[v] = pc[v] /\ loc'[v] = loc[v]
    BY DEF files
  <2> QED BY <2>1 DEF CleanupInv, StillQuiet, Owns, ActiveIn
<1>6. Progress' /\ Receipts' /\ Sealing'
  BY DEF files, CleanupInv, Progress, Receipts, ReceiptIsTrue, Sealing, CleanedIsSealed,
    ActiveIn, Matches
<1> QED BY <1>1, <1>2, <1>3, <1>4, <1>5, <1>6 DEF CleanupInv

(* A call goes to a place and keeps what it knows.                           *)
LEMMA CallGoes ==
  ASSUME CallShapes, NEW w \in Caller, NEW place, Goto(w, place), loc' = loc,
         place \notin {"reserve", "tree", "undo", "prefail"}
  PROVE  /\ CallShapes' /\ pc'[w] = place
         /\ \A v \in Caller \ {w} : pc'[v] = pc[v]
  BY DEF CallShapes, Goto

LEMMA PrepareKeeps ==
  ASSUME CleanupInv, NEW w \in Caller, Prepare(w) PROVE CleanupInv'
<1>1. /\ CallShapes /\ pc[w] = "ready" /\ loc' = loc
      /\ UNCHANGED <<entry, path, dirty, head, receipts, tries, faults, events>>
  BY DEF CleanupInv, Shapes, Prepare
<1>2. CASE Owns(w)
  <2>1. reg' = [reg EXCEPT !.res.phase = "ready"] /\ Goto(w, "revalidate")
    BY <1>2 DEF Prepare, SetPhase, Write
  <2>2. /\ CallShapes' /\ pc'[w] = "revalidate" /\ loc'[w].try = loc[w].try
        /\ loc'[w].run = loc[w].run /\ loc'[w].cmd = loc[w].cmd
        /\ \A v \in Caller \ {w} : pc'[v] = pc[v] /\ loc'[v] = loc[v]
    BY <1>1, <2>1, CallGoes
  <2> HIDE DEF Owns
  <2> QED BY <1>1, <1>2, <2>1, <2>2, PhaseGoesAlone
<1>3. CASE ~Owns(w)
  <2>1. UNCHANGED reg /\ Goto(w, "fail")
    BY <1>3 DEF Prepare
  <2> QED BY <1>1, <2>1, CallGoes, FailingGoesAlone DEF files
<1> QED BY <1>2, <1>3

LEMMA StartRemovalKeeps ==
  ASSUME CleanupInv, NEW w \in Caller, StartRemoval(w) PROVE CleanupInv'
<1>1. /\ CallShapes /\ LocShape(loc[w]) /\ pc[w] = "remove"
      /\ UNCHANGED <<entry, path, dirty, head, receipts, tries, faults, events>>
  BY DEF CleanupInv, Shapes, CallShapes, StartRemoval
<1>2. CASE Owns(w)
  <2>1. /\ reg' = [reg EXCEPT !.res.phase = "removing"] /\ Goto(w, "git")
        /\ loc' = [loc EXCEPT ![w].late = TRUE]
    BY <1>2 DEF StartRemoval, SetPhase, Write
  <2>2. loc'[w] = [cmd |-> loc[w].cmd, was |-> loc[w].was, base |-> loc[w].base, id |-> loc[w].id,
                   head |-> loc[w].head, resumed |-> loc[w].resumed, op |-> loc[w].op,
                   run |-> loc[w].run, try |-> loc[w].try, late |-> TRUE, got |-> loc[w].got]
    BY <1>1, <2>1 DEF CallShapes, LocShape
  <2>3. /\ pc' = [pc EXCEPT ![w] = pc'[w]] /\ pc'[w] = "git"
        /\ loc' = [loc EXCEPT ![w] = loc'[w]]
    BY <1>1, <2>1 DEF CallShapes, Goto
  <2>4. LocShape(loc'[w])
    BY <1>1, <2>2 DEF LocShape
  <2>5. CallShapes' /\ \A v \in Caller \ {w} : pc'[v] = pc[v] /\ loc'[v] = loc[v]
    BY <1>1, <2>3, <2>4, CallMoves
  <2>6. loc'[w].try = loc[w].try /\ loc'[w].run = loc[w].run /\ loc'[w].cmd = loc[w].cmd
    BY <2>2
  <2>7. /\ reg' = [reg EXCEPT !.res.phase = "removing"]
        /\ pc[w] = "remove" /\ pc'[w] = "git" /\ "removing" \notin {"failed", "finalized"}
        /\ UNCHANGED <<entry, path, dirty, head, receipts, tries, faults, events>>
    BY <1>1, <2>1, <2>3
  <2> QED BY <1>2, <2>5, <2>6, <2>7, PhaseGoesAlone
<1>3. CASE ~Owns(w)
  <2>1. UNCHANGED <<reg, loc>> /\ Goto(w, "fail")
    BY <1>3 DEF StartRemoval
  <2> QED BY <1>1, <2>1, CallGoes, FailingGoesAlone DEF files
<1> QED BY <1>2, <1>3

LEMMA FailContextsKeeps ==
  ASSUME CleanupInv, NEW w \in Caller, FailContexts(w) PROVE CleanupInv'
<1>1. /\ CallShapes /\ pc[w] = "failed" /\ Stop(w)
      /\ UNCHANGED <<entry, path, dirty, head, receipts, tries, faults, events>>
  BY DEF CleanupInv, Shapes, FailContexts
<1>2. CASE ~Owns(w) \/ ~loc[w].late
  <2>1. reg' = reg \/ (reg' = [reg EXCEPT !.res = NoReservation] /\ Owns(w))
    BY <1>2 DEF FailContexts
  <2> QED BY <1>1, <2>1, CallStops, ReservationGoesAlone DEF Owns
<1>3. CASE Owns(w) /\ loc[w].late
  <2>1. reg' = [reg EXCEPT !.res.phase = IF entry.state = "cleaned" THEN "finalized" ELSE "failed"]
    BY <1>3 DEF FailContexts
  <2> QED BY <1>1, <1>3, <2>1, CallStops, PhaseGoesAlone
<1> QED BY <1>2, <1>3

(* The tombstone is that of the operation that holds the entry.              *)
LEMMA TombstoneGoesAlone ==
  ASSUME CleanupInv, NEW w \in Caller, CallShapes', NEW t,
         reg' = [reg EXCEPT !.tomb = t], t.op = entry.op, entry.state # "ready", ActiveIn(reg) = {},
         UNCHANGED <<entry, path, dirty, head, receipts, tries, faults, events>>,
         \A v \in Caller \ {w} : pc'[v] = pc[v] /\ loc'[v] = loc[v],
         \/ pc[w] = "terminal" /\ pc'[w] = "finalize" /\ loc'[w] = loc[w]
         \/ entry.state = "cleaned" /\ pc[w] = "complete" /\ pc'[w] = "idle" /\ loc'[w].try = 0
         \/ /\ entry.state = "cleaned" /\ pc[w] = "complete" /\ pc'[w] = "release"
            /\ loc'[w].try <= tries
  PROVE  CleanupInv'
<1>1. RegistryShape(reg) /\ t.op \in Nat
  BY DEF CleanupInv, Shapes, EntryShape
<1>2. /\ RegistryShape(reg)' /\ reg'.ctx = reg.ctx /\ reg'.live = reg.live /\ reg'.res = reg.res
      /\ reg'.tomb = t /\ reg'.tomb # NoTombstone
  BY <1>1, TombstoneIsSet
<1>3. Shapes'
  BY <1>2 DEF CleanupInv, Shapes, Bounds, EntryShape
<1>4. Attempts'
  BY <1>2 DEF CleanupInv, Shapes, Bounds, Attempts, Apart
<1>5. Taking'
  BY DEF CleanupInv, Taking, Held, Irreversible
<1>6. Removing'
  BY <1>2 DEF CleanupInv, Removing, OneRemover, Owns, Held, Irreversible
<1>7. StillQuiet'
  <2>1. /\ path' = path /\ reg'.ctx = reg.ctx /\ reg'.live = reg.live /\ reg'.res = reg.res
        /\ \A v \in Caller : pc'[v] \in {"remove", "git"} => pc'[v] = pc[v] /\ loc'[v] = loc[v]
    BY <1>2
  <2> QED BY <2>1 DEF CleanupInv, StillQuiet, Owns, ActiveIn
<1>8. Progress'
  BY <1>2 DEF CleanupInv, Progress
<1>9. Receipts'
  BY DEF CleanupInv, Receipts, ReceiptIsTrue
<1>10. Sealing'
  BY <1>2 DEF CleanupInv, Sealing, CleanedIsSealed, ActiveIn, Matches
<1> QED BY <1>3, <1>4, <1>5, <1>6, <1>7, <1>8, <1>9, <1>10 DEF CleanupInv

LEMMA SealKeeps ==
  ASSUME CleanupInv, NEW w \in Caller, Seal(w) PROVE CleanupInv'
<1> DEFINE r == loc[w].got
           t == Tombstone(r, loc[w].try)
<1>1. /\ CallShapes /\ pc[w] = "terminal" /\ loc' = loc
      /\ UNCHANGED <<entry, path, dirty, head, receipts, tries, faults, events>>
  BY DEF CleanupInv, Shapes, Seal
<1>2. r \in receipts /\ entry.state # "ready" /\ r.op = entry.op
  BY <1>1 DEF CleanupInv, Progress, Receipts
<1>3. CASE reg' = [reg EXCEPT !.tomb = t] /\ CanSeal(r, loc[w].try, FALSE) /\ Goto(w, "finalize")
  <2>1. t.op = entry.op /\ ActiveIn(reg) = {}
    BY <1>2, <1>3 DEF CanSeal, Tombstone
  <2>2. /\ CallShapes' /\ pc'[w] = "finalize"
        /\ \A v \in Caller \ {w} : pc'[v] = pc[v] /\ loc'[v] = loc[v]
    BY <1>1, <1>3, CallGoes
  <2> HIDE DEF t
  <2> QED BY <1>1, <1>2, <1>3, <2>1, <2>2, TombstoneGoesAlone
<1>4. CASE UNCHANGED reg /\ Goto(w, "fail")
  BY <1>1, <1>4, CallGoes, FailingGoesAlone DEF files
<1> QED BY <1>3, <1>4, Zenon DEF Seal

LEMMA CompleteKeeps ==
  ASSUME CleanupInv, NEW w \in Caller, Complete(w) PROVE CleanupInv'
<1> DEFINE r == entry.receipt
           t == Tombstone(r, entry.try)
<1>1. /\ CallShapes /\ LocShape(loc[w]) /\ pc[w] = "complete" /\ entry.state = "cleaned"
      /\ UNCHANGED <<entry, path, dirty, head, receipts, tries, faults, events>>
  BY DEF CleanupInv, Shapes, CallShapes, Taking, Complete
<1>2. r \in receipts /\ r.op = entry.op
  BY <1>1 DEF CleanupInv, Sealing, CleanedIsSealed, Receipts
<1>3. CASE UNCHANGED reg /\ Stop(w)
  BY <1>1, <1>3, CallStops, CallsAlone DEF files
<1>4. CASE reg' = [reg EXCEPT !.tomb = t] /\ CanSeal(r, entry.try, TRUE) /\ Stop(w)
  <2>1. t.op = entry.op /\ ActiveIn(reg) = {}
    BY <1>2, <1>4 DEF CanSeal, Tombstone
  <2> HIDE DEF t
  <2> QED BY <1>1, <1>4, <2>1, CallStops, TombstoneGoesAlone
<1>5. CASE /\ reg' = [reg EXCEPT !.tomb = t] /\ CanSeal(r, entry.try, TRUE)
           /\ reg.res # NoReservation /\ Goto(w, "release")
           /\ loc' = [loc EXCEPT ![w].run = r.op, ![w].try = reg.res.try]
  <2>1. t.op = entry.op /\ ActiveIn(reg) = {}
    BY <1>2, <1>5 DEF CanSeal, Tombstone
  <2>2. loc'[w] = [cmd |-> loc[w].cmd, was |-> loc[w].was, base |-> loc[w].base, id |-> loc[w].id,
                   head |-> loc[w].head, resumed |-> loc[w].resumed, op |-> loc[w].op,
                   run |-> r.op, try |-> reg.res.try, late |-> loc[w].late, got |-> loc[w].got]
    BY <1>1, <1>5 DEF CallShapes, LocShape
  <2>3. /\ pc' = [pc EXCEPT ![w] = pc'[w]] /\ pc'[w] = "release"
        /\ loc' = [loc EXCEPT ![w] = loc'[w]]
    BY <1>1, <1>5 DEF CallShapes, Goto
  <2>4. reg.res.try \in Nat /\ reg.res.try <= tries
    BY <1>5 DEF CleanupInv, Shapes, RegistryShape, Attempts
  <2>5. LocShape(loc'[w]) /\ loc'[w].try <= tries
    BY <1>1, <2>2, <2>4 DEF LocShape
  <2>6. CallShapes' /\ \A v \in Caller \ {w} : pc'[v] = pc[v] /\ loc'[v] = loc[v]
    BY <1>1, <2>3, <2>5, CallMoves
  <2>7. reg' = [reg EXCEPT !.tomb = t]
    BY <1>5
  <2> HIDE DEF t
  <2> QED BY <1>1, <2>1, <2>3, <2>5, <2>6, <2>7, TombstoneGoesAlone
<1>6. \/ UNCHANGED reg /\ Stop(w)
      \/ reg' = [reg EXCEPT !.tomb = t] /\ CanSeal(r, entry.try, TRUE) /\ Stop(w)
      \/ /\ reg' = [reg EXCEPT !.tomb = t] /\ CanSeal(r, entry.try, TRUE)
         /\ reg.res # NoReservation /\ Goto(w, "release")
         /\ loc' = [loc EXCEPT ![w].run = r.op, ![w].try = reg.res.try]
  BY Zenon DEF Complete
<1> QED BY <1>3, <1>4, <1>5, <1>6, Zenon

(* A death leaves what it held with no owner.                                *)
LEMMA DieKeeps ==
  ASSUME CleanupInv, NEW w \in Caller, Die(w) PROVE CleanupInv'
<1>1. /\ CallShapes /\ RegistryShape(reg) /\ EntryShape(entry) /\ pc[w] # "idle" /\ Stop(w)
      /\ UNCHANGED <<path, dirty, head, receipts, tries, events>>
      /\ faults \in Nat /\ faults' = faults + 1 /\ faults < MaxFaults
  BY CleanupAssumption DEF CleanupInv, Shapes, Bounds, Die
<1>2. /\ CallShapes' /\ pc'[w] = "idle" /\ loc'[w].try = 0
      /\ \A v \in Caller \ {w} : pc'[v] = pc[v] /\ loc'[v] = loc[v]
  BY <1>1, CallStops
<1>3. /\ EntryShape(entry)'
      /\ entry'.state = entry.state /\ entry'.op = entry.op /\ entry'.cmd = entry.cmd
      /\ entry'.snap = entry.snap /\ entry'.head = entry.head /\ entry'.receipt = entry.receipt
  <2>1. CASE entry' = entry
    BY <1>1, <2>1 DEF EntryShape
  <2>2. CASE entry' = [entry EXCEPT !.owner = None]
    <3>1. entry' = [state |-> entry.state, op |-> entry.op, try |-> entry.try, owner |-> None,
                    cmd |-> entry.cmd, snap |-> entry.snap, head |-> entry.head,
                    receipt |-> entry.receipt]
      BY <1>1, <2>2 DEF EntryShape
    <3> QED BY <1>1, <3>1 DEF EntryShape
  <2> QED BY <2>1, <2>2 DEF Die
<1>4. /\ RegistryShape(reg)' /\ reg'.ctx = reg.ctx /\ reg'.live = reg.live /\ reg'.tomb = reg.tomb
      /\ reg.res = NoReservation => reg'.res = NoReservation
      /\ reg.res # NoReservation =>
           /\ reg'.res # NoReservation /\ reg'.res.op = reg.res.op /\ reg'.res.try = reg.res.try
           /\ reg'.res.phase = reg.res.phase /\ (reg.res.owner # w => reg'.res.owner = reg.res.owner)
  <2>1. CASE reg' = reg
    BY <1>1, <2>1 DEF RegistryShape
  <2>2. CASE reg.res # NoReservation /\ reg.res.owner = w /\ reg' = [reg EXCEPT !.res.owner = None]
    <3> DEFINE q == [reg EXCEPT !.res.owner = None]
    <3>1. /\ RegistryShape(q) /\ q.ctx = reg.ctx /\ q.live = reg.live /\ q.tomb = reg.tomb
          /\ q.res # NoReservation /\ q.res.op = reg.res.op /\ q.res.try = reg.res.try
          /\ q.res.owner = None /\ q.res.phase = reg.res.phase
      BY <1>1, <2>2, OwnerIsCleared
    <3>2. reg' = q /\ reg.res # NoReservation /\ reg.res.owner = w
      BY <2>2
    <3> HIDE DEF q
    <3> QED BY <3>1, <3>2
  <2> QED BY <2>1, <2>2 DEF Die
<1>5. Shapes'
  BY <1>1, <1>2, <1>3, <1>4, CleanupAssumption DEF CleanupInv, Shapes, Bounds
<1>6. Attempts'
  BY <1>1, <1>2, <1>3, <1>4 DEF CleanupInv, Shapes, Bounds, Attempts, Apart
<1>7. Taking'
  BY <1>2, <1>3 DEF CleanupInv, Taking, Held, Irreversible
<1>8. Removing'
  BY <1>2, <1>3, <1>4 DEF CleanupInv, Removing, OneRemover, Owns, Held, Irreversible
<1>9. StillQuiet'
  <2>1. /\ path' = path /\ reg'.ctx = reg.ctx /\ reg'.live = reg.live
        /\ \A v \in Caller : pc'[v] \in {"remove", "git"} => pc'[v] = pc[v] /\ loc'[v] = loc[v]
    BY <1>1, <1>2, <1>4
  <2>2. \A v \in Caller : pc'[v] \in {"remove", "git"} /\ Owns(v)' => Owns(v)
    BY <1>4, <2>1 DEF Owns
  <2> QED BY <2>1, <2>2 DEF CleanupInv, StillQuiet, ActiveIn
<1>10. Progress' /\ Receipts'
  BY <1>1, <1>2, <1>3, <1>4 DEF CleanupInv, Progress, Receipts, ReceiptIsTrue
<1>11. Sealing'
  BY <1>1, <1>3, <1>4 DEF CleanupInv, Sealing, CleanedIsSealed, ActiveIn, Matches
<1> QED BY <1>5, <1>6, <1>7, <1>8, <1>9, <1>10, <1>11 DEF CleanupInv

(* Writing a context leaves the reservation and the tombstone alone.         *)
LEMMA ContextsGoAlone ==
  ASSUME CleanupInv, RegistryShape(reg)', reg'.res = reg.res, reg'.tomb = reg.tomb,
         UNCHANGED <<entry, receipts, pc, loc, tries, faults>>,
         path' = path, Bounds',
         reg.tomb # NoTombstone => ActiveIn(reg)' = {},
         (\A r \in receipts : r.cmd = "finish" => head' = None),
         (\A w \in Caller : pc[w] \in {"append", "terminal", "finalize"} /\ loc[w].cmd = "finish" =>
            head' = None),
         \A w \in Caller : pc[w] \in {"remove", "git"} /\ path /\ Owns(w) => StillQuiet'
  PROVE  CleanupInv'
<1>1. Shapes'
  BY DEF CleanupInv, Shapes, CallShapes, EntryShape
<1>2. Attempts'
  BY DEF CleanupInv, Attempts, Apart
<1>3. Taking'
  BY DEF CleanupInv, Taking
<1>4. Removing'
  BY DEF CleanupInv, Removing, OneRemover, Owns
<1>5. StillQuiet'
  <2>1. CASE \E w \in Caller : pc[w] \in {"remove", "git"} /\ path /\ Owns(w)
    BY <2>1
  <2>2. CASE ~\E w \in Caller : pc[w] \in {"remove", "git"} /\ path /\ Owns(w)
    BY <2>2 DEF StillQuiet, Owns
  <2> QED BY <2>1, <2>2
<1>6. Progress'
  BY DEF CleanupInv, Progress
<1>7. Receipts'
  BY DEF CleanupInv, Receipts, ReceiptIsTrue
<1>8. Sealing'
  BY DEF CleanupInv, Sealing, CleanedIsSealed, Matches, ActiveIn
<1> QED BY <1>1, <1>2, <1>3, <1>4, <1>5, <1>6, <1>7, <1>8 DEF CleanupInv

LEMMA HeadStays ==
  ASSUME CleanupInv, UNCHANGED <<head, path, dirty, events, tries, faults>>
  PROVE  /\ Bounds'
         /\ \A r \in receipts : r.cmd = "finish" => head' = None
         /\ \A w \in Caller : pc[w] \in {"append", "terminal", "finalize"} /\ loc[w].cmd = "finish" =>
              head' = None
  BY DEF CleanupInv, Shapes, Bounds, Progress, Receipts, ReceiptIsTrue

(* The call that closes contexts is the only one past its reservation.        *)
LEMMA CloseKeeps ==
  ASSUME CleanupInv, NEW w \in Caller, Close(w) PROVE CleanupInv'
<1>1. /\ RegistryShape(reg) /\ pc[w] = "close"
      /\ UNCHANGED <<entry, path, dirty, head, receipts, pc, loc, tries, faults, events>>
  BY DEF CleanupInv, Shapes, Close
<1>2. PICK s, d : reg' = Put(reg, s, "closed", d)
  BY DEF Close
<1>3. /\ RegistryShape(reg)' /\ reg'.res = reg.res /\ reg'.tomb = reg.tomb
      /\ \A t \in Session : reg'.ctx[t].state = "active" => reg.ctx[t].state = "active"
  <2>1. CASE s \in Session
    <3> DEFINE q == Put(reg, s, "closed", d)
    <3>1. /\ RegistryShape(q) /\ q.res = reg.res /\ q.tomb = reg.tomb /\ q.ctx[s].state = "closed"
          /\ \A t \in Session \ {s} : q.ctx[t] = reg.ctx[t]
      BY <1>1, <2>1, ContextIsPut
    <3>2. reg' = q
      BY <1>2
    <3> HIDE DEF q
    <3> QED BY <3>1, <3>2
  <2>2. CASE s \notin Session
    <3>1. Put(reg, s, "closed", d) = reg
      BY <1>1, <2>2 DEF Put, RegistryShape
    <3> QED BY <1>1, <1>2, <3>1
  <2> QED BY <2>1, <2>2
<1>4. reg.tomb # NoTombstone => ActiveIn(reg)' = {}
  BY <1>3 DEF CleanupInv, Sealing, ActiveIn
<1>5. \A v \in Caller : pc[v] \in {"remove", "git"} => ~Owns(v)
  <2>1. Owns(w) /\ \A v \in Caller : pc[v] \in {"remove", "git"} => loc[v].try # loc[w].try
    BY <1>1 DEF CleanupInv, Removing, OneRemover, Irreversible, Attempts, Apart
  <2> QED BY <2>1 DEF Owns
<1> QED BY <1>1, <1>3, <1>4, <1>5, HeadStays, ContextsGoAlone

(* While a reservation or a tombstone stands, sessions write nothing that it  *)
(* watches.                                                                  *)
LEMMA SessionsKeep ==
  ASSUME CleanupInv, RegistryShape(reg)', MayWrite(reg, reg', None),
         reg'.res = reg.res, reg'.tomb = reg.tomb,
         UNCHANGED <<entry, path, dirty, head, receipts, pc, loc, tries, faults>>,
         events' = events + 1, events < MaxEvents
  PROVE  CleanupInv'
<1>1. RegistryShape(reg)
  BY DEF CleanupInv, Shapes
<1>2. reg.res # NoReservation \/ reg.tomb # NoTombstone =>
        /\ reg'.live = reg.live /\ ActiveIn(reg)' = ActiveIn(reg)
        /\ \A s \in ActiveIn(reg) : reg'.ctx[s] = reg.ctx[s]
  <2>1. reg.res # NoReservation \/ reg.tomb # NoTombstone => Watched(reg) = Watched(reg')
    BY <1>1, NobodyWrites
  <2>2. Watched(reg) = Watched(reg') =>
          /\ reg'.live = reg.live /\ ActiveIn(reg') = ActiveIn(reg)
          /\ \A s \in ActiveIn(reg) : reg'.ctx[s] = reg.ctx[s]
    BY WatchedTells
  <2>3. ActiveIn(reg)' = ActiveIn(reg')
    BY DEF ActiveIn
  <2> QED BY <2>1, <2>2, <2>3
<1>3. reg.tomb # NoTombstone => ActiveIn(reg)' = {}
  BY <1>2 DEF CleanupInv, Sealing
<1>4. ASSUME NEW w \in Caller, pc[w] \in {"remove", "git"}, path, Owns(w) PROVE StillQuiet'
  <2>1. reg.res # NoReservation /\ reg.live = {} /\ \A s \in ActiveIn(reg) : ~reg.ctx[s].delivery
    BY <1>4 DEF CleanupInv, StillQuiet, Owns
  <2>2. reg'.live = {} /\ \A s \in ActiveIn(reg)' : ~reg'.ctx[s].delivery
    BY <1>2, <2>1
  <2> QED BY <2>2 DEF StillQuiet
<1>5. /\ Bounds'
      /\ \A r \in receipts : r.cmd = "finish" => head' = None
      /\ \A w \in Caller : pc[w] \in {"append", "terminal", "finalize"} /\ loc[w].cmd = "finish" =>
           head' = None
  BY CleanupAssumption DEF CleanupInv, Shapes, Bounds, Progress, Receipts, ReceiptIsTrue
<1> QED BY <1>3, <1>4, <1>5, ContextsGoAlone

LEMMA MeanwhileKeeps ==
  ASSUME CleanupInv, Meanwhile PROVE CleanupInv'
<1>1. /\ RegistryShape(reg) /\ UNCHANGED <<pc, loc, tries, faults>>
      /\ events' = events + 1 /\ events < MaxEvents
  BY DEF CleanupInv, Shapes, Meanwhile
<1>2. ASSUME NEW s \in Session, SessionStarts(s) \/ SessionEnds(s),
             UNCHANGED <<entry, path, dirty, head, receipts>>
      PROVE  CleanupInv'
  <2>1. PICK L \in SUBSET Session : reg' = [reg EXCEPT !.live = L] /\ MayWrite(reg, reg', None)
    <3>1. reg.live \union {s} \in SUBSET Session /\ reg.live \ {s} \in SUBSET Session
      BY <1>1 DEF RegistryShape
    <3>2. CASE SessionStarts(s)
      BY <1>1, <3>1, <3>2 DEF SessionStarts, Write, RegistryShape
    <3>3. CASE SessionEnds(s)
      BY <1>1, <3>1, <3>3 DEF SessionEnds, Write, RegistryShape
    <3> QED BY <1>2, <3>2, <3>3
  <2>2. RegistryShape(reg)' /\ reg'.res = reg.res /\ reg'.tomb = reg.tomb
    BY <1>1, <2>1, SessionsAreSet
  <2> QED BY <1>1, <1>2, <2>1, <2>2, SessionsKeep
<1>3. ASSUME NEW s \in Session, NEW d, NEW state \in {"active", "closed"},
             Write(None, Put(reg, s, state, d)),
             UNCHANGED <<entry, path, dirty, head, receipts>>
      PROVE  CleanupInv'
  <2>1. reg' = Put(reg, s, state, d) /\ MayWrite(reg, reg', None)
    BY <1>3 DEF Write
  <2>2. RegistryShape(reg)' /\ reg'.res = reg.res /\ reg'.tomb = reg.tomb
    BY <1>1, <2>1, ContextIsPut
  <2> QED BY <1>1, <1>3, <2>1, <2>2, SessionsKeep
<1>4. CASE path /\ dirty' = ~dirty /\ UNCHANGED <<reg, entry, path, head, receipts>>
  <2>1. /\ Bounds'
        /\ \A r \in receipts : r.cmd = "finish" => head' = None
        /\ \A w \in Caller : pc[w] \in {"append", "terminal", "finalize"} /\ loc[w].cmd = "finish" =>
             head' = None
    BY <1>1, <1>4, CleanupAssumption DEF CleanupInv, Shapes, Bounds, Progress, Receipts, ReceiptIsTrue
  <2>2. RegistryShape(reg)' /\ (reg.tomb # NoTombstone => ActiveIn(reg)' = {}) /\ StillQuiet'
    BY <1>1, <1>4 DEF CleanupInv, Sealing, ActiveIn, StillQuiet, Owns, RegistryShape
  <2> QED BY <1>1, <1>4, <2>1, <2>2, ContextsGoAlone
<1>5. CASE head # None /\ head' = head + 1 /\ UNCHANGED <<reg, entry, path, dirty, receipts>>
  <2>1. /\ Bounds'
        /\ \A r \in receipts : r.cmd = "finish" => head' = None
        /\ \A w \in Caller : pc[w] \in {"append", "terminal", "finalize"} /\ loc[w].cmd = "finish" =>
             head' = None
    BY <1>1, <1>5, CleanupAssumption DEF CleanupInv, Shapes, Bounds, Progress, Receipts, ReceiptIsTrue
  <2>2. RegistryShape(reg)' /\ (reg.tomb # NoTombstone => ActiveIn(reg)' = {}) /\ StillQuiet'
    BY <1>1, <1>5 DEF CleanupInv, Sealing, ActiveIn, StillQuiet, Owns, RegistryShape
  <2> QED BY <1>1, <1>5, <2>1, <2>2, ContextsGoAlone
<1>6. CASE /\ \E s \in Session : \/ SessionStarts(s) \/ SessionEnds(s) \/ Repair(s)
                                 \/ \E d \in BOOLEAN : SetContext(s, d)
           /\ UNCHANGED <<entry, path, dirty, head, receipts>>
  <2>1. PICK s \in Session : \/ SessionStarts(s) \/ SessionEnds(s) \/ Repair(s)
                             \/ \E d \in BOOLEAN : SetContext(s, d)
    BY <1>6
  <2>2. CASE SessionStarts(s) \/ SessionEnds(s)
    BY <1>2, <1>6, <2>2
  <2>3. CASE Repair(s)
    BY <1>3, <1>6, <2>3 DEF Repair
  <2>4. CASE \E d \in BOOLEAN : SetContext(s, d)
    BY <1>3, <1>6, <2>4 DEF SetContext
  <2> QED BY <2>1, <2>2, <2>3, <2>4
<1> QED BY <1>4, <1>5, <1>6 DEF Meanwhile

-----------------------------------------------------------------------------
LEMMA InitKeeps == Init => CleanupInv
<1> SUFFICES ASSUME Init PROVE CleanupInv
  OBVIOUS
<1>1. /\ entry = Ready /\ path = TRUE /\ dirty = FALSE /\ head = Merged /\ receipts = {}
      /\ pc = [w \in Caller |-> "idle"] /\ loc = [w \in Caller |-> NoLoc]
      /\ tries = 0 /\ faults = 0 /\ events = 0
  BY DEF Init
<1>2. RegistryShape(reg) /\ reg.res = NoReservation /\ reg.tomb = NoTombstone
  <2>1. PICK L \in SUBSET Session, A \in SUBSET Session :
          reg = [Empty EXCEPT !.live = L, !.ctx = [s \in Session |->
                   IF s \in A THEN [state |-> "active", delivery |-> FALSE, rev |-> 1]
                   ELSE NoContext]]
    BY DEF Init
  <2> DEFINE ctx == [s \in Session |->
                       IF s \in A THEN [state |-> "active", delivery |-> FALSE, rev |-> 1]
                       ELSE NoContext]
  <2>2. reg = [ctx |-> ctx, live |-> L, res |-> NoReservation, tomb |-> NoTombstone]
    BY <2>1 DEF Empty
  <2>4. \A s \in Session :
          /\ ctx[s] = [state |-> ctx[s].state, delivery |-> ctx[s].delivery, rev |-> ctx[s].rev]
          /\ ctx[s].state \in {"none", "active", "closed"} /\ ctx[s].rev \in Nat
    BY DEF NoContext
  <2>5. ctx = [s \in Session |-> ctx[s]]
    OBVIOUS
  <2> HIDE DEF ctx
  <2> QED BY <2>2, <2>4, <2>5 DEF RegistryShape
<1>3. EntryShape(entry) /\ entry.state = "ready"
  BY <1>1 DEF EntryShape, Ready
<1>4. LocShape(NoLoc) /\ NoLoc.try = 0
  BY DEF LocShape, NoLoc, Ready, Resumable
<1>5. CallShapes /\ Bounds
  <2>1. CallShapes
    BY <1>1, <1>4 DEF CallShapes
  <2>2. path \in BOOLEAN /\ dirty \in BOOLEAN
    BY <1>1
  <2>3. /\ events \in 0..MaxEvents /\ tries \in 0..MaxTries /\ faults \in 0..MaxFaults
        /\ head # None => head \in 0..events
    BY <1>1, CleanupAssumption DEF Merged
  <2> QED BY <2>1, <2>2, <2>3 DEF Bounds
<1>6. Attempts
  BY <1>1, <1>2, <1>4 DEF Attempts, Apart
<1>7. Taking /\ Removing /\ StillQuiet /\ Progress
  BY <1>1, <1>3 DEF Taking, Removing, OneRemover, StillQuiet, Progress, Held, Irreversible
<1>8. Receipts /\ Sealing
  BY <1>1, <1>2, <1>3 DEF Receipts, ReceiptIsTrue, Sealing, CleanedIsSealed
<1> QED BY <1>2, <1>3, <1>5, <1>6, <1>7, <1>8 DEF CleanupInv, Shapes

LEMMA NextKeeps == CleanupInv /\ [Next]_vars => CleanupInv'
<1> SUFFICES ASSUME CleanupInv, [Next]_vars PROVE CleanupInv'
  OBVIOUS
<1>1. ASSUME NEW w \in Caller, NEW c \in Command, Begin(w, c) PROVE CleanupInv'
  BY <1>1, BeginKeeps
<1>2. ASSUME NEW w \in Caller, Step(w) PROVE CleanupInv'
  BY <1>2, InspectKeeps, ReserveContextsKeeps, ReserveTreeKeeps, UndoKeeps, PreFailKeeps,
     PrepareKeeps, RevalidateKeeps, StartRemovalKeeps, RemovePathKeeps, RecheckKeeps, CloseKeeps,
     DeleteBranchKeeps, AppendReceiptKeeps, SealKeeps, FinalizeKeeps, ReleaseKeeps, FailEntryKeeps,
     FailContextsKeeps, CompleteKeeps DEF Step
<1>3. ASSUME NEW w \in Caller, Throw(w) \/ Die(w) PROVE CleanupInv'
  BY <1>3, ThrowKeeps, DieKeeps
<1>4. CASE UNCHANGED vars
  <2>1. UNCHANGED <<reg, entry, path, dirty, head, receipts, pc, loc, tries, faults, events>>
    BY <1>4 DEF vars, files
  <2>2. Shapes'
    BY <2>1 DEF CleanupInv, Shapes, RegistryShape, EntryShape, CallShapes, LocShape, Bounds
  <2>3. Attempts' /\ Taking'
    BY <2>1 DEF CleanupInv, Attempts, Apart, Taking
  <2>4. Removing' /\ StillQuiet'
    BY <2>1 DEF CleanupInv, Removing, OneRemover, Owns, StillQuiet, ActiveIn
  <2>5. Progress' /\ Receipts' /\ Sealing'
    BY <2>1 DEF CleanupInv, Progress, Receipts, ReceiptIsTrue, Sealing, CleanedIsSealed, Matches, ActiveIn
  <2> QED BY <2>2, <2>3, <2>4, <2>5 DEF CleanupInv
<1> QED BY <1>1, <1>2, <1>3, <1>4, MeanwhileKeeps DEF Next

(* The registry, the entry and the calls keep their shapes.                  *)
THEOREM CleanupIsTyped == Spec => []TypeOK
<1>1. ASSUME CleanupInv PROVE TypeOK
  <2>1. RegistryShape(reg) /\ EntryShape(entry) /\ Bounds
    BY <1>1 DEF CleanupInv, Shapes
  <2>2. reg.live \subseteq Session /\ \A s \in Session : reg.ctx[s].state \in {"none", "active", "closed"}
    BY <2>1 DEF RegistryShape
  <2>3. entry.state \in {"ready", "cleaning", "failed", "cleaned"} /\ entry.owner \in Caller \union {None}
    BY <2>1 DEF EntryShape
  <2>4. path \in BOOLEAN /\ dirty \in BOOLEAN
    BY <2>1 DEF Bounds
  <2>5. head \in 0..MaxEvents \union {None} /\ tries \in 0..MaxTries /\ faults \in 0..MaxFaults
    BY <2>1, CleanupAssumption DEF Bounds
  <2> QED BY <2>2, <2>3, <2>4, <2>5 DEF TypeOK
<1> QED BY <1>1, InitKeeps, NextKeeps, PTL DEF Spec

(* However many calls begin, die and resume one another, only one of them is  *)
(* ever past the point of no return, and it holds the contexts' reservation   *)
(* by its own attempt.                                                       *)
THEOREM OneCallRemoves == Spec => []OneRemover
<1>1. CleanupInv => OneRemover
  BY DEF CleanupInv, Removing
<1> QED BY <1>1, InitKeeps, NextKeeps, PTL DEF Spec

(* What was inspected before the reservation still holds when the directory   *)
(* goes: no session runs in it, no delivery is open, nothing is uncommitted.  *)
THEOREM RemovalIsQuiet == Spec => QuietRemoval
<1>1. CleanupInv /\ [Next]_vars =>
        (path /\ ~path' => /\ reg.live = {} /\ ~dirty
                           /\ \A s \in ActiveIn(reg) : ~reg.ctx[s].delivery)
  <2> SUFFICES ASSUME CleanupInv, [Next]_vars, path, ~path'
               PROVE  reg.live = {} /\ ~dirty /\ \A s \in ActiveIn(reg) : ~reg.ctx[s].delivery
    OBVIOUS
  <2>1. PICK w \in Caller : RemovePath(w)
    <3>1. ASSUME NEW w \in Caller, Step(w) PROVE RemovePath(w)
      BY <3>1 DEF Step, Inspect, ReserveContexts, ReserveTree, Undo, PreFail, Prepare, Revalidate,
         StartRemoval, Recheck, Close, DeleteBranch, AppendReceipt, Seal, Finalize, Release,
         FailEntry, FailContexts, Complete, files
    <3>2. ASSUME NEW w \in Caller, NEW c \in Command, Begin(w, c) PROVE FALSE
      BY <3>2 DEF Begin, files
    <3>3. ASSUME NEW w \in Caller, Throw(w) \/ Die(w) PROVE FALSE
      BY <3>3 DEF Throw, Die, files
    <3>4. ASSUME Meanwhile PROVE FALSE
      BY <3>4 DEF Meanwhile
    <3>5. ~UNCHANGED vars
      BY DEF vars, files
    <3> QED BY <3>1, <3>2, <3>3, <3>4, <3>5 DEF Next
  <2>2. pc[w] = "git" /\ ~dirty
    BY <2>1 DEF RemovePath
  <2>3. Owns(w)
    BY <2>2 DEF CleanupInv, Removing, OneRemover, Irreversible
  <2> QED BY <2>2, <2>3 DEF CleanupInv, StillQuiet
<1> QED BY <1>1, InitKeeps, NextKeeps, PTL DEF Spec, QuietRemoval

(* One operation ever gets a receipt, and what the receipt says has happened. *)
THEOREM ReceiptsAreTrue == Spec => []ReceiptIsTrue
<1>1. CleanupInv => ReceiptIsTrue
  BY DEF CleanupInv, Receipts
<1> QED BY <1>1, InitKeeps, NextKeeps, PTL DEF Spec

(* A cleaned worktree has its receipt and its tombstone, and nothing in it is *)
(* ever active again.                                                        *)
THEOREM CleanedStaysSealed == Spec => []CleanedIsSealed
<1>1. CleanupInv => CleanedIsSealed
  BY DEF CleanupInv, Sealing
<1> QED BY <1>1, InitKeeps, NextKeeps, PTL DEF Spec
=============================================================================
