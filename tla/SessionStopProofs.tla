------------------------- MODULE SessionStopProofs -------------------------
(* For any number of turns, activations, overlapping Stops and deaths: one    *)
(* activation at most is open, the memory of a session is staged in causal    *)
(* order, a closed activation's memory is shared, and what the registry says  *)
(* of the memory never goes back.                                            *)
EXTENDS SessionStop, SequenceTheorems, TLAPS

Act == [status : {"active", "superseded", "done"}, opened : Nat, last : Nat,
        stop : Nat, stopSeq : Nat]
Acts == Seq(Act)
Attempt == [act : Nat, epoch : Nat, turn : Nat, seq : Nat,
            state : {"none", "enqueued", "projected", "degraded", "skipped"}]
Entry == [status : {"absent", "active", "done"}, active : Nat, acts : Acts, last : Nat,
          lastTurn : Nat, lastPrompt : Nat, seqs : [Turn -> Nat],
          attempt : Attempt, checkpoint : Attempt]

OneActive(e) == /\ e.active \in {0, Len(e.acts)}
                /\ \A a \in 1..Len(e.acts) : e.acts[a].status = "active" <=> a = e.active

(* A turn that was acknowledged is not past the last one.                    *)
EntryInv(e) == /\ e \in Entry /\ OneActive(e)
               /\ \A a \in 1..Len(e.acts) : e.acts[a].stopSeq <= e.last

(* The turn the open activation acknowledged still has the sequence it had    *)
(* then: a turn of the transcript is numbered once.                          *)
StopIsNumbered(e, n) ==
  e.active # 0 /\ e.acts[e.active].stop # 0 =>
    /\ e.acts[e.active].stop \in 1..n
    /\ e.acts[e.active].stopSeq = SequenceOf(e, e.acts[e.active].stop)

(* What the acknowledgement of a turn leaves for good.                       *)
Reached(e, act, seq) == act \in 1..Len(e.acts) /\ seq <= e.acts[act].stopSeq

(* o is e later: activations are kept, acknowledgements only advance.        *)
Kept(e, o) == /\ Len(e.acts) <= Len(o.acts)
              /\ \A a \in 1..Len(e.acts) : e.acts[a].stopSeq <= o.acts[a].stopSeq

(* No activation became done.                                                *)
NoneClosed(e, o) ==
  \A a \in 1..Len(o.acts) : o.acts[a].status = "done" =>
    a \in 1..Len(e.acts) /\ e.acts[a].status = "done" /\ o.acts[a].stop = e.acts[a].stop

(* What the activations acknowledged is left alone.                          *)
SameStops(e, o) ==
  \A a \in 1..Len(e.acts) : /\ o.acts[a].stop = e.acts[a].stop
                             /\ o.acts[a].stopSeq = e.acts[a].stopSeq

SameMemory(e, o) == o.attempt = e.attempt /\ o.checkpoint = e.checkpoint
-----------------------------------------------------------------------------
LEMMA ActUpdate ==
  ASSUME NEW s \in Acts, NEW i \in 1..Len(s), NEW x \in Act
  PROVE  LET u == [s EXCEPT ![i] = x] IN
           /\ u \in Acts /\ Len(u) = Len(s) /\ u[i] = x
           /\ \A j \in 1..Len(s) : j # i => u[j] = s[j]
BY ExceptSeq DEF Acts

LEMMA ActAppend ==
  ASSUME NEW s \in Acts, NEW x \in Act
  PROVE  LET u == Append(s, x) IN
           /\ u \in Acts /\ Len(u) = Len(s) + 1 /\ u[Len(s) + 1] = x
           /\ \A j \in 1..Len(s) : u[j] = s[j]
BY AppendProperties DEF Acts

WithActs(e, s, k) == [e EXCEPT !.acts = s, !.active = k]

LEMMA EntryActs ==
  ASSUME NEW e \in Entry, NEW s \in Acts, NEW k \in Nat
  PROVE  LET o == WithActs(e, s, k) IN
           /\ o \in Entry /\ o.acts = s /\ o.active = k /\ SameMemory(e, o)
           /\ o.seqs = e.seqs /\ o.last = e.last
           /\ o.lastTurn = e.lastTurn /\ o.lastPrompt = e.lastPrompt
BY DEF Entry, SameMemory, WithActs

LEMMA OpenEntry ==
  ASSUME NEW e, EntryInv(e)
  PROVE  LET o == Open(e) IN
           /\ EntryInv(o) /\ Kept(e, o) /\ NoneClosed(e, o) /\ SameMemory(e, o) /\ SameStops(e, o)
           /\ Len(o.acts) = Len(e.acts) + 1 /\ o.active = Len(o.acts)
           /\ o.acts[o.active].stop = 0
           /\ o.seqs = e.seqs /\ o.last = e.last
           /\ o.lastTurn = e.lastTurn /\ o.lastPrompt = e.lastPrompt
<1> DEFINE n == Len(e.acts)
           new == [status |-> "active", opened |-> e.last, last |-> e.last, stop |-> 0, stopSeq |-> 0]
           over == [e.acts[e.active] EXCEPT !.status = "superseded"]
           old == IF IsOpen(e) THEN [e.acts EXCEPT ![e.active] = over] ELSE e.acts
<1>1. /\ e \in Entry /\ e.acts \in Acts /\ n \in Nat /\ e.last \in Nat /\ e.active \in {0, n}
      /\ \A a \in 1..n : e.acts[a] \in Act /\ e.acts[a].stopSeq <= e.last
                          /\ (e.acts[a].status = "active" <=> a = e.active)
  BY LenProperties, ElementOfSeq DEF Acts, EntryInv, Entry, OneActive
<1>2. /\ old \in Acts /\ Len(old) = n
      /\ \A a \in 1..n : /\ old[a].stopSeq = e.acts[a].stopSeq /\ old[a].stop = e.acts[a].stop
                          /\ old[a].status = IF a = e.active THEN "superseded" ELSE e.acts[a].status
  <2>1. CASE IsOpen(e)
    <3>1. e.active \in 1..n
      BY <1>1, <2>1 DEF IsOpen
    <3>2. /\ over \in Act /\ over.status = "superseded"
          /\ over.stopSeq = e.acts[e.active].stopSeq /\ over.stop = e.acts[e.active].stop
      BY <1>1, <3>1 DEF Act
    <3> HIDE DEF over
    <3>3. QED
      BY <1>1, <2>1, <3>1, <3>2, ActUpdate
  <2>2. CASE ~IsOpen(e)
    BY <1>1, <2>2 DEF IsOpen
  <2>3. QED
    BY <2>1, <2>2
<1>3. new \in Act
  BY <1>1 DEF Act
<1> HIDE DEF new, old
<1>4. PICK s \in Acts :
        /\ s = Append(old, new) /\ Len(s) = n + 1 /\ s[n + 1] = new
        /\ \A a \in 1..n : s[a] = old[a]
  <2>1. /\ Append(old, new) \in Acts /\ Len(Append(old, new)) = n + 1
        /\ Append(old, new)[n + 1] = new /\ \A a \in 1..n : Append(old, new)[a] = old[a]
    BY <1>1, <1>2, <1>3, ActAppend
  <2>2. QED
    BY <2>1
<1>5. PICK k \in Nat : k = n + 1
  BY <1>1
<1> DEFINE o == WithActs(e, s, k)
<1>6. /\ o \in Entry /\ o.acts = s /\ o.active = k
      /\ SameMemory(e, o) /\ o.seqs = e.seqs /\ o.last = e.last
      /\ o.lastTurn = e.lastTurn /\ o.lastPrompt = e.lastPrompt
  <2>1. e \in Entry /\ s \in Acts /\ k \in Nat
    BY <1>1, <1>4, <1>5
  <2>2. QED
    BY <2>1, EntryActs
<1>7. Open(e) = o
  BY <1>4, <1>5 DEF Open, Epoch, new, old, WithActs
<1>8. new.stop = 0 /\ new.stopSeq = 0 /\ new.status = "active"
  BY DEF new
<1> HIDE DEF o
<1>9. \A a \in 1..k : /\ o.acts[a].stopSeq = IF a = k THEN 0 ELSE e.acts[a].stopSeq
                      /\ o.acts[a].stop = IF a = k THEN 0 ELSE e.acts[a].stop
                      /\ o.acts[a].status = IF a = k THEN "active"
                                           ELSE IF a = e.active THEN "superseded" ELSE e.acts[a].status
  <2> TAKE a \in 1..k
  <2>1. CASE a = k
    BY <2>1, <1>4, <1>5, <1>6, <1>8
  <2>2. CASE a # k
    <3>1. a \in 1..n
      BY <2>2, <1>1, <1>5
    <3>2. o.acts[a] = old[a]
      BY <3>1, <1>4, <1>6
    <3>3. QED
      BY <2>2, <3>1, <3>2, <1>2
  <2>3. QED
    BY <2>1, <2>2
<1>10. Len(o.acts) = k /\ k = n + 1
  BY <1>4, <1>5, <1>6
<1>11. EntryInv(o)
  <2>1. \A a \in 1..k : o.acts[a].stopSeq <= o.last
    BY <1>1, <1>6, <1>9, <1>10
  <2>2. \A a \in 1..k : o.acts[a].status = "active" <=> a = o.active
    BY <1>1, <1>6, <1>9, <1>10
  <2>3. QED
    BY <2>1, <2>2, <1>6, <1>10 DEF EntryInv, OneActive
<1>12. Kept(e, o)
  <2>1. \A a \in 1..n : e.acts[a].stopSeq \in Nat /\ a \in 1..k /\ a # k
    BY <1>1, <1>10 DEF Act
  <2>2. QED
    BY <2>1, <1>1, <1>9, <1>10 DEF Kept
<1>14. NoneClosed(e, o)
  <2>1. \A a \in 1..k : a # k => a \in 1..n
    BY <1>1, <1>10
  <2>2. QED
    BY <2>1, <1>9, <1>10 DEF NoneClosed
<1>15. SameStops(e, o)
  <2>1. \A a \in 1..n : a \in 1..k /\ a # k
    BY <1>1, <1>10
  <2>2. QED
    BY <2>1, <1>9 DEF SameStops
<1>13. QED
  BY <1>1, <1>6, <1>7, <1>9, <1>10, <1>11, <1>12, <1>14, <1>15

LEMMA EntryFacts ==
  ASSUME NEW e, EntryInv(e)
  PROVE  /\ e \in Entry /\ e.acts \in Acts /\ Len(e.acts) \in Nat /\ e.last \in Nat
         /\ e.active \in {0, Len(e.acts)} /\ e.active \in Nat
         /\ e.seqs \in [Turn -> Nat] /\ e.lastTurn \in Nat /\ e.lastPrompt \in Nat
         /\ \A a \in 1..Len(e.acts) :
              /\ e.acts[a] \in Act /\ e.acts[a].stopSeq \in Nat /\ e.acts[a].stop \in Nat
              /\ e.acts[a].stopSeq <= e.last
              /\ e.acts[a].status = "active" <=> a = e.active
<1>1. /\ e \in Entry /\ e.acts \in Acts /\ e.last \in Nat /\ e.active \in {0, Len(e.acts)}
      /\ e.seqs \in [Turn -> Nat] /\ e.lastTurn \in Nat /\ e.lastPrompt \in Nat /\ e.active \in Nat
  BY DEF EntryInv, Entry, OneActive
<1>2. Len(e.acts) \in Nat /\ \A a \in 1..Len(e.acts) : e.acts[a] \in Act
  BY <1>1, LenProperties, ElementOfSeq DEF Acts
<1>3. \A a \in 1..Len(e.acts) : e.acts[a].stopSeq \in Nat /\ e.acts[a].stop \in Nat
  BY <1>2 DEF Act
<1>4. QED
  BY <1>1, <1>2, <1>3 DEF EntryInv, OneActive

WithTurn(e, n, s, p, q) == [e EXCEPT !.last = n, !.acts = s, !.lastPrompt = p, !.seqs = q]

LEMMA EntryTurn ==
  ASSUME NEW e \in Entry, NEW n \in Nat, NEW s \in Acts, NEW p \in Nat, NEW q \in [Turn -> Nat]
  PROVE  LET o == WithTurn(e, n, s, p, q) IN
           /\ o \in Entry /\ o.acts = s /\ o.active = e.active /\ SameMemory(e, o)
           /\ o.seqs = q /\ o.last = n /\ o.lastTurn = e.lastTurn /\ o.lastPrompt = p
BY DEF Entry, SameMemory, WithTurn

LEMMA ActLast ==
  ASSUME NEW x \in Act, NEW n \in Nat
  PROVE  LET y == [x EXCEPT !.last = Maximum(@, n)] IN
           y \in Act /\ y.stop = x.stop /\ y.stopSeq = x.stopSeq /\ y.status = x.status
<1>1. Maximum(x.last, n) \in Nat
  BY DEF Maximum, Act
<1>2. QED
  BY <1>1 DEF Act

Turned(e, t) ==
  [e EXCEPT !.last = @ + 1, !.acts[e.active].last = Maximum(@, e.last + 1),
            !.lastPrompt = IF t = 0 THEN @ ELSE t,
            !.seqs = IF t = 0 THEN @ ELSE [@ EXCEPT ![t] = e.last + 1]]

(* A prompt: of an open activation only the last turn changes, and only a     *)
(* turn that was not known is numbered.                                      *)
LEMMA AdvanceOpen ==
  ASSUME NEW e, EntryInv(e), e.active # 0, NEW t \in 0..MaxTurns,
         NEW o, o = Turned(e, t)
  PROVE  /\ EntryInv(o) /\ SameStops(e, o) /\ SameMemory(e, o) /\ NoneClosed(e, o)
         /\ Len(o.acts) = Len(e.acts) /\ o.active = e.active
         /\ \A u \in Turn : u # t => o.seqs[u] = e.seqs[u]
<1> DEFINE a == e.active
           x == [e.acts[a] EXCEPT !.last = Maximum(@, e.last + 1)]
           p == IF t = 0 THEN e.lastPrompt ELSE t
           q == IF t = 0 THEN e.seqs ELSE [e.seqs EXCEPT ![t] = e.last + 1]
<1>1. /\ e \in Entry /\ e.acts \in Acts /\ e.last + 1 \in Nat /\ a \in 1..Len(e.acts)
      /\ e.acts[a] \in Act /\ p \in Nat /\ Len(e.acts) \in Nat
  BY EntryFacts
<1>2. q \in [Turn -> Nat] /\ \A u \in Turn : u # t => q[u] = e.seqs[u]
  BY EntryFacts DEF Turn
<1>3. x \in Act /\ x.stop = e.acts[a].stop /\ x.stopSeq = e.acts[a].stopSeq /\ x.status = e.acts[a].status
  BY <1>1, ActLast
<1> HIDE DEF x, p, q
<1>4. PICK s \in Acts :
        /\ s = [e.acts EXCEPT ![a] = x] /\ Len(s) = Len(e.acts) /\ s[a] = x
        /\ \A b \in 1..Len(e.acts) : b # a => s[b] = e.acts[b]
  <2>1. LET u == [e.acts EXCEPT ![a] = x] IN
          /\ u \in Acts /\ Len(u) = Len(e.acts) /\ u[a] = x
          /\ \A b \in 1..Len(e.acts) : b # a => u[b] = e.acts[b]
    BY <1>1, <1>3, ActUpdate
  <2>2. QED
    BY <2>1
<1>5. o = WithTurn(e, e.last + 1, s, p, q)
  BY <1>4 DEF WithTurn, Turned, x, p, q
<1>6. /\ o \in Entry /\ o.acts = s /\ o.active = a /\ SameMemory(e, o)
      /\ o.seqs = q /\ o.last = e.last + 1
  <2>1. e \in Entry /\ e.last + 1 \in Nat /\ s \in Acts /\ p \in Nat /\ q \in [Turn -> Nat]
    BY <1>1, <1>2, <1>4
  <2>2. QED
    BY <2>1, <1>5, EntryTurn
<1>7. \A b \in 1..Len(e.acts) :
        /\ o.acts[b].stop = e.acts[b].stop /\ o.acts[b].stopSeq = e.acts[b].stopSeq
        /\ o.acts[b].status = e.acts[b].status
  BY <1>3, <1>4, <1>6
<1>8. Len(o.acts) = Len(e.acts)
  BY <1>4, <1>6
<1>9. EntryInv(o)
  <2>1. \A b \in 1..Len(e.acts) : o.acts[b].stopSeq <= o.last
    BY <1>6, <1>7, EntryFacts
  <2>2. OneActive(e)
    BY DEF EntryInv
  <2>3. OneActive(o)
    BY <2>2, <1>6, <1>7, <1>8 DEF OneActive
  <2>4. QED
    BY <2>1, <2>3, <1>6, <1>8 DEF EntryInv
<1>10. SameStops(e, o) /\ NoneClosed(e, o)
  BY <1>7, <1>8 DEF SameStops, NoneClosed
<1>11. QED
  BY <1>2, <1>6, <1>8, <1>9, <1>10

LEMMA AdvanceEntry ==
  ASSUME NEW e, EntryInv(e), NEW t \in 0..MaxTurns, NEW o, o = Advance(e, t)
  PROVE  /\ EntryInv(o) /\ SameStops(e, o) /\ SameMemory(e, o) /\ NoneClosed(e, o)
         /\ Len(e.acts) <= Len(o.acts)
         /\ o.active = e.active \/ (o.active # 0 /\ o.acts[o.active].stop = 0)
         /\ Known(e, t) => o = e
         /\ \A u \in Turn : u # t => o.seqs[u] = e.seqs[u]
<1>1. Len(e.acts) \in Nat
  BY EntryFacts
<1>2. CASE Known(e, t)
  <2>1. o = e
    BY <1>2 DEF Advance
  <2>2. QED
    BY <2>1, <1>1 DEF SameStops, SameMemory, NoneClosed
<1>3. CASE ~Known(e, t) /\ IsOpen(e)
  <2>1. e.active # 0
    BY <1>3 DEF IsOpen
  <2>2. o = Turned(e, t)
    BY <1>3 DEF Advance, Turned
  <2>3. /\ EntryInv(o) /\ SameStops(e, o) /\ SameMemory(e, o) /\ NoneClosed(e, o)
        /\ Len(o.acts) = Len(e.acts) /\ o.active = e.active
        /\ \A u \in Turn : u # t => o.seqs[u] = e.seqs[u]
    BY <2>1, <2>2, AdvanceOpen
  <2>4. QED
    BY <1>1, <1>3, <2>3
<1>4. CASE ~Known(e, t) /\ ~IsOpen(e)
  <2>1. PICK f : f = Open(e)
    OBVIOUS
  <2>2. /\ EntryInv(f) /\ NoneClosed(e, f) /\ SameMemory(e, f) /\ SameStops(e, f)
        /\ Len(f.acts) = Len(e.acts) + 1 /\ f.active = Len(f.acts)
        /\ f.acts[f.active].stop = 0 /\ f.seqs = e.seqs
    BY <2>1, OpenEntry
  <2>3. o = Turned(f, t)
    BY <1>4, <2>1 DEF Advance, Turned
  <2>4. f.active # 0 /\ f.active \in 1..Len(f.acts)
    BY <2>2, <1>1
  <2>5. /\ EntryInv(o) /\ SameStops(f, o) /\ SameMemory(f, o) /\ NoneClosed(f, o)
        /\ Len(o.acts) = Len(f.acts) /\ o.active = f.active
        /\ \A u \in Turn : u # t => o.seqs[u] = f.seqs[u]
    BY <2>2, <2>3, <2>4, AdvanceOpen
  <2>6. o.active # 0 /\ o.acts[o.active].stop = 0
    BY <2>2, <2>4, <2>5 DEF SameStops
  <2>7. SameStops(e, o) /\ SameMemory(e, o)
    BY <2>2, <2>5, <1>1 DEF SameStops, SameMemory
  <2>8. NoneClosed(e, o)
    BY <2>2, <2>5 DEF NoneClosed
  <2>9. QED
    BY <1>1, <1>4, <2>2, <2>5, <2>6, <2>7, <2>8
<1>5. QED
  BY <1>2, <1>3, <1>4
-----------------------------------------------------------------------------
WithAck(e, n, s, t) == [e EXCEPT !.status = "active", !.last = n, !.lastTurn = t, !.acts = s]

LEMMA EntryAck ==
  ASSUME NEW e \in Entry, NEW n \in Nat, NEW s \in Acts, NEW t \in Nat
  PROVE  LET o == WithAck(e, n, s, t) IN
           /\ o \in Entry /\ o.acts = s /\ o.active = e.active /\ SameMemory(e, o)
           /\ o.seqs = e.seqs /\ o.last = n
BY DEF Entry, SameMemory, WithAck

(* An acknowledgement: the open activation remembers the turn, the sequences  *)
(* go up.                                                                    *)
LEMMA AcknowledgeEntry ==
  ASSUME NEW e, EntryInv(e), NEW act, act # 0, act = e.active, NEW t \in Nat, NEW n \in Nat,
         e.last <= n, NEW o, o = Acknowledge(e, act, t, n)
  PROVE  /\ EntryInv(o) /\ Kept(e, o) /\ NoneClosed(e, o) /\ SameMemory(e, o)
         /\ Len(o.acts) = Len(e.acts) /\ o.active = act /\ o.seqs = e.seqs
         /\ act \in 1..Len(o.acts) /\ o.acts[act].stop = t /\ o.acts[act].stopSeq = n
<1> DEFINE x == [e.acts[act] EXCEPT !.last = n, !.stop = t, !.stopSeq = n]
           m == Maximum(e.last, n)
<1>1. /\ e \in Entry /\ e.acts \in Acts /\ e.last \in Nat /\ act \in 1..Len(e.acts)
      /\ e.acts[act] \in Act /\ e.acts[act].status = "active" /\ Len(e.acts) \in Nat
  BY EntryFacts
<1>2. m = n
  BY <1>1 DEF Maximum
<1>3. x \in Act /\ x.stop = t /\ x.stopSeq = n /\ x.status = "active"
  BY <1>1 DEF Act
<1> HIDE DEF x, m
<1>4. PICK s \in Acts :
        /\ s = [e.acts EXCEPT ![act] = x] /\ Len(s) = Len(e.acts) /\ s[act] = x
        /\ \A b \in 1..Len(e.acts) : b # act => s[b] = e.acts[b]
  <2>1. LET u == [e.acts EXCEPT ![act] = x] IN
          /\ u \in Acts /\ Len(u) = Len(e.acts) /\ u[act] = x
          /\ \A b \in 1..Len(e.acts) : b # act => u[b] = e.acts[b]
    BY <1>1, <1>3, ActUpdate
  <2>2. QED
    BY <2>1
<1>5. o = WithAck(e, m, s, t)
  BY <1>4 DEF WithAck, Acknowledge, x, m
<1>6. /\ o \in Entry /\ o.acts = s /\ o.active = act /\ SameMemory(e, o)
      /\ o.seqs = e.seqs /\ o.last = n
  <2>1. e \in Entry /\ m \in Nat /\ s \in Acts /\ t \in Nat
    BY <1>1, <1>2, <1>4
  <2>2. QED
    BY <2>1, <1>2, <1>5, EntryAck
<1>7. \A b \in 1..Len(e.acts) :
        /\ o.acts[b].status = e.acts[b].status
        /\ b # act => o.acts[b].stop = e.acts[b].stop /\ o.acts[b].stopSeq = e.acts[b].stopSeq
  BY <1>1, <1>3, <1>4, <1>6
<1>8. Len(o.acts) = Len(e.acts) /\ o.acts[act].stop = t /\ o.acts[act].stopSeq = n
  BY <1>3, <1>4, <1>6
<1>9. EntryInv(o)
  <2>1. \A b \in 1..Len(e.acts) : o.acts[b].stopSeq <= o.last
    <3> TAKE b \in 1..Len(e.acts)
    <3>1. CASE b = act
      BY <3>1, <1>6, <1>8
    <3>2. CASE b # act
      BY <3>2, <1>1, <1>6, <1>7, EntryFacts
    <3>3. QED
      BY <3>1, <3>2
  <2>2. OneActive(o)
    BY <1>6, <1>7, <1>8, EntryFacts DEF OneActive
  <2>3. QED
    BY <2>1, <2>2, <1>6, <1>8 DEF EntryInv
<1>10. Kept(e, o)
  <2>1. \A b \in 1..Len(e.acts) : e.acts[b].stopSeq <= o.acts[b].stopSeq
    <3> TAKE b \in 1..Len(e.acts)
    <3>1. e.acts[b].stopSeq \in Nat /\ e.acts[b].stopSeq <= e.last
      BY EntryFacts
    <3>2. CASE b = act
      BY <3>1, <3>2, <1>1, <1>8
    <3>3. CASE b # act
      BY <3>1, <3>3, <1>7
    <3>4. QED
      BY <3>2, <3>3
  <2>2. QED
    BY <2>1, <1>1, <1>8 DEF Kept
<1>11. NoneClosed(e, o)
  BY <1>1, <1>7, <1>8 DEF NoneClosed
<1>12. QED
  BY <1>1, <1>6, <1>8, <1>9, <1>10, <1>11

WithClose(e, s, t) == [e EXCEPT !.status = "done", !.active = 0, !.lastTurn = t, !.acts = s]

LEMMA EntryClosed ==
  ASSUME NEW e \in Entry, NEW s \in Acts, NEW t \in Nat
  PROVE  LET o == WithClose(e, s, t) IN
           /\ o \in Entry /\ o.acts = s /\ o.active = 0 /\ SameMemory(e, o) /\ o.last = e.last
BY DEF Entry, SameMemory, WithClose

LEMMA CloseEntry ==
  ASSUME NEW e, EntryInv(e), NEW act, CanClose(e, act), NEW t \in Nat,
         NEW o, o = Close(e, act, t)
  PROVE  /\ EntryInv(o) /\ Kept(e, o) /\ SameMemory(e, o) /\ o.active = 0
         /\ Len(o.acts) = Len(e.acts) /\ o.acts[act].stop = t
         /\ \A a \in 1..Len(o.acts) : a # act => o.acts[a] = e.acts[a]
<1> DEFINE x == [e.acts[act] EXCEPT !.status = "done", !.stop = t]
<1>1. /\ e \in Entry /\ e.acts \in Acts /\ act \in 1..Len(e.acts) /\ act = e.active
      /\ e.acts[act] \in Act /\ Len(e.acts) \in Nat
  BY EntryFacts DEF CanClose
<1>2. x \in Act /\ x.stop = t /\ x.stopSeq = e.acts[act].stopSeq /\ x.status = "done"
  BY <1>1 DEF Act
<1> HIDE DEF x
<1>3. PICK s \in Acts :
        /\ s = [e.acts EXCEPT ![act] = x] /\ Len(s) = Len(e.acts) /\ s[act] = x
        /\ \A b \in 1..Len(e.acts) : b # act => s[b] = e.acts[b]
  <2>1. LET u == [e.acts EXCEPT ![act] = x] IN
          /\ u \in Acts /\ Len(u) = Len(e.acts) /\ u[act] = x
          /\ \A b \in 1..Len(e.acts) : b # act => u[b] = e.acts[b]
    BY <1>1, <1>2, ActUpdate
  <2>2. QED
    BY <2>1
<1>4. o = WithClose(e, s, t)
  BY <1>3 DEF WithClose, Close, x
<1>5. /\ o \in Entry /\ o.acts = s /\ o.active = 0 /\ SameMemory(e, o) /\ o.last = e.last
  <2>1. e \in Entry /\ s \in Acts /\ t \in Nat
    BY <1>1, <1>3
  <2>2. QED
    BY <2>1, <1>4, EntryClosed
<1>6. Len(o.acts) = Len(e.acts)
  BY <1>3, <1>5
<1>7. \A b \in 1..Len(e.acts) : o.acts[b].stopSeq = e.acts[b].stopSeq
  BY <1>2, <1>3, <1>5
<1>8. \A b \in 1..Len(e.acts) : o.acts[b].status # "active"
  <2> TAKE b \in 1..Len(e.acts)
  <2>1. CASE b = act
    BY <2>1, <1>2, <1>3, <1>5
  <2>2. CASE b # act
    BY <2>2, <1>1, <1>3, <1>5, EntryFacts
  <2>3. QED
    BY <2>1, <2>2
<1>9. EntryInv(o)
  <2>1. OneActive(o)
    BY <1>1, <1>5, <1>6, <1>8 DEF OneActive
  <2>2. QED
    BY <2>1, <1>5, <1>6, <1>7, EntryFacts DEF EntryInv
<1>10. Kept(e, o)
  BY <1>1, <1>6, <1>7, EntryFacts DEF Kept
<1>11. QED
  BY <1>2, <1>3, <1>5, <1>6, <1>9, <1>10
-----------------------------------------------------------------------------
Steps == {"idle", "acknowledge", "stage", "project", "record", "reopen", "close"}
Work == {"enqueued", "projected", "degraded"}
Ctx == [act : Nat, epoch : Nat, turn : Nat, seq : Nat,
        disp : {"applied", "duplicate", "ambiguous", "superseded", "stale_turn"},
        state : {"none", "enqueued", "duplicate", "projected", "degraded"}]
Ev == [act : Nat, turn : Nat, seq : Nat]

(* The event of c is one of the first n of the outbox ob.                    *)
Listed(ob, n, c) == \E i \in 1..n : ob[i] = Event(c)

(* A Stop whose turn was acknowledged, by it or before.                      *)
Acked(e, c) == c.epoch = c.act /\ Reached(e, c.act, c.seq)

(* What a Stop knows at each of its steps.                                   *)
StopOK(e, n, ob, pub, step, c) ==
  /\ step = "acknowledge" => c.turn \in 1..n
  /\ step = "stage" /\ c.disp \in {"applied", "duplicate"} => Acked(e, c)
  /\ step \in {"project", "record"} => Acked(e, c) /\ Listed(ob, Len(ob), c)
  /\ step = "record" => c.state \in {"projected", "degraded"}
  /\ step = "record" /\ c.state = "projected" => Listed(ob, pub, c)
  /\ step = "close" => Listed(ob, pub, c)

(* What the entry says of the memory: a staged attempt is in the outbox, a    *)
(* projected one is shared, and the checkpoint is not ahead of the attempt.  *)
MemoryOK(e, ob, pub) ==
  /\ e.attempt.state = "none" => e.attempt = NoAttempt
  /\ e.attempt.state \in Work => Acked(e, e.attempt) /\ Listed(ob, Len(ob), e.attempt)
  /\ e.attempt.state = "projected" => Listed(ob, pub, e.attempt)
  /\ e.checkpoint = NoAttempt \/ Acked(e, e.checkpoint)
  /\ NotOlder(e.checkpoint, e.attempt)

OutboxOK(e, ob, pub) ==
  /\ ob \in Seq(Ev) /\ pub \in 0..Len(ob)
  /\ \A i \in 1..Len(ob) : Reached(e, ob[i].act, ob[i].seq)

Ordered(ob) == \A i, j \in 1..Len(ob) : i < j => Before(ob[i], ob[j]) /\ ob[i] # ob[j]

Shared(e, ob, pub) ==
  \A a \in 1..Len(e.acts) : e.acts[a].status = "done" =>
    \E i \in 1..pub : ob[i].act = a /\ ob[i].turn = e.acts[a].stop

StopInv ==
  /\ named \in BOOLEAN /\ turns \in 0..MaxTurns
  /\ EntryInv(entry) /\ StopIsNumbered(entry, turns)
  /\ OutboxOK(entry, outbox, published) /\ Ordered(outbox)
  /\ MemoryOK(entry, outbox, published) /\ Shared(entry, outbox, published)
  /\ pc \in [Stops -> Steps] /\ loc \in [Stops -> Ctx]
  /\ \A h \in Stops : StopOK(entry, turns, outbox, published, pc[h], loc[h])
-----------------------------------------------------------------------------
(* What is known stays known as the entry advances and the outbox grows.     *)
Grows(ob, pub, new, more) ==
  /\ Len(ob) \in Nat /\ Len(new) \in Nat /\ Len(ob) <= Len(new)
  /\ pub \in 0..Len(ob) /\ more \in 0..Len(new) /\ pub <= more
  /\ \A i \in 1..Len(ob) : new[i] = ob[i]

LEMMA KeptBySame ==
  ASSUME NEW e, EntryInv(e), NEW o, SameStops(e, o), Len(e.acts) <= Len(o.acts)
  PROVE  Kept(e, o)
BY EntryFacts DEF SameStops, Kept

LEMMA ReachedLater ==
  ASSUME NEW e, EntryInv(e), NEW o, EntryInv(o), Kept(e, o),
         NEW act, NEW seq \in Nat, Reached(e, act, seq)
  PROVE  Reached(o, act, seq)
<1>1. act \in 1..Len(e.acts) /\ Len(e.acts) \in Nat /\ Len(o.acts) \in Nat /\ act \in 1..Len(o.acts)
  BY EntryFacts DEF Reached, Kept
<1>2. /\ seq <= e.acts[act].stopSeq /\ e.acts[act].stopSeq <= o.acts[act].stopSeq
      /\ e.acts[act].stopSeq \in Nat /\ o.acts[act].stopSeq \in Nat
  BY <1>1, EntryFacts DEF Reached, Kept
<1>3. QED
  BY <1>1, <1>2 DEF Reached

LEMMA ListedLater ==
  ASSUME NEW ob, NEW pub, NEW new, NEW more, Grows(ob, pub, new, more), NEW c
  PROVE  /\ Listed(ob, Len(ob), c) => Listed(new, Len(new), c)
         /\ Listed(ob, pub, c) => Listed(new, more, c)
         /\ Listed(ob, pub, c) => Listed(ob, Len(ob), c)
BY DEF Grows, Listed

LEMMA StopLater ==
  ASSUME NEW e, EntryInv(e), NEW o, EntryInv(o), Kept(e, o), NEW n \in Nat, NEW m \in Nat, n <= m,
         NEW ob, NEW pub, NEW new, NEW more, Grows(ob, pub, new, more),
         NEW step, NEW c \in Ctx, StopOK(e, n, ob, pub, step, c)
  PROVE  StopOK(o, m, new, more, step, c)
<1>1. c.seq \in Nat
  BY DEF Ctx
<1>2. Acked(e, c) => Acked(o, c)
  BY <1>1, ReachedLater DEF Acked
<1>3. c.turn \in 1..n => c.turn \in 1..m
  BY DEF Ctx
<1>4. QED
  BY <1>2, <1>3, ListedLater DEF StopOK

LEMMA MemoryLater ==
  ASSUME NEW e, EntryInv(e), NEW o, EntryInv(o), Kept(e, o), SameMemory(e, o),
         NEW ob, NEW pub, NEW new, NEW more, Grows(ob, pub, new, more), MemoryOK(e, ob, pub)
  PROVE  MemoryOK(o, new, more)
<1>1. /\ e.attempt.seq \in Nat /\ e.checkpoint.seq \in Nat
      /\ o.attempt = e.attempt /\ o.checkpoint = e.checkpoint
  BY EntryFacts DEF Entry, Attempt, SameMemory
<1>2. \A x \in {e.attempt, e.checkpoint} : Acked(e, x) => Acked(o, x)
  BY <1>1, ReachedLater DEF Acked
<1>3. QED
  BY <1>1, <1>2, ListedLater DEF MemoryOK

LEMMA SharedLater ==
  ASSUME NEW e, NEW o, NoneClosed(e, o), NEW ob, NEW pub, NEW new, NEW more,
         Grows(ob, pub, new, more), Shared(e, ob, pub)
  PROVE  Shared(o, new, more)
<1>1. pub \in Nat /\ more \in Nat /\ \A i \in 1..pub : i \in 1..more /\ new[i] = ob[i]
  BY DEF Grows
<1>2. QED
  BY <1>1 DEF NoneClosed, Shared

LEMMA OutboxLater ==
  ASSUME NEW e, EntryInv(e), NEW o, EntryInv(o), Kept(e, o), NEW ob, NEW pub, NEW more \in 0..Len(ob),
         OutboxOK(e, ob, pub)
  PROVE  OutboxOK(o, ob, more)
<1>1. \A i \in 1..Len(ob) : ob[i].seq \in Nat /\ Reached(e, ob[i].act, ob[i].seq)
  <2>1. ob \in Seq(Ev) /\ \A i \in 1..Len(ob) : Reached(e, ob[i].act, ob[i].seq)
    BY DEF OutboxOK
  <2>2. \A i \in 1..Len(ob) : ob[i] \in Ev
    BY <2>1, ElementOfSeq
  <2>3. QED
    BY <2>1, <2>2 DEF Ev
<1>2. \A i \in 1..Len(ob) : Reached(o, ob[i].act, ob[i].seq)
  BY <1>1, ReachedLater
<1>3. QED
  BY <1>2 DEF OutboxOK

(* The same of the module's own variables: the outbox is left alone.         *)
EntryMoves ==
  /\ EntryInv(entry') /\ Kept(entry, entry')
  /\ StopIsNumbered(entry', turns')
  /\ turns' \in Nat /\ turns <= turns' /\ turns' <= MaxTurns
  /\ outbox' = outbox /\ published' \in 0..Len(outbox) /\ published <= published'
  /\ UNCHANGED named

LEMMA OutboxGrows ==
  ASSUME StopInv, NEW more \in 0..Len(outbox), published <= more
  PROVE  Grows(outbox, published, outbox, more)
<1>1. Len(outbox) \in Nat
  BY LenProperties DEF StopInv, OutboxOK
<1>2. QED
  BY <1>1 DEF Grows, StopInv, OutboxOK

(* Steps of the entry that neither close an activation nor touch its memory. *)
LEMMA EntryStep ==
  ASSUME StopInv, EntryMoves, NoneClosed(entry, entry'), SameMemory(entry, entry')
  PROVE  /\ named' \in BOOLEAN /\ turns' \in 0..MaxTurns
         /\ EntryInv(entry') /\ StopIsNumbered(entry', turns')
         /\ OutboxOK(entry', outbox', published') /\ Ordered(outbox')
         /\ MemoryOK(entry', outbox', published') /\ Shared(entry', outbox', published')
<1>1. Grows(outbox, published, outbox', published')
  BY OutboxGrows DEF EntryMoves
<1>2. OutboxOK(entry', outbox', published')
  BY OutboxLater DEF EntryMoves, StopInv
<1>3. MemoryOK(entry', outbox', published') /\ Shared(entry', outbox', published')
  BY <1>1, MemoryLater, SharedLater DEF EntryMoves, StopInv
<1>4. QED
  BY <1>2, <1>3 DEF EntryMoves, StopInv

Moves(h, step, c) == pc' = [pc EXCEPT ![h] = step] /\ loc' = [loc EXCEPT ![h] = c]

StopsOK == /\ pc \in [Stops -> Steps] /\ loc \in [Stops -> Ctx]
           /\ \A h \in Stops : StopOK(entry, turns, outbox, published, pc[h], loc[h])

(* One Stop moves, the others know what they knew.                           *)
LEMMA OneMoves ==
  ASSUME StopInv, EntryInv(entry'), Kept(entry, entry'), turns' \in Nat, turns <= turns',
         Grows(outbox, published, outbox', published'),
         NEW h \in Stops, NEW step \in Steps, NEW c \in Ctx, Moves(h, step, c),
         StopOK(entry', turns', outbox', published', step, c)
  PROVE  StopsOK'
<1>1. pc' \in [Stops -> Steps] /\ loc' \in [Stops -> Ctx]
  BY DEF Moves, StopInv
<1>2. \A g \in Stops : g # h => StopOK(entry', turns', outbox', published', pc[g], loc[g])
  BY StopLater DEF StopInv
<1>3. \A g \in Stops : StopOK(entry', turns', outbox', published', pc'[g], loc'[g])
  BY <1>2 DEF Moves, StopInv
<1>4. QED
  BY <1>1, <1>3 DEF StopsOK

LEMMA NoneMove ==
  ASSUME StopInv, EntryInv(entry'), Kept(entry, entry'), turns' \in Nat, turns <= turns',
         Grows(outbox, published, outbox', published'), UNCHANGED stops
  PROVE  StopsOK'
<1>1. \A g \in Stops : StopOK(entry', turns', outbox', published', pc[g], loc[g])
  BY StopLater DEF StopInv
<1>2. QED
  BY <1>1 DEF stops, StopsOK, StopInv
-----------------------------------------------------------------------------
(* What a step may do to the memory the entry tells of.                      *)
Forward(e, o) ==
  /\ e.attempt.state # "skipped" => NotOlder(e.attempt, o.attempt)
  /\ o.checkpoint # NoAttempt => NotOlder(e.checkpoint, o.checkpoint)

LEMMA ForwardSame ==
  ASSUME NEW e, EntryInv(e), NEW o, SameMemory(e, o)
  PROVE  Forward(e, o)
<1>1. /\ e.attempt.seq \in Nat /\ e.checkpoint.seq \in Nat
      /\ o.attempt = e.attempt /\ o.checkpoint = e.checkpoint
  BY EntryFacts DEF Entry, Attempt, SameMemory
<1>2. QED
  BY <1>1 DEF Forward, NotOlder

LEMMA StopInvParts ==
  ASSUME StopInv
  PROVE  /\ EntryInv(entry) /\ turns \in Nat /\ turns <= MaxTurns /\ MaxTurns \in Nat
         /\ StopIsNumbered(entry, turns) /\ Len(outbox) \in Nat /\ published \in 0..Len(outbox)
         /\ pc \in [Stops -> Steps] /\ loc \in [Stops -> Ctx]
<1>1. Len(outbox) \in Nat
  BY LenProperties DEF StopInv, OutboxOK
<1>2. QED
  BY <1>1, TurnAssumption DEF StopInv, OutboxOK

(* Only the status, or the last turn, is written.                            *)
Marked(e, o) ==
  /\ EntryInv(o) /\ SameStops(e, o) /\ SameMemory(e, o) /\ NoneClosed(e, o) /\ Kept(e, o)
  /\ o.acts = e.acts /\ o.active = e.active
  /\ \A n : StopIsNumbered(e, n) => StopIsNumbered(o, n)

LEMMA StatusEntry ==
  ASSUME NEW e, EntryInv(e), NEW st \in {"absent", "active", "done"}, NEW t \in Nat,
         NEW o, o = [e EXCEPT !.status = st] \/ o = [e EXCEPT !.status = st, !.lastTurn = t]
  PROVE  Marked(e, o)
<1>1. /\ o \in Entry /\ o.acts = e.acts /\ o.active = e.active /\ o.seqs = e.seqs
      /\ o.last = e.last /\ o.attempt = e.attempt /\ o.checkpoint = e.checkpoint
  BY DEF EntryInv, Entry
<1>2. EntryInv(o)
  BY <1>1 DEF EntryInv, OneActive
<1>3. \A n : StopIsNumbered(e, n) => StopIsNumbered(o, n)
  BY <1>1 DEF StopIsNumbered, SequenceOf
<1>4. SameStops(e, o) /\ SameMemory(e, o) /\ NoneClosed(e, o)
  BY <1>1 DEF SameStops, SameMemory, NoneClosed
<1>5. Kept(e, o)
  BY <1>1, <1>4, EntryFacts DEF Kept, SameStops
<1>6. QED
  BY <1>1, <1>2, <1>3, <1>4, <1>5 DEF Marked

LEMMA StatusOnly ==
  ASSUME NEW e, EntryInv(e), NEW st \in {"absent", "active", "done"},
         NEW o, o = [e EXCEPT !.status = st]
  PROVE  Marked(e, o)
<1>1. 0 \in Nat
  OBVIOUS
<1>2. QED
  BY <1>1, StatusEntry

LEMMA AdvanceNumbered ==
  ASSUME NEW e, EntryInv(e), NEW n \in 0..MaxTurns, StopIsNumbered(e, n), NEW m \in Nat, n <= m,
         NEW t \in 0..MaxTurns, Known(e, t) \/ t = 0 \/ t > n, NEW o, o = Advance(e, t)
  PROVE  StopIsNumbered(o, m)
<1>1. CASE Known(e, t)
  <2>1. o = e
    BY <1>1, AdvanceEntry
  <2>2. QED
    BY <2>1 DEF StopIsNumbered
<1>2. CASE t = 0 \/ t > n
  <2>1. /\ SameStops(e, o) /\ Len(e.acts) <= Len(o.acts)
        /\ o.active = e.active \/ (o.active # 0 /\ o.acts[o.active].stop = 0)
        /\ \A u \in Turn : u # t => o.seqs[u] = e.seqs[u]
    BY AdvanceEntry
  <2>2. SUFFICES ASSUME o.active # 0, o.acts[o.active].stop # 0
                 PROVE  /\ o.acts[o.active].stop \in 1..m
                        /\ o.acts[o.active].stopSeq = SequenceOf(o, o.acts[o.active].stop)
    BY DEF StopIsNumbered
  <2>3. o.active = e.active /\ e.active \in 1..Len(e.acts)
    BY <2>1, <2>2, EntryFacts
  <2>4. /\ o.acts[o.active].stop = e.acts[e.active].stop
        /\ o.acts[o.active].stopSeq = e.acts[e.active].stopSeq
    BY <2>1, <2>3 DEF SameStops
  <2>5. PICK u : u = e.acts[e.active].stop
    OBVIOUS
  <2>6. u \in 1..n /\ e.acts[e.active].stopSeq = SequenceOf(e, u)
    BY <2>2, <2>3, <2>4, <2>5 DEF StopIsNumbered
  <2>7. u \in 1..m /\ u \in Turn /\ u # t
    BY <2>6, <1>2, TurnAssumption DEF Turn
  <2>8. SequenceOf(o, u) = SequenceOf(e, u)
    BY <2>1, <2>7 DEF SequenceOf
  <2>9. QED
    BY <2>4, <2>5, <2>6, <2>7, <2>8
<1>3. QED
  BY <1>1, <1>2

(* The other hooks.                                                          *)
LEMMA HookMoves ==
  ASSUME StopInv, EntryMoves, NoneClosed(entry, entry'), SameMemory(entry, entry'), UNCHANGED stops
  PROVE  StopInv' /\ Forward(entry, entry')
<1>1. EntryInv(entry) /\ turns \in Nat /\ EntryInv(entry')
  BY StopInvParts DEF EntryMoves
<1>2. Grows(outbox, published, outbox', published')
  BY OutboxGrows DEF EntryMoves
<1>3. StopsOK'
  BY <1>1, <1>2, NoneMove DEF EntryMoves
<1>4. QED
  BY <1>1, <1>3, EntryStep, ForwardSame DEF StopsOK, StopInv

LEMMA StartStep == ASSUME StopInv, SessionStart PROVE StopInv' /\ Forward(entry, entry')
<1>1. PICK f : f = Open(entry)
  OBVIOUS
<1>2. /\ EntryInv(entry) /\ turns \in Nat /\ turns <= MaxTurns /\ published \in 0..Len(outbox)
      /\ Len(outbox) \in Nat
  BY StopInvParts
<1>3. /\ EntryInv(f) /\ NoneClosed(entry, f) /\ SameMemory(entry, f) /\ SameStops(entry, f)
      /\ Len(f.acts) = Len(entry.acts) + 1 /\ f.active = Len(f.acts) /\ f.acts[f.active].stop = 0
  BY <1>1, <1>2, OpenEntry
<1>4. entry' = [f EXCEPT !.status = "active"]
  BY <1>1 DEF SessionStart
<1>5. /\ EntryInv(entry') /\ SameMemory(f, entry') /\ SameStops(f, entry') /\ NoneClosed(f, entry')
      /\ entry'.acts = f.acts /\ entry'.active = f.active
  BY <1>3, <1>4, StatusOnly DEF Marked
<1>6. SameMemory(entry, entry') /\ NoneClosed(entry, entry')
  BY <1>3, <1>5 DEF SameMemory, NoneClosed
<1>7. SameStops(entry, entry') /\ Len(entry.acts) <= Len(entry'.acts)
  BY <1>2, <1>3, <1>5, EntryFacts DEF SameStops
<1>8. StopIsNumbered(entry', turns)
  BY <1>3, <1>5 DEF StopIsNumbered
<1>9. EntryMoves
  <2>1. turns' = turns /\ named' = named /\ outbox' = outbox /\ published' = published
    BY DEF SessionStart, host
  <2>2. Kept(entry, entry')
    BY <1>2, <1>7, KeptBySame
  <2>3. QED
    BY <1>2, <1>5, <1>8, <2>1, <2>2 DEF EntryMoves
<1>10. QED
  BY <1>6, <1>9, HookMoves DEF SessionStart

LEMMA PromptStep == ASSUME StopInv, Prompt PROVE StopInv' /\ Forward(entry, entry')
<1>1. /\ EntryInv(entry) /\ turns \in 0..MaxTurns /\ turns \in Nat /\ published \in 0..Len(outbox)
      /\ StopIsNumbered(entry, turns) /\ Len(outbox) \in Nat
  BY StopInvParts
<1>2. PICK t \in 1..turns + 1 :
        /\ t \in Turn /\ (t > turns \/ (named /\ entry.seqs[t] # 0))
        /\ turns' = Maximum(turns, t)
        /\ entry' = [Advance(entry, IF named THEN t ELSE 0) EXCEPT !.status = "active"]
  BY DEF Prompt
<1>3. PICK k \in 0..MaxTurns : k = IF named THEN t ELSE 0
  BY <1>2, TurnAssumption DEF Turn
<1>4. PICK f : f = Advance(entry, k)
  OBVIOUS
<1>5. turns' \in Nat /\ turns <= turns' /\ turns' <= MaxTurns
  BY <1>1, <1>2, TurnAssumption DEF Maximum, Turn
<1>6. Known(entry, k) \/ k = 0 \/ k > turns
  BY <1>2, <1>3 DEF Known
<1>7. /\ EntryInv(f) /\ SameStops(entry, f) /\ SameMemory(entry, f) /\ NoneClosed(entry, f)
      /\ Len(entry.acts) <= Len(f.acts)
  BY <1>1, <1>4, AdvanceEntry
<1>8. StopIsNumbered(f, turns')
  BY <1>1, <1>4, <1>5, <1>6, AdvanceNumbered
<1>9. entry' = [f EXCEPT !.status = "active"]
  BY <1>2, <1>3, <1>4
<1>10. /\ EntryInv(entry') /\ SameMemory(f, entry') /\ SameStops(f, entry') /\ NoneClosed(f, entry')
       /\ entry'.acts = f.acts /\ StopIsNumbered(entry', turns')
  BY <1>7, <1>8, <1>9, StatusOnly DEF Marked
<1>11. SameMemory(entry, entry') /\ NoneClosed(entry, entry')
  BY <1>7, <1>10 DEF SameMemory, NoneClosed
<1>12. SameStops(entry, entry') /\ Len(entry.acts) <= Len(entry'.acts)
  BY <1>7, <1>10 DEF SameStops
<1>13. EntryMoves
  <2>1. named' = named /\ outbox' = outbox /\ published' = published
    BY DEF Prompt
  <2>2. Kept(entry, entry')
    BY <1>1, <1>12, KeptBySame
  <2>3. QED
    BY <1>1, <1>5, <1>10, <2>1, <2>2 DEF EntryMoves
<1>14. QED
  BY <1>11, <1>13, HookMoves DEF Prompt

LEMMA KeptSelf == ASSUME NEW e, EntryInv(e) PROVE Kept(e, e) /\ NoneClosed(e, e) /\ SameMemory(e, e)
<1>1. Kept(e, e)
  BY EntryFacts DEF Kept
<1>2. QED
  BY <1>1 DEF NoneClosed, SameMemory

LEMMA SweepStep == ASSUME StopInv, Sweep PROVE StopInv' /\ Forward(entry, entry')
<1>1. /\ EntryInv(entry) /\ turns \in Nat /\ turns <= MaxTurns /\ published \in 0..Len(outbox)
      /\ StopIsNumbered(entry, turns) /\ Len(outbox) \in Nat
  BY StopInvParts
<1>2. Marked(entry, entry')
  BY <1>1, StatusOnly DEF Sweep
<1>3. turns' = turns /\ named' = named /\ outbox' = outbox /\ published' = published
  BY DEF Sweep, host
<1>4. EntryMoves
  BY <1>1, <1>2, <1>3 DEF Marked, EntryMoves
<1>5. QED
  BY <1>2, <1>4, HookMoves DEF Sweep, Marked

LEMMA QuietStep ==
  ASSUME StopInv, PromptLost \/ OthersProject
  PROVE  StopInv' /\ Forward(entry, entry')
<1>1. /\ EntryInv(entry) /\ turns \in Nat /\ turns <= MaxTurns /\ published \in 0..Len(outbox)
      /\ StopIsNumbered(entry, turns) /\ Len(outbox) \in Nat /\ MaxTurns \in Nat
  BY StopInvParts
<1>2. entry' = entry /\ UNCHANGED stops /\ outbox' = outbox /\ UNCHANGED named
  BY DEF PromptLost, OthersProject, host
<1>3. turns' \in Nat /\ turns <= turns' /\ turns' <= MaxTurns
  BY <1>1 DEF PromptLost, OthersProject, host
<1>4. published' \in 0..Len(outbox) /\ published <= published'
  BY <1>1 DEF PromptLost, OthersProject
<1>5. StopIsNumbered(entry', turns')
  BY <1>1, <1>2, <1>3 DEF StopIsNumbered
<1>6. Kept(entry, entry') /\ NoneClosed(entry, entry') /\ SameMemory(entry, entry')
  BY <1>1, <1>2, KeptSelf
<1>7. EntryInv(entry')
  BY <1>1, <1>2
<1>8. EntryMoves
  BY <1>2, <1>3, <1>4, <1>5, <1>6, <1>7 DEF EntryMoves
<1>9. QED
  BY <1>2, <1>6, <1>8, HookMoves
-----------------------------------------------------------------------------
(* A Stop's step that leaves the memory of the entry alone.                  *)
LEMMA StopMoves ==
  ASSUME StopInv, EntryMoves, NoneClosed(entry, entry'), SameMemory(entry, entry'),
         NEW h \in Stops, NEW step \in Steps, NEW c \in Ctx, Moves(h, step, c),
         StopOK(entry', turns', outbox', published', step, c)
  PROVE  StopInv' /\ Forward(entry, entry')
<1>1. EntryInv(entry) /\ turns \in Nat /\ EntryInv(entry')
  BY StopInvParts DEF EntryMoves
<1>2. Grows(outbox, published, outbox', published')
  BY OutboxGrows DEF EntryMoves
<1>3. StopsOK'
  BY <1>1, <1>2, OneMoves DEF EntryMoves
<1>4. QED
  BY <1>1, <1>3, EntryStep, ForwardSame DEF StopsOK, StopInv

LEMMA SameMoves ==
  ASSUME StopInv, UNCHANGED <<host, entry, outbox>>, published' \in 0..Len(outbox), published <= published'
  PROVE  EntryMoves /\ NoneClosed(entry, entry') /\ SameMemory(entry, entry')
<1>1. /\ EntryInv(entry) /\ turns \in Nat /\ turns <= MaxTurns /\ StopIsNumbered(entry, turns)
  BY StopInvParts
<1>2. named' = named /\ turns' = turns /\ entry' = entry /\ outbox' = outbox
  BY DEF host
<1>3. Kept(entry, entry') /\ NoneClosed(entry, entry') /\ SameMemory(entry, entry')
  BY <1>1, <1>2, KeptSelf
<1>4. QED
  BY <1>1, <1>2, <1>3 DEF EntryMoves

LEMMA ReturnOK ==
  ASSUME NEW h, Return(h), NEW e, NEW n, NEW ob, NEW pub
  PROVE  Moves(h, "idle", NoContext) /\ NoContext \in Ctx /\ StopOK(e, n, ob, pub, "idle", NoContext)
BY DEF Return, Moves, NoContext, Ctx, StopOK

LEMMA BeginStep ==
  ASSUME StopInv, NEW h \in Stops, Begin(h)
  PROVE  StopInv' /\ Forward(entry, entry')
<1>1. /\ EntryInv(entry) /\ turns \in Nat /\ published \in 0..Len(outbox) /\ Len(outbox) \in Nat
  BY StopInvParts
<1>2. PICK t \in IF named THEN 1..turns ELSE {turns} \ {0} :
        loc' = [loc EXCEPT ![h] = [NoContext EXCEPT !.turn = t, !.epoch = Epoch(entry)]]
  BY DEF Begin
<1> DEFINE c == [NoContext EXCEPT !.turn = t, !.epoch = Epoch(entry)]
<1>3. c \in Ctx /\ c.turn \in 1..turns
  <2>1. t \in 1..turns /\ t \in Nat
    BY <1>1, <1>2
  <2>2. Epoch(entry) \in Nat
    BY <1>1, EntryFacts DEF Epoch
  <2>3. QED
    BY <2>1, <2>2 DEF NoContext, Ctx
<1>9. Moves(h, "acknowledge", c)
  BY <1>2 DEF Moves, Begin
<1> HIDE DEF c
<1>4. StopOK(entry', turns', outbox', published', "acknowledge", c)
  BY <1>3 DEF StopOK, Begin, host
<1>5. published' = published /\ published <= published'
  BY <1>1 DEF Begin
<1>6. EntryMoves /\ NoneClosed(entry, entry') /\ SameMemory(entry, entry')
  BY <1>1, <1>5, SameMoves DEF Begin
<1>7. "acknowledge" \in Steps
  BY DEF Steps
<1>8. QED
  BY <1>3, <1>4, <1>6, <1>7, <1>9, StopMoves

LEMMA UnprovenStep ==
  ASSUME StopInv, NEW h \in Stops, Unproven(h)
  PROVE  StopInv' /\ Forward(entry, entry')
<1>1. /\ EntryInv(entry) /\ turns \in Nat /\ published \in 0..Len(outbox) /\ Len(outbox) \in Nat
  BY StopInvParts
<1>2. PICK k \in Nat : k = IF entry.active # 0 THEN entry.active ELSE Epoch(entry)
  BY <1>1, EntryFacts DEF Epoch
<1> DEFINE c == [NoContext EXCEPT !.turn = turns + 1, !.act = entry.active, !.seq = entry.last,
                                  !.epoch = k, !.disp = "ambiguous"]
<1>3. c \in Ctx /\ c.disp = "ambiguous"
  <2>1. turns + 1 \in Nat /\ entry.active \in Nat /\ entry.last \in Nat /\ k \in Nat
    BY <1>1, <1>2, EntryFacts
  <2>2. QED
    BY <2>1 DEF NoContext, Ctx
<1>7. Moves(h, "stage", c)
  BY <1>2 DEF Moves, Unproven
<1> HIDE DEF c
<1>4. StopOK(entry', turns', outbox', published', "stage", c)
  BY <1>3 DEF StopOK
<1>5. published' = published /\ published <= published'
  BY <1>1 DEF Unproven
<1>6. EntryMoves /\ NoneClosed(entry, entry') /\ SameMemory(entry, entry')
  BY <1>1, <1>5, SameMoves DEF Unproven
<1>8. "stage" \in Steps
  BY DEF Steps
<1>9. QED
  BY <1>3, <1>4, <1>6, <1>7, <1>8, StopMoves

LEMMA DieStep ==
  ASSUME StopInv, NEW h \in Stops, Die(h)
  PROVE  StopInv' /\ Forward(entry, entry')
<1>1. published \in 0..Len(outbox) /\ Len(outbox) \in Nat
  BY StopInvParts
<1>2. published' = published /\ published <= published'
  BY <1>1 DEF Die
<1>3. EntryMoves /\ NoneClosed(entry, entry') /\ SameMemory(entry, entry')
  BY <1>1, <1>2, SameMoves DEF Die
<1>4. /\ Moves(h, "idle", NoContext) /\ NoContext \in Ctx /\ "idle" \in Steps
      /\ StopOK(entry', turns', outbox', published', "idle", NoContext)
  BY ReturnOK DEF Die, Steps
<1>5. QED
  BY <1>3, <1>4, StopMoves

LEMMA ReopenStep ==
  ASSUME StopInv, NEW h \in Stops, Reopen(h)
  PROVE  StopInv' /\ Forward(entry, entry')
<1>1. /\ EntryInv(entry) /\ turns \in Nat /\ turns <= MaxTurns /\ published \in 0..Len(outbox)
      /\ StopIsNumbered(entry, turns) /\ Len(outbox) \in Nat /\ entry.lastTurn \in Nat
      /\ loc[h].turn \in Nat
  BY StopInvParts, EntryFacts DEF Ctx
<1>2. PICK t \in {entry.lastTurn} \cup 1..loc[h].turn :
        entry' = [entry EXCEPT !.status = "active", !.lastTurn = t]
  BY DEF Reopen
<1>3. t \in Nat
  BY <1>1
<1>4. Marked(entry, entry')
  BY <1>1, <1>2, <1>3, StatusEntry
<1>5. turns' = turns /\ named' = named /\ outbox' = outbox /\ published' = published
  BY DEF Reopen, host
<1>6. EntryMoves
  BY <1>1, <1>4, <1>5 DEF Marked, EntryMoves
<1>7. /\ Moves(h, "idle", NoContext) /\ NoContext \in Ctx /\ "idle" \in Steps
      /\ StopOK(entry', turns', outbox', published', "idle", NoContext)
  BY ReturnOK DEF Reopen, Steps
<1>8. QED
  BY <1>4, <1>6, <1>7, StopMoves DEF Marked

LEMMA StateType ==
  ASSUME NEW c \in Ctx, NEW s \in {"none", "enqueued", "duplicate", "projected", "degraded"}
  PROVE  LET d == [c EXCEPT !.state = s] IN
           /\ d \in Ctx /\ d.state = s
           /\ d.act = c.act /\ d.epoch = c.epoch /\ d.turn = c.turn /\ d.seq = c.seq
BY DEF Ctx

LEMMA ProjectMoves ==
  ASSUME StopInv, NEW h \in Stops, ProjectStep(h)
  PROVE  StopInv' /\ Forward(entry, entry')
<1>1. /\ published \in 0..Len(outbox) /\ Len(outbox) \in Nat /\ loc[h] \in Ctx
      /\ StopOK(entry, turns, outbox, published, "project", loc[h])
  BY StopInvParts DEF StopInv, ProjectStep
<1>2. PICK s \in {"projected", "degraded"} :
        /\ loc' = [loc EXCEPT ![h].state = s]
        /\ published' = IF s = "projected" THEN Len(outbox) ELSE published
  BY DEF ProjectStep
<1>3. published' \in 0..Len(outbox) /\ published <= published'
  BY <1>1, <1>2
<1>4. EntryMoves /\ NoneClosed(entry, entry') /\ SameMemory(entry, entry')
  BY <1>3, SameMoves DEF ProjectStep
<1> DEFINE c == [loc[h] EXCEPT !.state = s]
<1>5. /\ c \in Ctx /\ c.state = s
      /\ c.act = loc[h].act /\ c.epoch = loc[h].epoch /\ c.turn = loc[h].turn /\ c.seq = loc[h].seq
  <2>1. s \in {"none", "enqueued", "duplicate", "projected", "degraded"} /\ loc[h] \in Ctx
    BY <1>1
  <2>2. QED
    BY <2>1, StateType
<1>9. Moves(h, "record", c)
  BY <1>2 DEF Moves, ProjectStep
<1> HIDE DEF c
<1>6. Acked(entry, c) /\ Listed(outbox, Len(outbox), c)
  BY <1>1, <1>5 DEF StopOK, Acked, Listed, Event
<1>7. s = "projected" => Listed(outbox, published', c)
  BY <1>2, <1>6
<1>8. StopOK(entry', turns', outbox', published', "record", c)
  BY <1>5, <1>6, <1>7 DEF StopOK, ProjectStep
<1>10. "record" \in Steps
  BY DEF Steps
<1>11. QED
  BY <1>4, <1>5, <1>8, <1>9, <1>10, StopMoves

LEMMA CloseMoves ==
  ASSUME StopInv, NEW h \in Stops, CloseStep(h)
  PROVE  StopInv' /\ Forward(entry, entry')
<1>1. /\ EntryInv(entry) /\ turns \in Nat /\ turns <= MaxTurns /\ published \in 0..Len(outbox)
      /\ StopIsNumbered(entry, turns) /\ Len(outbox) \in Nat /\ loc[h].turn \in Nat
      /\ StopOK(entry, turns, outbox, published, "close", loc[h])
  BY StopInvParts DEF Ctx, StopInv, CloseStep
<1>2. /\ Moves(h, "idle", NoContext) /\ NoContext \in Ctx /\ "idle" \in Steps
      /\ StopOK(entry', turns', outbox', published', "idle", NoContext)
  BY ReturnOK DEF CloseStep, Steps
<1>3. turns' = turns /\ named' = named /\ outbox' = outbox /\ published' = published
  BY DEF CloseStep, host
<1>4. CASE ~CanClose(entry, loc[h].act)
  <2>1. entry' = entry
    BY <1>4 DEF CloseStep
  <2>2. EntryMoves /\ NoneClosed(entry, entry') /\ SameMemory(entry, entry')
    BY <2>1, <1>1, <1>3, SameMoves DEF CloseStep
  <2>3. QED
    BY <1>2, <2>2, StopMoves
<1>5. CASE CanClose(entry, loc[h].act)
  <2> DEFINE act == loc[h].act
  <2>1. entry' = Close(entry, act, loc[h].turn)
    BY <1>5 DEF CloseStep
  <2>2. /\ EntryInv(entry') /\ Kept(entry, entry') /\ SameMemory(entry, entry') /\ entry'.active = 0
        /\ Len(entry'.acts) = Len(entry.acts) /\ entry'.acts[act].stop = loc[h].turn
        /\ \A a \in 1..Len(entry'.acts) : a # act => entry'.acts[a] = entry.acts[a]
    BY <1>1, <1>5, <2>1, CloseEntry
  <2>3. EntryMoves
    BY <1>1, <1>3, <2>2 DEF EntryMoves, StopIsNumbered
  <2>4. Grows(outbox, published, outbox', published')
    BY <2>3, OutboxGrows DEF EntryMoves
  <2>5. StopsOK'
    BY <1>1, <1>2, <2>3, <2>4, OneMoves DEF EntryMoves
  <2>6. OutboxOK(entry', outbox', published')
    BY <2>3, OutboxLater DEF EntryMoves, StopInv
  <2>7. MemoryOK(entry', outbox', published')
    BY <2>2, <2>4, MemoryLater DEF StopInv
  <2>8. Shared(entry', outbox', published')
    <3>1. Listed(outbox, published, loc[h])
      BY <1>1 DEF StopOK
    <3>2. PICK i \in 1..published : outbox[i].act = act /\ outbox[i].turn = loc[h].turn
      BY <3>1 DEF Listed, Event
    <3>3. Shared(entry, outbox, published)
      BY DEF StopInv
    <3>4. QED
      BY <1>3, <2>2, <3>2, <3>3 DEF Shared
  <2>9. Forward(entry, entry')
    BY <1>1, <2>2, ForwardSame
  <2>10. QED
    BY <1>3, <2>3, <2>5, <2>6, <2>7, <2>8, <2>9 DEF EntryMoves, StopsOK, StopInv
<1>6. QED
  BY <1>4, <1>5
-----------------------------------------------------------------------------
(* The acknowledgement: a turn acknowledged by this Stop, or by another one,  *)
(* has its sequence in its activation.                                       *)
LEMMA AckEntry ==
  ASSUME NEW e, EntryInv(e), NEW n \in 0..MaxTurns, StopIsNumbered(e, n), NEW t \in 1..n,
         NEW q, q = SequenceOf(e, t), NEW act, act = StopActivation(e),
         NEW d, d = Disposed(e, act, t, q),
         NEW o, o = IF d = "applied" THEN Acknowledge(e, act, t, q) ELSE e
  PROVE  /\ EntryInv(o) /\ Kept(e, o) /\ NoneClosed(e, o) /\ SameMemory(e, o)
         /\ StopIsNumbered(o, n) /\ q \in Nat /\ act \in Nat
         /\ d \in {"applied", "duplicate", "ambiguous", "superseded", "stale_turn"}
         /\ d \in {"applied", "duplicate"} => act # 0 /\ Reached(o, act, q)
<1>1. t \in Turn /\ t \in Nat
  BY TurnAssumption DEF Turn
<1>2. q \in Nat
  BY <1>1, EntryFacts DEF SequenceOf
<1>3. act \in Nat /\ (act # 0 => act = e.active /\ act \in 1..Len(e.acts)) /\ e.last \in Nat
  BY EntryFacts DEF StopActivation, IsOpen
<1>4. /\ d \in {"applied", "duplicate", "ambiguous", "superseded", "stale_turn"}
      /\ d \in {"applied", "duplicate"} => act # 0
      /\ d = "duplicate" => e.acts[act].stop = t
      /\ d = "applied" => ~(q < e.last)
  BY DEF Disposed
<1>5. CASE d = "applied"
  <2>1. /\ EntryInv(o) /\ Kept(e, o) /\ NoneClosed(e, o) /\ SameMemory(e, o)
        /\ Len(o.acts) = Len(e.acts) /\ o.active = act /\ o.seqs = e.seqs
        /\ act \in 1..Len(o.acts) /\ o.acts[act].stop = t /\ o.acts[act].stopSeq = q
    <3>1. e.last <= q /\ o = Acknowledge(e, act, t, q) /\ act # 0 /\ act = e.active
      BY <1>2, <1>3, <1>4, <1>5
    <3>2. QED
      BY <1>1, <1>2, <3>1, AcknowledgeEntry
  <2>2. StopIsNumbered(o, n)
    BY <2>1 DEF StopIsNumbered, SequenceOf
  <2>3. Reached(o, act, q)
    BY <2>1, <1>2 DEF Reached
  <2>4. QED
    BY <1>2, <1>3, <1>4, <2>1, <2>2, <2>3
<1>6. CASE d # "applied"
  <2>1. o = e
    BY <1>6
  <2>2. d = "duplicate" => Reached(e, act, q)
    <3>1. SUFFICES ASSUME d = "duplicate" PROVE Reached(e, act, q)
      OBVIOUS
    <3>2. e.acts[act].stop = t /\ act = e.active /\ act \in 1..Len(e.acts) /\ e.active # 0
      BY <1>3, <1>4, <3>1
    <3>3. e.acts[act].stopSeq = q
      BY <3>2, <1>1 DEF StopIsNumbered
    <3>4. QED
      BY <1>2, <3>2, <3>3 DEF Reached
  <2>3. Kept(e, e) /\ NoneClosed(e, e) /\ SameMemory(e, e)
    BY KeptSelf
  <2>4. QED
    BY <1>2, <1>3, <1>4, <1>6, <2>1, <2>2, <2>3
<1>7. QED
  BY <1>5, <1>6

LEMMA AckMoves ==
  ASSUME StopInv, NEW h \in Stops, AckStep(h)
  PROVE  StopInv' /\ Forward(entry, entry')
<1>1. /\ EntryInv(entry) /\ turns \in 0..MaxTurns /\ turns \in Nat /\ turns <= MaxTurns
      /\ published \in 0..Len(outbox) /\ StopIsNumbered(entry, turns) /\ Len(outbox) \in Nat
      /\ loc[h] \in Ctx /\ StopOK(entry, turns, outbox, published, "acknowledge", loc[h])
  BY StopInvParts DEF StopInv, AckStep
<1>2. PICK t \in 1..turns : t = loc[h].turn
  BY <1>1 DEF StopOK
<1>3. PICK act, q, d :
        act = StopActivation(entry) /\ q = SequenceOf(entry, t) /\ d = Disposed(entry, act, t, q)
  OBVIOUS
<1>4. entry' = IF d = "applied" THEN Acknowledge(entry, act, t, q) ELSE entry
  BY <1>2, <1>3 DEF AckStep
<1>5. /\ EntryInv(entry') /\ Kept(entry, entry') /\ NoneClosed(entry, entry')
      /\ SameMemory(entry, entry') /\ StopIsNumbered(entry', turns) /\ q \in Nat /\ act \in Nat
      /\ d \in {"applied", "duplicate", "ambiguous", "superseded", "stale_turn"}
      /\ d \in {"applied", "duplicate"} => act # 0 /\ Reached(entry', act, q)
  BY <1>1, <1>3, <1>4, AckEntry
<1>6. turns' = turns /\ named' = named /\ outbox' = outbox /\ published' = published
  BY DEF AckStep, host
<1>7. EntryMoves
  BY <1>1, <1>5, <1>6 DEF EntryMoves
<1> DEFINE c == [loc[h] EXCEPT !.act = act, !.seq = q, !.disp = d,
                               !.epoch = IF act # 0 THEN act ELSE loc[h].epoch]
<1>8. c \in Ctx /\ c.disp = d /\ c.act = act /\ c.seq = q /\ (act # 0 => c.epoch = act)
  BY <1>1, <1>5 DEF Ctx
<1>9. Moves(h, "stage", c)
  <2>1. act = StopActivation(entry) /\ q = SequenceOf(entry, loc[h].turn)
        /\ d = Disposed(entry, act, loc[h].turn, q)
    BY <1>2, <1>3
  <2>2. loc' = [loc EXCEPT ![h] = c]
    BY <2>1 DEF AckStep
  <2>3. QED
    BY <2>2 DEF Moves, AckStep
<1> HIDE DEF c
<1>10. StopOK(entry', turns', outbox', published', "stage", c)
  BY <1>5, <1>8 DEF StopOK, Acked
<1>11. "stage" \in Steps
  BY DEF Steps
<1>12. QED
  BY <1>5, <1>7, <1>8, <1>9, <1>10, <1>11, StopMoves
-----------------------------------------------------------------------------
(* The staging. What was acknowledged before the turn of a Stop that may      *)
(* stage is not after it.                                                    *)
LEMMA Newest ==
  ASSUME NEW e, EntryInv(e), NEW c \in Ctx, Causal(e, c) = "applied", Acked(e, c),
         NEW act, NEW seq \in Nat, Reached(e, act, seq)
  PROVE  act < c.act \/ (act = c.act /\ seq <= c.seq)
<1>1. e.active = c.act /\ c.act # 0 /\ ~(StopSeqOf(e, c.act) > c.seq)
  BY DEF Causal
<1>2. act \in 1..Len(e.acts) /\ c.act = Len(e.acts) /\ Len(e.acts) \in Nat /\ c.seq \in Nat
  BY <1>1, EntryFacts DEF Reached, Ctx
<1>3. CASE act = c.act
  <2>1. e.acts[act].stopSeq \in Nat /\ seq <= e.acts[act].stopSeq
    BY <1>2, EntryFacts DEF Reached
  <2>2. e.acts[act].stopSeq # 0 => StopSeqOf(e, c.act) = e.acts[act].stopSeq
    BY <1>3 DEF StopSeqOf
  <2>3. QED
    BY <1>1, <1>2, <1>3, <2>1, <2>2
<1>4. QED
  BY <1>2, <1>3

(* The attempt, or the checkpoint with it, is written.                       *)
WithMemory(e, a, k) == [e EXCEPT !.attempt = a, !.checkpoint = k]

LEMMA MemoryEntry ==
  ASSUME NEW e, EntryInv(e), NEW a \in Attempt, NEW k \in Attempt, NEW o, o = WithMemory(e, a, k)
  PROVE  /\ EntryInv(o) /\ Kept(e, o) /\ NoneClosed(e, o)
         /\ o.acts = e.acts /\ o.attempt = a /\ o.checkpoint = k
         /\ \A n : StopIsNumbered(e, n) => StopIsNumbered(o, n)
         /\ \A x : Acked(e, x) <=> Acked(o, x)
<1>1. /\ o \in Entry /\ o.acts = e.acts /\ o.active = e.active /\ o.seqs = e.seqs
      /\ o.last = e.last /\ o.attempt = a /\ o.checkpoint = k
  BY DEF EntryInv, Entry, WithMemory
<1>2. EntryInv(o)
  BY <1>1 DEF EntryInv, OneActive
<1>3. \A n : StopIsNumbered(e, n) => StopIsNumbered(o, n)
  BY <1>1 DEF StopIsNumbered, SequenceOf
<1>4. Kept(e, o) /\ NoneClosed(e, o)
  BY <1>1, EntryFacts DEF Kept, NoneClosed
<1>5. \A x : Acked(e, x) <=> Acked(o, x)
  BY <1>1 DEF Acked, Reached
<1>6. QED
  BY <1>1, <1>2, <1>3, <1>4, <1>5

LEMMA AttemptEntry ==
  ASSUME NEW e, EntryInv(e), NEW a \in Attempt
  PROVE  [e EXCEPT !.attempt = a] = WithMemory(e, a, e.checkpoint)
BY DEF EntryInv, Entry, WithMemory

LEMMA AttemptType ==
  ASSUME NEW c \in Ctx, NEW state \in {"none", "enqueued", "projected", "degraded", "skipped"}
  PROVE  LET a == AttemptOf(c, state) IN
           /\ a \in Attempt /\ a.state = state /\ a.act = c.act /\ a.epoch = c.epoch
           /\ a.turn = c.turn /\ a.seq = c.seq
BY DEF AttemptOf, Ctx, Attempt

(* A step of one Stop that writes the memory of the entry, and may append to  *)
(* the outbox.                                                               *)
LEMMA MemoryMoves ==
  ASSUME StopInv, NEW a \in Attempt, NEW k \in Attempt,
         entry' = WithMemory(entry, a, k),
         UNCHANGED <<host, published>>, Grows(outbox, published, outbox', published'),
         OutboxOK(entry, outbox', published), Ordered(outbox'),
         MemoryOK(entry', outbox', published), StopsOK'
  PROVE  StopInv'
<1>1. /\ EntryInv(entry) /\ turns \in 0..MaxTurns /\ named \in BOOLEAN /\ StopIsNumbered(entry, turns)
      /\ Shared(entry, outbox, published)
  BY DEF StopInv
<1>2. turns' = turns /\ named' = named /\ published' = published
  BY DEF host
<1>3. /\ EntryInv(entry') /\ Kept(entry, entry') /\ NoneClosed(entry, entry')
      /\ entry'.acts = entry.acts /\ StopIsNumbered(entry', turns)
  BY <1>1, MemoryEntry
<1>4. OutboxOK(entry', outbox', published)
  BY <1>3 DEF OutboxOK, Reached
<1>5. Shared(entry', outbox', published')
  BY <1>1, <1>3, SharedLater
<1>6. QED
  BY <1>1, <1>2, <1>3, <1>4, <1>5 DEF StopInv, StopsOK
-----------------------------------------------------------------------------
(* A Stop that is not rejected has its turn acknowledged in the open          *)
(* activation.                                                               *)
LEMMA CausalAcked ==
  ASSUME StopInv, NEW h \in Stops, pc[h] = "stage", Causal(entry, loc[h]) = "applied"
  PROVE  /\ loc[h] \in Ctx /\ Acked(entry, loc[h]) /\ loc[h].act # 0
         /\ \A act : \A seq \in Nat : Reached(entry, act, seq) =>
              act < loc[h].act \/ (act = loc[h].act /\ seq <= loc[h].seq)
<1>1. /\ EntryInv(entry) /\ loc[h] \in Ctx
      /\ StopOK(entry, turns, outbox, published, "stage", loc[h])
  BY DEF StopInv
<1>2. loc[h].act # 0 /\ loc[h].disp \in {"applied", "duplicate"}
  BY <1>1 DEF Causal, Ctx
<1>3. Acked(entry, loc[h])
  BY <1>1, <1>2 DEF StopOK
<1>4. QED
  BY <1>1, <1>2, <1>3, Newest

(* Whatever was staged is not newer than such a Stop.                        *)
LEMMA AckedOlder ==
  ASSUME StopInv, NEW h \in Stops, pc[h] = "stage", Causal(entry, loc[h]) = "applied",
         NEW x \in Attempt, x = NoAttempt \/ Acked(entry, x)
  PROVE  NotOlder(x, loc[h])
<1>1. /\ loc[h] \in Ctx /\ Acked(entry, loc[h]) /\ loc[h].act # 0
      /\ \A act : \A seq \in Nat : Reached(entry, act, seq) =>
           act < loc[h].act \/ (act = loc[h].act /\ seq <= loc[h].seq)
  BY CausalAcked
<1>2. loc[h].epoch = loc[h].act /\ loc[h].epoch \in Nat
  BY <1>1 DEF Acked, Ctx
<1>3. CASE x = NoAttempt
  BY <1>1, <1>2, <1>3 DEF NoAttempt, NotOlder
<1>4. CASE Acked(entry, x)
  <2>1. x.seq \in Nat /\ x.epoch = x.act /\ Reached(entry, x.act, x.seq)
    BY <1>4 DEF Acked, Attempt
  <2>2. QED
    BY <1>1, <1>2, <2>1 DEF NotOlder
<1>5. QED
  BY <1>3, <1>4

LEMMA EventType == ASSUME NEW c \in Ctx PROVE Event(c) \in Ev
BY DEF Ctx, Ev, Event

(* The event appended is the newest of the outbox.                           *)
LEMMA AppendEvent ==
  ASSUME StopInv, NEW h \in Stops, pc[h] = "stage", Causal(entry, loc[h]) = "applied",
         NEW new, new = Append(outbox, Event(loc[h])), Event(loc[h]) \notin Events
  PROVE  /\ Grows(outbox, published, new, published) /\ OutboxOK(entry, new, published)
         /\ Ordered(new) /\ Listed(new, Len(new), loc[h])
<1> DEFINE c == loc[h]
           n == Len(outbox)
<1>1. /\ c \in Ctx /\ Acked(entry, c)
      /\ \A act : \A seq \in Nat : Reached(entry, act, seq) =>
           act < c.act \/ (act = c.act /\ seq <= c.seq)
  BY CausalAcked
<1>2. /\ outbox \in Seq(Ev) /\ n \in Nat /\ published \in 0..n /\ published \in Nat
      /\ \A i \in 1..n : Reached(entry, outbox[i].act, outbox[i].seq)
      /\ DOMAIN outbox = 1..n
  BY LenProperties DEF StopInv, OutboxOK
<1>3. \A i \in 1..n : outbox[i] \in Ev /\ outbox[i].seq \in Nat
  <2>1. \A i \in 1..n : outbox[i] \in Ev
    BY <1>2, ElementOfSeq
  <2>2. QED
    BY <2>1 DEF Ev
<1>4. Event(c) \in Ev /\ Event(c).act = c.act /\ Event(c).seq = c.seq
  BY <1>1, EventType DEF Event
<1>5. /\ new \in Seq(Ev) /\ Len(new) = n + 1 /\ new[n + 1] = Event(c)
      /\ \A i \in 1..n : new[i] = outbox[i]
  BY <1>2, <1>4, AppendProperties
<1>6. Grows(outbox, published, new, published)
  BY <1>2, <1>5 DEF Grows
<1>7. OutboxOK(entry, new, published)
  <2>1. \A i \in 1..n + 1 : Reached(entry, new[i].act, new[i].seq)
    <3> TAKE i \in 1..n + 1
    <3>1. CASE i = n + 1
      BY <3>1, <1>1, <1>4, <1>5 DEF Acked
    <3>2. CASE i # n + 1
      BY <3>2, <1>2, <1>5
    <3>3. QED
      BY <3>1, <3>2
  <2>2. QED
    BY <2>1, <1>2, <1>5 DEF OutboxOK
<1>8. Ordered(new)
  <2>1. SUFFICES ASSUME NEW i \in 1..n + 1, NEW j \in 1..n + 1, i < j
                 PROVE  Before(new[i], new[j]) /\ new[i] # new[j]
    BY <1>5 DEF Ordered
  <2>2. i \in 1..n /\ new[i] = outbox[i]
    BY <1>2, <1>5, <2>1
  <2>3. CASE j \in 1..n
    BY <1>5, <2>1, <2>2, <2>3 DEF StopInv, Ordered
  <2>4. CASE j = n + 1
    <3>1. new[j] = Event(c)
      BY <1>5, <2>4
    <3>2. Before(outbox[i], Event(c))
      BY <1>1, <1>2, <1>3, <1>4, <2>2 DEF Before
    <3>3. outbox[i] # Event(c)
      BY <1>2, <2>2 DEF Events
    <3>4. QED
      BY <2>2, <3>1, <3>2, <3>3
  <2>5. QED
    BY <1>2, <2>3, <2>4
<1>9. Listed(new, Len(new), c)
  BY <1>2, <1>5 DEF Listed
<1>10. QED
  BY <1>6, <1>7, <1>8, <1>9

LEMMA OutboxSame ==
  ASSUME StopInv
  PROVE  /\ Grows(outbox, published, outbox, published) /\ OutboxOK(entry, outbox, published)
         /\ Ordered(outbox) /\ published <= published /\ published \in 0..Len(outbox)
<1>1. published \in 0..Len(outbox) /\ Len(outbox) \in Nat
  BY StopInvParts
<1>2. published <= published
  BY <1>1
<1>3. QED
  BY <1>1, <1>2, OutboxGrows DEF StopInv

LEMMA NotOlderTrans ==
  ASSUME NEW x \in Attempt, NEW y \in Attempt, NEW z, z.epoch \in Nat, z.seq \in Nat,
         NotOlder(x, y), NotOlder(y, z)
  PROVE  NotOlder(x, z)
BY DEF NotOlder, Attempt

LEMMA AttemptFacts ==
  ASSUME StopInv
  PROVE  /\ entry.attempt \in Attempt /\ entry.checkpoint \in Attempt
         /\ entry.attempt.epoch \in Nat /\ entry.attempt.seq \in Nat
         /\ entry.checkpoint.epoch \in Nat /\ entry.checkpoint.seq \in Nat
         /\ NotOlder(entry.attempt, entry.attempt) /\ NotOlder(entry.checkpoint, entry.checkpoint)
         /\ MemoryOK(entry, outbox, published)
<1>1. entry.attempt \in Attempt /\ entry.checkpoint \in Attempt
  BY DEF StopInv, EntryInv, Entry
<1>2. /\ entry.attempt.epoch \in Nat /\ entry.attempt.seq \in Nat
      /\ entry.checkpoint.epoch \in Nat /\ entry.checkpoint.seq \in Nat
  BY <1>1 DEF Attempt
<1>3. QED
  BY <1>1, <1>2 DEF NotOlder, StopInv

(* One Stop moves while the memory of the entry is written.                  *)
LEMMA OneMovesMemory ==
  ASSUME StopInv, NEW a \in Attempt, NEW k \in Attempt, entry' = WithMemory(entry, a, k),
         UNCHANGED <<host, published>>, Grows(outbox, published, outbox', published'),
         NEW h \in Stops, NEW step \in Steps, NEW c \in Ctx, Moves(h, step, c),
         StopOK(entry, turns, outbox', published, step, c)
  PROVE  StopsOK'
<1>1. EntryInv(entry) /\ turns \in Nat
  BY StopInvParts
<1>2. turns' = turns /\ published' = published /\ turns <= turns'
  BY <1>1 DEF host
<1>3. /\ EntryInv(entry') /\ Kept(entry, entry') /\ \A x : Acked(entry, x) <=> Acked(entry', x)
  BY <1>1, MemoryEntry
<1>4. StopOK(entry', turns', outbox', published', step, c)
  BY <1>2, <1>3 DEF StopOK
<1>5. QED
  BY <1>1, <1>2, <1>3, <1>4, OneMoves
LEMMA RejectedStep ==
  ASSUME StopInv, NEW h \in Stops, pc[h] = "stage", Rejected(h), UNCHANGED <<host, published, deaths>>
  PROVE  StopInv' /\ Forward(entry, entry')
<1> DEFINE c == loc[h]
           skip == AttemptOf(c, "skipped")
<1>1. c \in Ctx
  BY StopInvParts
<1>2. /\ Moves(h, "idle", NoContext) /\ NoContext \in Ctx /\ "idle" \in Steps
      /\ \A e, n, ob, pub : StopOK(e, n, ob, pub, "idle", NoContext)
  BY ReturnOK DEF Rejected, Staged, Steps
<1>3. CASE Causal(entry, c) = "ambiguous" /\ MaySkip(entry, c)
  <2>1. entry' = [entry EXCEPT !.attempt = skip]
    BY <1>3 DEF Rejected, Staged
  <2>2. /\ skip \in Attempt /\ skip.state = "skipped" /\ skip.epoch = c.epoch /\ skip.seq = c.seq
        /\ c.epoch \in Nat /\ c.seq \in Nat
    BY <1>1, AttemptType DEF Ctx
  <2> HIDE DEF skip
  <2>3. entry' = WithMemory(entry, skip, entry.checkpoint)
    BY <2>1, <2>2, AttemptEntry, StopInvParts
  <2>4. NotOlder(entry.attempt, skip)
    <3>1. \/ entry.attempt = NoAttempt
          \/ entry.attempt.epoch < c.epoch
          \/ entry.attempt.epoch = c.epoch /\ (entry.attempt.seq < c.seq \/ entry.attempt.seq = c.seq)
      BY <1>3 DEF MaySkip
    <3>2. entry.attempt.epoch \in Nat /\ entry.attempt.seq \in Nat
      BY AttemptFacts
    <3>3. QED
      BY <2>2, <3>1, <3>2 DEF NotOlder, NoAttempt
  <2>5. NotOlder(entry.checkpoint, skip)
    BY <2>2, <2>4, AttemptFacts, NotOlderTrans DEF MemoryOK
  <2>6. /\ entry.checkpoint \in Attempt /\ EntryInv(entry)
        /\ entry.checkpoint = NoAttempt \/ Acked(entry, entry.checkpoint)
    BY AttemptFacts, StopInvParts DEF MemoryOK
  <2>7. /\ entry'.attempt = skip /\ entry'.checkpoint = entry.checkpoint
        /\ \A x : Acked(entry, x) <=> Acked(entry', x)
    BY <2>2, <2>3, <2>6, MemoryEntry
  <2>8. MemoryOK(entry', outbox, published)
    BY <2>2, <2>5, <2>6, <2>7 DEF MemoryOK, Work
  <2>9. outbox' = outbox /\ published' = published
    BY DEF Rejected
  <2>10. Grows(outbox, published, outbox', published')
    BY <2>9, OutboxSame
  <2>11. StopsOK'
    BY <1>2, <2>2, <2>3, <2>6, <2>10, OneMovesMemory
  <2>12. StopInv'
    BY <2>2, <2>3, <2>6, <2>8, <2>9, <2>10, <2>11, OutboxSame, MemoryMoves
  <2>13. Forward(entry, entry')
    BY <2>4, <2>7, AttemptFacts DEF Forward
  <2>14. QED
    BY <2>12, <2>13
<1>4. CASE ~(Causal(entry, c) = "ambiguous" /\ MaySkip(entry, c))
  <2>1. entry' = entry /\ outbox' = outbox /\ published' = published
    BY <1>4 DEF Rejected, Staged
  <2>2. EntryMoves /\ NoneClosed(entry, entry') /\ SameMemory(entry, entry')
    BY <2>1, OutboxSame, SameMoves
  <2>3. QED
    BY <1>2, <2>2, StopMoves
<1>5. QED
  BY <1>3, <1>4

LEMMA AgainStep ==
  ASSUME StopInv, NEW h \in Stops, pc[h] = "stage", Again(h), UNCHANGED <<host, published, deaths>>
  PROVE  StopInv' /\ Forward(entry, entry')
<1> DEFINE c == loc[h]
           x == entry.attempt
           state == Retried(x.state)
           d == [c EXCEPT !.state = state]
<1>1. /\ c \in Ctx /\ Acked(entry, c) /\ c.act # 0 /\ SameAttempt(x, c) /\ x.state # "skipped"
  BY CausalAcked DEF Again
<1>2. entry' = entry /\ outbox' = outbox /\ published' = published
  BY DEF Again, Staged
<1>3. EntryMoves /\ NoneClosed(entry, entry') /\ SameMemory(entry, entry')
  BY <1>2, OutboxSame, SameMoves
<1>4. x.state \in Work
  <2>1. x \in Attempt /\ MemoryOK(entry, outbox, published)
    BY AttemptFacts
  <2>2. x.state # "none"
    BY <1>1, <2>1 DEF MemoryOK, NoAttempt, SameAttempt
  <2>3. QED
    BY <1>1, <2>1, <2>2 DEF Attempt, Work
<1>5. /\ Listed(outbox, Len(outbox), x)
      /\ x.state = "projected" => Listed(outbox, published, x)
  BY <1>4, AttemptFacts DEF MemoryOK
<1>6. state \in {"enqueued", "duplicate"} /\ (state = "duplicate" => x.state = "projected")
  BY DEF Retried
<1>7. /\ d \in Ctx /\ d.act = c.act /\ d.epoch = c.epoch /\ d.turn = c.turn /\ d.seq = c.seq
  <2>1. c \in Ctx /\ state \in {"none", "enqueued", "duplicate", "projected", "degraded"}
    BY <1>1, <1>6
  <2>2. QED
    BY <2>1, StateType
<1>8. CASE state = "enqueued" \/ (state = "duplicate" /\ c.disp = "applied")
  <2> DEFINE step == IF state = "enqueued" THEN "project" ELSE "close"
  <2>1. Moves(h, step, d)
    BY <1>6, <1>8 DEF Again, Staged, Moves
  <2>2. Event(d) = Event(x)
    BY <1>1, <1>7 DEF Event, SameAttempt
  <2>3. Acked(entry, d)
    BY <1>1, <1>7 DEF Acked
  <2> HIDE DEF d
  <2>4. Listed(outbox, Len(outbox), d) /\ (step = "close" => Listed(outbox, published, d))
    BY <1>5, <1>6, <1>8, <2>2 DEF Listed
  <2>5. StopOK(entry', turns', outbox', published', step, d)
    BY <1>2, <2>3, <2>4 DEF StopOK
  <2>6. step \in Steps
    BY DEF Steps
  <2>7. QED
    BY <1>3, <1>7, <2>1, <2>5, <2>6, StopMoves
<1>9. CASE ~(state = "enqueued" \/ (state = "duplicate" /\ c.disp = "applied"))
  <2>1. /\ Moves(h, "idle", NoContext) /\ NoContext \in Ctx /\ "idle" \in Steps
        /\ StopOK(entry', turns', outbox', published', "idle", NoContext)
    BY <1>9, ReturnOK DEF Again, Staged, Steps
  <2>2. QED
    BY <1>3, <2>1, StopMoves
<1>10. QED
  BY <1>8, <1>9

LEMMA EnqueueStep ==
  ASSUME StopInv, NEW h \in Stops, pc[h] = "stage", Enqueue(h), UNCHANGED <<host, published, deaths>>
  PROVE  StopInv' /\ Forward(entry, entry')
<1> DEFINE c == loc[h]
           a == AttemptOf(c, "enqueued")
           d == [c EXCEPT !.state = "enqueued"]
<1>1. Causal(entry, c) = "applied" /\ c \in Ctx /\ Acked(entry, c) /\ EntryInv(entry)
  BY CausalAcked, StopInvParts DEF Enqueue
<1>2. /\ a \in Attempt /\ a.state = "enqueued" /\ a.act = c.act /\ a.epoch = c.epoch
      /\ a.turn = c.turn /\ a.seq = c.seq
  BY <1>1, AttemptType
<1>3. /\ d \in Ctx /\ d.act = c.act /\ d.epoch = c.epoch /\ d.turn = c.turn /\ d.seq = c.seq
  BY <1>1, StateType
<1>4. entry' = [entry EXCEPT !.attempt = a] /\ Moves(h, "project", d) /\ published' = published
  BY DEF Enqueue, Staged, Moves
<1> HIDE DEF a, d
<1>5. entry' = WithMemory(entry, a, entry.checkpoint)
  BY <1>1, <1>2, <1>4, AttemptEntry
<1>6. /\ Grows(outbox, published, outbox', published') /\ OutboxOK(entry, outbox', published)
      /\ Ordered(outbox') /\ Listed(outbox', Len(outbox'), c)
  <2>1. CASE Event(c) \in Events
    <3>1. outbox' = outbox
      BY <2>1 DEF Enqueue
    <3>2. Listed(outbox, Len(outbox), c)
      <4>1. DOMAIN outbox = 1..Len(outbox)
        BY LenProperties DEF StopInv, OutboxOK
      <4>2. QED
        BY <2>1, <4>1 DEF Events, Listed
    <3>3. QED
      BY <1>4, <3>1, <3>2, OutboxSame
  <2>2. CASE Event(c) \notin Events
    <3>1. outbox' = Append(outbox, Event(c))
      BY <2>2 DEF Enqueue
    <3>2. QED
      BY <1>1, <1>4, <2>2, <3>1, AppendEvent
  <2>3. QED
    BY <2>1, <2>2
<1>7. Listed(outbox', Len(outbox'), a) /\ Listed(outbox', Len(outbox'), d)
  BY <1>2, <1>3, <1>6 DEF Listed, Event
<1>8. Acked(entry, a) /\ Acked(entry, d)
  BY <1>1, <1>2, <1>3 DEF Acked
<1>9. /\ entry.checkpoint \in Attempt
      /\ entry.checkpoint = NoAttempt \/ Acked(entry, entry.checkpoint)
  BY AttemptFacts DEF MemoryOK
<1>10. NotOlder(entry.checkpoint, a)
  BY <1>1, <1>2, <1>9, AckedOlder DEF NotOlder
<1>11. entry.attempt.state # "skipped" => NotOlder(entry.attempt, a)
  <2>1. SUFFICES ASSUME entry.attempt.state # "skipped" PROVE NotOlder(entry.attempt, a)
    OBVIOUS
  <2>2. entry.attempt \in Attempt /\ (entry.attempt = NoAttempt \/ Acked(entry, entry.attempt))
    BY <2>1, AttemptFacts DEF MemoryOK, Attempt, Work
  <2>3. QED
    BY <1>1, <1>2, <2>2, AckedOlder DEF NotOlder
<1>12. /\ entry'.attempt = a /\ entry'.checkpoint = entry.checkpoint
       /\ \A x : Acked(entry, x) <=> Acked(entry', x)
  BY <1>1, <1>2, <1>5, <1>9, MemoryEntry
<1>13. MemoryOK(entry', outbox', published)
  BY <1>2, <1>7, <1>8, <1>9, <1>10, <1>12 DEF MemoryOK, Work
<1>14. StopsOK'
  <2>1. StopOK(entry, turns, outbox', published, "project", d) /\ "project" \in Steps
    BY <1>7, <1>8 DEF StopOK, Steps
  <2>2. QED
    BY <1>2, <1>3, <1>4, <1>5, <1>6, <1>9, <2>1, OneMovesMemory
<1>15. StopInv'
  BY <1>2, <1>5, <1>6, <1>9, <1>13, <1>14, MemoryMoves
<1>16. Forward(entry, entry')
  BY <1>11, <1>12, AttemptFacts DEF Forward
<1>17. QED
  BY <1>15, <1>16

LEMMA RecordStep ==
  ASSUME StopInv, NEW h \in Stops, Record(h)
  PROVE  StopInv' /\ Forward(entry, entry')
<1> DEFINE c == loc[h]
           a == AttemptOf(c, c.state)
           k == IF c.state = "projected" THEN a ELSE NoAttempt
           step == NextOf(c)
<1>1. /\ c \in Ctx /\ StopOK(entry, turns, outbox, published, "record", c) /\ EntryInv(entry)
  BY StopInvParts DEF StopInv, Record
<1>2. /\ c.state \in {"projected", "degraded"} /\ Acked(entry, c) /\ Listed(outbox, Len(outbox), c)
      /\ c.state = "projected" => Listed(outbox, published, c)
  BY <1>1 DEF StopOK
<1>3. /\ a \in Attempt /\ a.state = c.state /\ a.act = c.act /\ a.epoch = c.epoch
      /\ a.turn = c.turn /\ a.seq = c.seq
  BY <1>1, <1>2, AttemptType
<1>4. Moves(h, step, c)
  <2>1. loc' = [loc EXCEPT ![h] = c]
    BY StopInvParts DEF Record
  <2>2. QED
    BY <2>1 DEF Record, Moves
<1>5. entry' = IF ~Mine(c) THEN entry ELSE [entry EXCEPT !.attempt = a, !.checkpoint = k]
  BY DEF Record
<1>6. outbox' = outbox /\ published' = published /\ UNCHANGED <<host, published>>
  BY DEF Record
<1>7. StopOK(entry, turns, outbox', published, step, c) /\ step \in Steps
  BY <1>2, <1>6 DEF StopOK, NextOf, Steps
<1> HIDE DEF a, step
<1>8. CASE ~Mine(c)
  <2>1. entry' = entry
    BY <1>5, <1>8
  <2>2. EntryMoves /\ NoneClosed(entry, entry') /\ SameMemory(entry, entry')
    BY <2>1, <1>6, OutboxSame, SameMoves
  <2>3. StopOK(entry', turns', outbox', published', step, c)
    BY <1>6, <1>7, <2>1 DEF host
  <2>4. QED
    BY <1>1, <1>4, <1>7, <2>2, <2>3, StopMoves
<1>9. CASE Mine(c)
  <2>1. k \in Attempt /\ k \in {a, NoAttempt}
    BY <1>3 DEF NoAttempt, Attempt
  <2>2. entry' = WithMemory(entry, a, k)
    BY <1>5, <1>9 DEF WithMemory
  <2>3. /\ entry.attempt.epoch = a.epoch /\ entry.attempt.seq = a.seq
        /\ a.epoch \in Nat /\ a.seq \in Nat
    BY <1>3, <1>9 DEF Mine, SameAttempt, Attempt
  <2>4. NotOlder(entry.attempt, a) /\ NotOlder(entry.checkpoint, a) /\ NotOlder(a, a)
    BY <2>3, AttemptFacts DEF MemoryOK, NotOlder
  <2>5. NotOlder(k, a)
    BY <2>1, <2>3, <2>4 DEF NotOlder, NoAttempt
  <2>6. Acked(entry, a) /\ Listed(outbox, Len(outbox), a) /\ (a.state = "projected" => Listed(outbox, published, a))
    BY <1>2, <1>3 DEF Acked, Listed, Event
  <2> HIDE DEF k
  <2>7. /\ entry'.attempt = a /\ entry'.checkpoint = k
        /\ \A x : Acked(entry, x) <=> Acked(entry', x)
    BY <1>1, <1>3, <2>1, <2>2, MemoryEntry
  <2>8. MemoryOK(entry', outbox', published)
    BY <1>2, <1>3, <1>6, <2>1, <2>5, <2>6, <2>7 DEF MemoryOK, Work
  <2>9. Grows(outbox, published, outbox', published') /\ OutboxOK(entry, outbox', published) /\ Ordered(outbox')
    BY <1>6, OutboxSame
  <2>10. StopsOK'
    BY <1>1, <1>3, <1>4, <1>6, <1>7, <2>1, <2>2, <2>9, OneMovesMemory
  <2>11. StopInv'
    BY <1>3, <1>6, <2>1, <2>2, <2>8, <2>9, <2>10, MemoryMoves
  <2>12. Forward(entry, entry')
    BY <2>1, <2>4, <2>7 DEF Forward
  <2>13. QED
    BY <2>11, <2>12
<1>10. QED
  BY <1>8, <1>9

LEMMA DieStagingStep ==
  ASSUME StopInv, NEW h \in Stops, DieStaging(h)
  PROVE  StopInv' /\ Forward(entry, entry')
<1>1. /\ pc[h] = "stage" /\ Causal(entry, loc[h]) = "applied" /\ Event(loc[h]) \notin Events
      /\ outbox' = Append(outbox, Event(loc[h])) /\ entry' = entry /\ published' = published
      /\ turns' = turns /\ named' = named
  BY DEF DieStaging, host
<1>2. /\ Grows(outbox, published, outbox', published') /\ OutboxOK(entry, outbox', published)
      /\ Ordered(outbox')
  BY <1>1, AppendEvent
<1>3. /\ EntryInv(entry) /\ turns \in Nat /\ turns <= turns /\ Kept(entry, entry)
      /\ NoneClosed(entry, entry) /\ SameMemory(entry, entry)
  BY StopInvParts, KeptSelf
<1>4. /\ Moves(h, "idle", NoContext) /\ NoContext \in Ctx /\ "idle" \in Steps
      /\ StopOK(entry', turns', outbox', published', "idle", NoContext)
  BY ReturnOK DEF DieStaging, Steps
<1>5. StopsOK'
  BY <1>1, <1>2, <1>3, <1>4, OneMoves
<1>6. MemoryOK(entry', outbox', published') /\ Shared(entry', outbox', published')
  BY <1>1, <1>2, <1>3, MemoryLater, SharedLater DEF StopInv
<1>7. Forward(entry, entry')
  BY <1>1, <1>3, ForwardSame
<1>8. QED
  BY <1>1, <1>2, <1>5, <1>6, <1>7 DEF StopInv, StopsOK
-----------------------------------------------------------------------------
LEMMA InitStops == Init => StopInv
<1> SUFFICES ASSUME Init PROVE StopInv
  OBVIOUS
<1>1. <<>> \in Acts /\ Len(<<>>) = 0 /\ <<>> \in Seq(Ev)
  BY EmptySeq DEF Acts
<1>2. NoAttempt \in Attempt
  BY DEF NoAttempt, Attempt
<1>3. /\ entry \in Entry /\ entry.acts = <<>> /\ entry.active = 0
      /\ entry.attempt = NoAttempt /\ entry.checkpoint = NoAttempt
  BY <1>1, <1>2 DEF Init, NewEntry, Entry, Turn
<1>4. EntryInv(entry) /\ StopIsNumbered(entry, 0)
  BY <1>1, <1>3 DEF EntryInv, OneActive, StopIsNumbered
<1>5. OutboxOK(entry, <<>>, 0) /\ Ordered(<<>>) /\ Shared(entry, <<>>, 0)
  BY <1>1, <1>3 DEF OutboxOK, Ordered, Shared
<1>6. MemoryOK(entry, <<>>, 0)
  BY <1>3 DEF MemoryOK, NoAttempt, Work, NotOlder
<1>7. /\ pc \in [Stops -> Steps] /\ loc \in [Stops -> Ctx]
      /\ \A h \in Stops : StopOK(entry, 0, <<>>, 0, pc[h], loc[h])
  BY DEF Init, Steps, Ctx, NoContext, StopOK
<1>8. QED
  BY <1>4, <1>5, <1>6, <1>7, TurnAssumption DEF Init, StopInv

LEMMA StopStep == StopInv /\ [Next]_vars => StopInv' /\ Forward(entry, entry')
<1> SUFFICES ASSUME StopInv, [Next]_vars PROVE StopInv' /\ Forward(entry, entry')
  OBVIOUS
<1>1. CASE SessionStart \/ Prompt \/ PromptLost \/ Sweep \/ OthersProject
  BY <1>1, StartStep, PromptStep, QuietStep, SweepStep
<1>2. CASE \E h \in Stops : Begin(h) \/ Unproven(h) \/ AckStep(h) \/ ProjectStep(h)
  BY <1>2, BeginStep, UnprovenStep, AckMoves, ProjectMoves
<1>3. CASE \E h \in Stops : Stage(h)
  BY <1>3, RejectedStep, AgainStep, EnqueueStep DEF Stage
<1>4. CASE \E h \in Stops : Record(h) \/ Reopen(h) \/ CloseStep(h) \/ Die(h) \/ DieStaging(h)
  BY <1>4, RecordStep, ReopenStep, CloseMoves, DieStep, DieStagingStep
<1>5. CASE UNCHANGED vars
  <2>1. /\ UNCHANGED stops /\ UNCHANGED <<host, entry, outbox>> /\ published' = published
        /\ entry' = entry
    BY <1>5 DEF vars
  <2>2. EntryMoves /\ NoneClosed(entry, entry') /\ SameMemory(entry, entry')
    BY <2>1, OutboxSame, SameMoves
  <2>3. QED
    BY <2>1, <2>2, HookMoves
<1>6. QED
  BY <1>1, <1>2, <1>3, <1>4, <1>5 DEF Next

(* The inductive invariant: what every Stop knows at each of its steps stays  *)
(* true, whatever the other Stops and hooks do meanwhile.                    *)
THEOREM StopsAreSound == Spec => []StopInv
BY InitStops, StopStep, PTL DEF Spec

LEMMA InvGives == StopInv => OneActivation /\ InOrder /\ DoneIsPublished
<1> SUFFICES ASSUME StopInv PROVE OneActivation /\ InOrder /\ DoneIsPublished
  OBVIOUS
<1>1. /\ DOMAIN entry.acts = 1..Len(entry.acts) /\ DOMAIN outbox = 1..Len(outbox)
      /\ OneActive(entry) /\ Ordered(outbox) /\ Shared(entry, outbox, published)
  BY LenProperties DEF StopInv, OutboxOK, EntryInv, Entry, Acts
<1>2. QED
  BY <1>1 DEF OneActive, OneActivation, Epoch, InOrder, Ordered, DoneIsPublished, Shared

(* A session never has two activations open, whatever prompts, starts, sweeps *)
(* and late Stops it meets (obsidian-common.mjs).                            *)
THEOREM OneOpen == Spec => []OneActivation
BY StopsAreSound, InvGives, PTL

(* The memory of a session is enqueued in causal order and once, however      *)
(* many Stops overlap, come late or die (session-memory-lifecycle.mjs).      *)
THEOREM CausalOrder == Spec => []InOrder
BY StopsAreSound, InvGives, PTL

(* The turn that closed an activation is in the shared memory.               *)
THEOREM ClosedIsShared == Spec => []DoneIsPublished
BY StopsAreSound, InvGives, PTL

(* Neither the attempt nor the checkpoint of a session goes back.            *)
THEOREM MemoryNeverBack == Spec => MemoryAdvances
<1>1. StopInv /\ [Next]_vars =>
        [/\ entry.attempt.state # "skipped" => NotOlder(entry.attempt, entry'.attempt)
         /\ entry'.checkpoint # NoAttempt => NotOlder(entry.checkpoint, entry'.checkpoint)]_vars
  BY StopStep DEF Forward
<1>2. QED
  BY <1>1, StopsAreSound, PTL DEF Spec, MemoryAdvances
=============================================================================
