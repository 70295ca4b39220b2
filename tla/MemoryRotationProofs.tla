-------------------------- MODULE MemoryRotationProofs --------------------------
(* What MemoryRotation keeps for every set of events and any number of        *)
(* crashes and rotations, as long as a write is never cut just before its     *)
(* newline: acknowledged events can be read back (Durable), stand once in the *)
(* ledger (ExactlyOnce), a view that reads reads them all (ReadIsWhole), and  *)
(* a resumed rotation goes on (RotationConverges).                            *)
EXTENDS MemoryRotation, FiniteSetTheorems, SequenceTheorems, TLAPS

(* A cut write leaves part of a line, never a whole one without its newline.  *)
CutInside == TearKinds \subseteq {"inside"}

Typed ==
  /\ outbox \in [Event -> {"absent", "torn", "whole"}]
  /\ IsFiniteSet({e \in Event : outbox[e] # "absent"})
  /\ writing \subseteq Event /\ acked \subseteq Event
  /\ shared \subseteq Event
  /\ batch \subseteq Event /\ target \subseteq Event /\ fresh \in Seq(Event)
  /\ lines \in Seq(Event \union {Bad}) /\ ended \in BOOLEAN
  /\ snapshot \in Projection \union {None}
  /\ generation \in 0..MaxRotations
  /\ backup \in [1..MaxRotations -> Seq(Event) \union {None}]

(* A file being written is not whole yet; the ones a projector read stay whole *)
(* until it removes them.                                                     *)
Outbox == /\ \A e \in writing : outbox[e] = "torn"
          /\ \A e \in batch : outbox[e] = "whole"

(* Bad is the last line if any, and then no newline follows it.               *)
Tidy == \A i \in DOMAIN lines : lines[i] = Bad <=> i = Len(lines) /\ ~ended
Unended == ended \/ lines # <<>>

(* No event twice.                                                            *)
Once == /\ IsInjective(Kept) /\ IsInjective(lines)
        /\ Range(Kept) \cap Range(lines) = {}

(* The active ledger begins with the last event of the backup s.              *)
Continues(s) == s # <<>> /\ lines # <<>> /\ lines[1] = Last(s)

(* A generation has a backup, and a ledger that begins with an event.         *)
Generations ==
  generation > 0 => /\ backup[generation] \in Seq(Event) \ {<<>>}
                    /\ lines # <<>> /\ lines[1] # Bad

(* The boundary of the snapshot is where it was, and the snapshot covers what *)
(* stands before it.                                                          *)
AtBoundary == /\ snapshot.upto <= Len(lines)
              /\ snapshot.upto > 0 => lines[snapshot.upto] = snapshot.last
Covers ==
  Range(Kept) \union {lines[i] : i \in 1 .. snapshot.upto} \subseteq snapshot.events
Snapshots ==
  snapshot # None => /\ journal = None \/ pc \in StorePlace => AtBoundary
                     /\ AtBoundary => Covers
                     /\ snapshot.events \subseteq Stored
                     /\ snapshot.upto > 0 => snapshot.last \in Event

(* A rotation's plan: what the ledger was.                                    *)
Before(g) == IF g = 0 THEN <<>> ELSE Front(backup[g])
PlanOk(p) == /\ p \in RotationPlan
             /\ p.ended
             /\ p.source # <<>>
             /\ p.gen > 1 => Len(p.source) > 1
             /\ p.events = Before(p.gen - 1) \o p.source
             /\ p.events # <<>> /\ Last(p.events) = Last(p.source)
             /\ IsInjective(p.events)

(* Its journal: the backup is there, and what the stage promises is done.     *)
Journals ==
  journal # None =>
    /\ journal \in [stage : Stage, plan : RotationPlan] /\ PlanOk(journal.plan)
    /\ backup[journal.plan.gen] = journal.plan.events
    /\ generation \in {journal.plan.gen - 1, journal.plan.gen}
    /\ journal.stage # "prepared" => Continues(journal.plan.events)
    /\ journal.stage \notin {"prepared", "switched"} => generation = journal.plan.gen
    /\ generation = journal.plan.gen => journal.stage # "prepared"
    /\ snapshot # None /\ snapshot.upto > 0
    /\ generation < journal.plan.gen => Len(journal.plan.source) <= snapshot.upto

(* What can be read back.                                                     *)
Shared == shared \subseteq Stored

(* What a projector knows at each place.                                      *)
Projects ==
  /\ pc \in StorePlace => ended
  /\ pc = "append" =>
       /\ IsInjective(fresh) /\ Range(fresh) \cap Range(Ledger) = {}
       /\ Range(Ledger) \union Range(fresh) \subseteq target
       /\ target \subseteq Stored \union Range(fresh)
       /\ batch \subseteq Range(Ledger) \union Range(fresh)
  /\ pc \in StorePlace \ {"append"} =>
       /\ Range(Ledger) \subseteq target
       /\ target \subseteq Stored
       /\ batch \subseteq Range(Ledger)

(* And a rotation.                                                            *)
Rotates ==
  /\ pc \in RotationPlace => PlanOk(plan)
  /\ pc \in {"backup", "journal"} =>
       /\ journal = None /\ plan.gen = generation + 1
       /\ IsSource(plan) /\ snapshot = plan.snap /\ snapshot # None
       /\ snapshot.upto = Len(lines)
  /\ pc = "journal" => backup[plan.gen] = plan.events
  /\ pc \in RotationPlace \ {"backup", "journal", "remove candidate"} =>
       journal # None /\ journal.plan = plan
  /\ pc \in RotationPlace \ {"backup", "journal", "switch", "remove candidate"} =>
       IsCandidate(plan)
  /\ pc \in RotationPlace \ {"backup", "journal", "switch", "mark switched",
                             "remove candidate"} =>
       journal.stage # "prepared"
  /\ pc \in RotationPlace \ {"backup", "journal", "switch", "mark switched", "state",
                             "remove candidate"} =>
       generation = plan.gen
  /\ pc \in RotationPlace \ {"backup", "journal", "switch", "mark switched", "state",
                             "mark state", "reanchor", "remove candidate"} =>
       snapshot = Reanchored(plan)

Places == pc \in {"idle"} \union StorePlace \union RotationPlace

MemoryInv == /\ Typed /\ Outbox /\ Tidy /\ Unended /\ Once /\ Generations /\ Snapshots
             /\ Journals /\ Shared /\ Projects /\ Rotates /\ Durable /\ Places
-----------------------------------------------------------------------------
(* Sequences and their parts.                                                 *)
LEMMA RangeTyped ==
  ASSUME NEW S, NEW s \in Seq(S)
  PROVE  Range(s) \subseteq S
BY DEF Range

LEMMA RangeJoin ==
  ASSUME NEW S, NEW s \in Seq(S), NEW t \in Seq(S)
  PROVE  /\ s \o t \in Seq(S)
         /\ Range(s \o t) = Range(s) \union Range(t)
<1>1. s \o t \in Seq(S)
  OBVIOUS
<1>2. Range(s \o t) = Range(s) \union Range(t)
  BY RangeConcatenation
<1>3. QED BY <1>1, <1>2

LEMMA InjectiveJoin ==
  ASSUME NEW S, NEW s \in Seq(S), NEW t \in Seq(S)
  PROVE  IsInjective(s \o t) <=> /\ IsInjective(s) /\ IsInjective(t)
                                 /\ Range(s) \cap Range(t) = {}
<1> DEFINE u == s \o t
<1>0. /\ DOMAIN u = 1 .. Len(s) + Len(t)
      /\ DOMAIN s = 1 .. Len(s) /\ DOMAIN t = 1 .. Len(t)
      /\ Len(s) \in Nat /\ Len(t) \in Nat
  BY LenProperties, ConcatProperties
<1>1. \A i \in DOMAIN s : u[i] = s[i]
  BY <1>0
<1>2. \A i \in DOMAIN t : i + Len(s) \in DOMAIN u /\ u[i + Len(s)] = t[i]
  BY <1>0
<1>3. \A i \in DOMAIN u : i \in DOMAIN s \/ i - Len(s) \in DOMAIN t
  BY <1>0
<1>4. ASSUME IsInjective(u)
      PROVE  /\ IsInjective(s) /\ IsInjective(t)
             /\ Range(s) \cap Range(t) = {}
  <2>1. IsInjective(s)
    BY <1>0, <1>1, <1>4 DEF IsInjective
  <2>2. ASSUME NEW i \in DOMAIN t, NEW j \in DOMAIN t, t[i] = t[j] PROVE i = j
    <3>1. u[i + Len(s)] = u[j + Len(s)]
      BY <1>2, <2>2
    <3>2. i + Len(s) = j + Len(s)
      BY <3>1, <1>2, <1>4 DEF IsInjective
    <3>3. QED BY <3>2, <1>0
  <2>3. ASSUME NEW i \in DOMAIN s, NEW j \in DOMAIN t, s[i] = t[j] PROVE FALSE
    <3>1. i \in DOMAIN u /\ j + Len(s) \in DOMAIN u /\ u[i] = u[j + Len(s)]
      BY <1>0, <1>1, <1>2, <2>3
    <3>2. i = j + Len(s)
      BY <3>1, <1>4 DEF IsInjective
    <3>3. QED BY <3>2, <1>0
  <2>4. QED BY <2>1, <2>2, <2>3 DEF IsInjective, Range
<1>5. ASSUME IsInjective(s), IsInjective(t), Range(s) \cap Range(t) = {}
      PROVE  IsInjective(u)
  <2> SUFFICES ASSUME NEW i \in DOMAIN u, NEW j \in DOMAIN u, u[i] = u[j]
               PROVE  i = j
    BY DEF IsInjective
  <2>1. \A k \in DOMAIN u : k \notin DOMAIN s => u[k] = t[k - Len(s)]
    BY <1>0
  <2>2. CASE i \in DOMAIN s /\ j \in DOMAIN s
    BY <2>2, <1>1, <1>5 DEF IsInjective
  <2>3. CASE i \in DOMAIN s /\ j \notin DOMAIN s
    <3>1. s[i] \in Range(s) /\ t[j - Len(s)] \in Range(t)
      BY <2>3, <1>3 DEF Range
    <3>2. QED BY <3>1, <2>3, <2>1, <1>1, <1>5
  <2>4. CASE i \notin DOMAIN s /\ j \in DOMAIN s
    <3>1. s[j] \in Range(s) /\ t[i - Len(s)] \in Range(t)
      BY <2>4, <1>3 DEF Range
    <3>2. QED BY <3>1, <2>4, <2>1, <1>1, <1>5
  <2>5. CASE i \notin DOMAIN s /\ j \notin DOMAIN s
    <3>1. i - Len(s) = j - Len(s)
      BY <2>5, <2>1, <1>3, <1>5 DEF IsInjective
    <3>2. QED BY <3>1, <1>0
  <2>6. QED BY <2>2, <2>3, <2>4, <2>5
<1>6. QED BY <1>4, <1>5

LEMMA FrontLast ==
  ASSUME NEW S, NEW s \in Seq(S), s # <<>>
  PROVE  /\ Front(s) \in Seq(S) /\ Last(s) \in S
         /\ Len(Front(s)) = Len(s) - 1 /\ Len(s) \in Nat \ {0}
         /\ Last(s) = s[Len(s)] /\ Last(s) \in Range(s)
         /\ <<Last(s)>> \in Seq(S) /\ Range(<<Last(s)>>) = {Last(s)}
         /\ IsInjective(<<Last(s)>>)
         /\ s = Front(s) \o <<Last(s)>>
<1>1. Len(s) \in Nat \ {0} /\ DOMAIN s = 1 .. Len(s)
  BY LenProperties, EmptySeq
<1>2. Last(s) = s[Len(s)] /\ Last(s) \in S /\ Last(s) \in Range(s)
  BY <1>1 DEF Last, Range
<1>3. Front(s) \in Seq(S) /\ Len(Front(s)) = Len(s) - 1
  BY <1>1, SubSeqProperties DEF Front
<1>4. \A i \in 1 .. Len(s) - 1 : Front(s)[i] = s[i]
  BY <1>1, SubSeqProperties DEF Front
<1>5. s = Front(s) \o <<Last(s)>>
  <2> DEFINE u == Front(s) \o <<Last(s)>>
  <2>1. u \in Seq(S) /\ Len(u) = Len(s)
    <3>1. <<Last(s)>> \in Seq(S) /\ Len(<<Last(s)>>) = 1
      BY <1>2
    <3>2. u \in Seq(S) /\ Len(u) = Len(Front(s)) + 1
      BY <3>1, <1>3, ConcatProperties
    <3>3. QED BY <3>2, <1>1, <1>3
  <2>2. \A i \in 1 .. Len(s) : u[i] = s[i]
    BY <1>1, <1>2, <1>3, <1>4
  <2>3. QED BY <2>1, <2>2, SeqEqual
<1>6. /\ <<Last(s)>> \in Seq(S) /\ Range(<<Last(s)>>) = {Last(s)}
      /\ IsInjective(<<Last(s)>>)
  BY <1>2 DEF Range, IsInjective
<1>7. QED BY <1>1, <1>2, <1>3, <1>5, <1>6

(* A sequence without repetition: its last element is not before.             *)
LEMMA LastApart ==
  ASSUME NEW S, NEW s \in Seq(S), s # <<>>
  PROVE  /\ Range(s) = Range(Front(s)) \union {Last(s)}
         /\ IsInjective(s) => IsInjective(Front(s)) /\ Last(s) \notin Range(Front(s))
<1>1. /\ Front(s) \in Seq(S) /\ <<Last(s)>> \in Seq(S)
      /\ Range(<<Last(s)>>) = {Last(s)} /\ s = Front(s) \o <<Last(s)>>
  BY FrontLast
<1> DEFINE f == Front(s)
           l == <<Last(s)>>
<1> HIDE DEF f, l
<1>2. f \in Seq(S) /\ l \in Seq(S) /\ Range(l) = {Last(s)} /\ s = f \o l
  BY <1>1 DEF f, l
<1>3. Range(s) = Range(f) \union Range(l)
  BY <1>2, RangeJoin
<1>4. IsInjective(f \o l) => IsInjective(f) /\ Range(f) \cap Range(l) = {}
  BY <1>2, InjectiveJoin
<1>5. QED BY <1>2, <1>3, <1>4 DEF f

LEMMA PartOf ==
  ASSUME NEW S, NEW s \in Seq(S), NEW n \in 0 .. Len(s)
  PROVE  /\ SubSeq(s, 1, n) \in Seq(S) /\ Len(SubSeq(s, 1, n)) = n
         /\ Range(SubSeq(s, 1, n)) \subseteq Range(s)
         /\ \A i \in 1 .. n : SubSeq(s, 1, n)[i] = s[i]
         /\ IsInjective(s) => IsInjective(SubSeq(s, 1, n))
<1> DEFINE t == SubSeq(s, 1, n)
<1>0. DOMAIN s = 1 .. Len(s) /\ Len(s) \in Nat /\ n \in Nat /\ n <= Len(s)
  BY LenProperties
<1>1. t \in Seq(S) /\ Len(t) = n /\ \A i \in 1 .. n : t[i] = s[i]
  BY <1>0, SubSeqProperties
<1>2. DOMAIN t = 1 .. n
  BY <1>1
<1> HIDE DEF t
<1>3. Range(t) \subseteq Range(s)
  BY <1>0, <1>1, <1>2 DEF Range
<1>4. IsInjective(s) => IsInjective(t)
  BY <1>0, <1>1, <1>2 DEF IsInjective
<1>5. QED BY <1>1, <1>3, <1>4 DEF t

(* A finite set in some order.                                                *)
LEMMA InSomeOrder ==
  ASSUME NEW S, IsFiniteSet(S)
  PROVE  /\ SetToSeq(S) \in Seq(S)
         /\ Range(SetToSeq(S)) = S
         /\ IsInjective(SetToSeq(S))
<1> DEFINE n == Cardinality(S)
<1>1. n \in Nat /\ ExistsBijection(1..n, S)
  BY FS_CardinalityType
<1>2. PICK f \in Bijection(1..n, S) : TRUE
  BY <1>1 DEF ExistsBijection
<1>3. f \in [1..n -> S] /\ IsInjective(f)
  BY <1>2 DEF Bijection, Injection, IsInjective
<1> DEFINE g == SetToSeq(S)
<1>4. g \in [1..n -> S] /\ IsInjective(g)
  BY <1>3 DEF SetToSeq
<1>5. g \in Injection(1..n, S)
  BY <1>4 DEF Injection
<1>6. g \in Surjection(1..n, S)
  <2>1. Cardinality(1..n) = n
    BY <1>1, FS_Interval
  <2>2. QED BY <2>1, <1>5, FS_Injection
<1>7. Range(g) = S
  BY <1>6, <1>4 DEF Surjection, Range
<1>8. g \in Seq(S)
  BY <1>4, <1>1
<1>9. QED BY <1>4, <1>7, <1>8

(* The lines that are events, when only the last one is not.                  *)
LEMMA EventLinesAre ==
  ASSUME lines \in Seq(Event \union {Bad}), lines # <<>>,
         \A i \in DOMAIN lines : lines[i] = Bad <=> i = Len(lines)
  PROVE  EventLines = Front(lines)
<1> DEFINE m == Len(lines) - 1
           Good == {j \in DOMAIN lines : lines[j] # Bad}
           Nth(i) == CHOOSE j \in Good : Cardinality({k \in Good : k <= j}) = i
<1>1. Len(lines) \in Nat \ {0} /\ DOMAIN lines = 1 .. Len(lines)
  BY LenProperties, EmptySeq
<1>2. Good = 1 .. m /\ m \in Nat
  BY <1>1
<1> HIDE DEF m, Good
<1>3. Cardinality(Good) = m
  BY <1>2, FS_Interval
<1>4. \A j \in Good : Cardinality({k \in Good : k <= j}) = j
  <2> TAKE j \in Good
  <2>1. {k \in Good : k <= j} = 1 .. j /\ j \in Nat
    BY <1>2
  <2>2. Cardinality(1 .. j) = j
    <3>1. 1 \in Int /\ j \in Int /\ ~(1 > j) /\ j - 1 + 1 = j
      BY <1>2
    <3>2. QED BY <3>1, FS_Interval
  <2>3. QED BY <2>1, <2>2
<1>5. \A i \in 1 .. m : Nth(i) = i
  BY <1>2, <1>4
<1>6. EventLines = [i \in 1 .. m |-> lines[Nth(i)]]
  BY <1>3 DEF EventLines, Good
<1>7. EventLines = [i \in 1 .. m |-> lines[i]]
  <2> HIDE DEF Nth
  <2>1. \A i \in 1 .. m : lines[Nth(i)] = lines[i]
    BY <1>5
  <2>2. QED BY <1>6, <2>1
<1>8. /\ Front(lines) \in Seq(Event \union {Bad}) /\ Len(Front(lines)) = m
      /\ \A i \in 1 .. m : Front(lines)[i] = lines[i]
  BY <1>1, SubSeqProperties DEF Front, m
<1>9. Front(lines) = [i \in 1 .. m |-> lines[i]]
  BY <1>8
<1>10. QED BY <1>7, <1>9
-----------------------------------------------------------------------------
(* The ledger in terms of its parts.                                          *)
LEMMA KeptTyped ==
  ASSUME Typed, Generations
  PROVE  /\ Kept \in Seq(Event) /\ Range(Kept) \subseteq Event
         /\ Kept \in Seq(Event \union {Bad})
<1>1. CASE generation = 0
  BY <1>1 DEF Kept, Range
<1>2. CASE generation # 0
  <2>1. generation > 0
    BY <1>2, MemoryAssumption DEF Typed
  <2>2. PICK b : b = backup[generation]
    OBVIOUS
  <2>3. b \in Seq(Event) /\ b # <<>>
    BY <2>1, <2>2 DEF Generations
  <2>4. Front(b) \in Seq(Event)
    BY <2>3, FrontLast
  <2>5. Kept = Front(b)
    BY <1>2, <2>2 DEF Kept
  <2>6. Range(Front(b)) \subseteq Event
    BY <2>4, RangeTyped
  <2>7. QED BY <2>4, <2>5, <2>6
<1>3. QED BY <1>1, <1>2

LEMMA LedgerParts ==
  ASSUME Typed, Generations
  PROVE  /\ Ledger \in Seq(Event \union {Bad})
         /\ Range(Ledger) = Range(Kept) \union Range(lines)
         /\ IsInjective(Ledger) <=> /\ IsInjective(Kept) /\ IsInjective(lines)
                                    /\ Range(Kept) \cap Range(lines) = {}
         /\ Range(Ledger) \subseteq Event \union {Bad}
<1>1. Kept \in Seq(Event \union {Bad}) /\ lines \in Seq(Event \union {Bad})
  BY KeptTyped DEF Typed
<1>2. Kept \o lines \in Seq(Event \union {Bad})
      /\ Range(Kept \o lines) = Range(Kept) \union Range(lines)
  BY <1>1, RangeJoin
<1>3. IsInjective(Kept \o lines) <=> /\ IsInjective(Kept) /\ IsInjective(lines)
                                     /\ Range(Kept) \cap Range(lines) = {}
  BY <1>1, InjectiveJoin
<1>4. Range(Kept \o lines) \subseteq Event \union {Bad}
  BY <1>2, RangeTyped
<1>5. QED BY <1>2, <1>3, <1>4 DEF Ledger

(* A ledger that ends in its newline has no line that is not an event.        *)
LEMMA WholeLines ==
  ASSUME Typed, Tidy, ended
  PROVE  Bad \notin Range(lines) /\ lines \in Seq(Event) /\ Range(lines) \subseteq Event
<1>1. lines \in Seq(Event \union {Bad}) /\ DOMAIN lines = 1 .. Len(lines) /\ Len(lines) \in Nat
  BY LenProperties DEF Typed
<1>2. \A i \in DOMAIN lines : lines[i] # Bad
  BY DEF Tidy
<1>3. \A i \in 1 .. Len(lines) : lines[i] \in Event
  BY <1>1, <1>2
<1>4. lines \in Seq(Event)
  BY <1>1, <1>3
<1>5. QED BY <1>2, <1>3, <1>1 DEF Range

LEMMA TornLine ==
  ASSUME Typed, Tidy, Unended, ~ended
  PROVE  /\ lines # <<>> /\ Last(lines) = Bad /\ Bad \in Range(lines)
         /\ \A i \in DOMAIN lines : lines[i] = Bad <=> i = Len(lines)
<1>1. lines \in Seq(Event \union {Bad}) /\ lines # <<>>
  BY DEF Typed, Unended
<1>2. /\ Len(lines) \in Nat \ {0} /\ DOMAIN lines = 1 .. Len(lines)
      /\ Last(lines) = lines[Len(lines)]
  BY <1>1, LenProperties, FrontLast
<1>3. QED BY <1>1, <1>2 DEF Tidy, Range

(* No event that could be read back is lost in the step.                      *)
NothingLost == Stored \ {Bad} \subseteq Stored'

(* The files of the ledger that the invariant is about, as they were.         *)
SameLedger == UNCHANGED <<lines, ended, snapshot, generation, backup, journal>>

LEMMA LedgerAsItWas ==
  ASSUME SameLedger
  PROVE  /\ Kept' = Kept /\ Ledger' = Ledger /\ Stored' = Stored
         /\ Tidy => Tidy'
         /\ Unended => Unended'
         /\ Once => Once'
         /\ Generations => Generations'
         /\ Journals => Journals'
         /\ AtBoundary' <=> AtBoundary
         /\ Covers' <=> Covers
         /\ \A p : PlanOk(p)' <=> PlanOk(p)
         /\ \A p : IsSource(p)' <=> IsSource(p)
         /\ \A p : IsCandidate(p)' <=> IsCandidate(p)
<1> USE DEF SameLedger
<1>1. Kept' = Kept
  BY DEF Kept
<1>2. Ledger' = Ledger
  BY <1>1 DEF Ledger
<1>3. Stored' = Stored
  BY <1>2 DEF Stored
<1>4. Tidy => Tidy'
  BY DEF Tidy
<1>5. Unended => Unended'
  BY DEF Unended
<1>6. Once => Once'
  BY <1>1 DEF Once
<1>7. Generations => Generations'
  BY DEF Generations
<1>8. \A p : PlanOk(p)' <=> PlanOk(p)
  BY DEF PlanOk, Before
<1>9. Journals => Journals'
  BY DEF Journals, PlanOk, Before, Continues
<1>10. AtBoundary' <=> AtBoundary
  BY DEF AtBoundary
<1>11. Covers' <=> Covers
  BY <1>1 DEF Covers
<1>12. \A p : (IsSource(p)' <=> IsSource(p)) /\ (IsCandidate(p)' <=> IsCandidate(p))
  BY DEF IsSource, IsCandidate
<1>13. QED BY <1>1, <1>2, <1>3, <1>4, <1>5, <1>6, <1>7, <1>8, <1>9, <1>10, <1>11, <1>12

(* A step that leaves the ledger alone, and is not of a rotation.             *)
LEMMA SameLedgerKeeps ==
  ASSUME MemoryInv, SameLedger, Typed', Outbox', Shared', Projects', Durable', Places',
         pc' \in StorePlace => journal = None \/ AtBoundary \/ snapshot = None,
         UNCHANGED plan, pc' = pc \/ pc' \in {"idle"} \union StorePlace
  PROVE  MemoryInv' /\ NothingLost
<1>1. Tidy' /\ Unended' /\ Once' /\ Generations' /\ Journals'
  BY LedgerAsItWas DEF MemoryInv
<1>2. Snapshots'
  <2>1. SUFFICES ASSUME snapshot # None
                 PROVE  /\ (journal = None \/ pc' \in StorePlace) => AtBoundary
                        /\ AtBoundary => Covers
                        /\ snapshot.events \subseteq Stored
                        /\ snapshot.upto > 0 => snapshot.last \in Event
    BY LedgerAsItWas DEF Snapshots, SameLedger
  <2>2. QED BY <2>1 DEF Snapshots, MemoryInv
<1>3. Rotates'
  <2>1. CASE pc' = pc
    BY <2>1, LedgerAsItWas DEF Rotates, MemoryInv, SameLedger, Reanchored, Projected
  <2>2. CASE pc' \in {"idle"} \union StorePlace
    BY <2>2 DEF Rotates, StorePlace, RotationPlace
  <2>3. QED BY <2>1, <2>2
<1>4. NothingLost
  BY LedgerAsItWas DEF NothingLost
<1>5. QED BY <1>1, <1>2, <1>3, <1>4 DEF MemoryInv
-----------------------------------------------------------------------------
LEMMA InitHolds == ASSUME Init PROVE MemoryInv
<1> USE DEF Init, StoreInit, LedgerInit
<1>1. Typed
  <2>1. {e \in Event : outbox[e] # "absent"} = {}
    OBVIOUS
  <2>2. IsFiniteSet({e \in Event : outbox[e] # "absent"})
    BY <2>1, FS_EmptySet
  <2>3. QED BY <2>2, MemoryAssumption DEF Typed
<1>2. Outbox /\ Tidy /\ Unended /\ Generations /\ Snapshots /\ Journals /\ Shared /\ Places
  BY DEF Outbox, Tidy, Unended, Generations, Snapshots, Journals, Shared, Places
<1>3. Once
  BY DEF Once, Kept, IsInjective, Range
<1>4. Projects /\ Rotates /\ Durable
  BY DEF Projects, Rotates, StorePlace, RotationPlace, Durable
<1>5. QED BY <1>1, <1>2, <1>3, <1>4 DEF MemoryInv

(* Producers only touch the outbox and what they know of it.                  *)
LEMMA ProducerKeeps ==
  ASSUME MemoryInv, UNCHANGED <<ledger, shared, candidates, runVars, plan>>,
         Typed', Outbox',
         \A e \in acked' \ acked : outbox'[e] = "whole",
         \A e \in Event : outbox[e] = "whole" => outbox'[e] = "whole"
  PROVE  MemoryInv' /\ NothingLost
<1>1. SameLedger /\ pc' = pc /\ UNCHANGED <<shared, plan, batch, fresh, target>>
  BY DEF SameLedger, ledger, rotated, runVars
<1>2. Stored' = Stored /\ Ledger' = Ledger
  BY <1>1, LedgerAsItWas
<1>3. Shared' /\ Places'
  BY <1>1, <1>2 DEF MemoryInv, Shared, Places
<1>4. Projects'
  BY <1>1, <1>2 DEF MemoryInv, Projects, SameLedger
<1>5. Durable'
  BY <1>2 DEF MemoryInv, Durable, Typed
<1>6. pc' \in StorePlace => journal = None \/ AtBoundary \/ snapshot = None
  BY <1>1 DEF MemoryInv, Snapshots
<1>7. QED BY <1>1, <1>3, <1>4, <1>5, <1>6, SameLedgerKeeps

LEMMA ProducersKeep ==
  ASSUME MemoryInv, Producers, UNCHANGED plan
  PROVE  MemoryInv' /\ NothingLost
<1> DEFINE Some == {e \in Event : outbox[e] # "absent"}
<1>1. PICK e \in Event : Create(e) \/ Write(e) \/ Repeat(e) \/ Collide(e) \/ ProducerDies(e)
  BY DEF Producers
<1>2. /\ Typed /\ Outbox /\ outbox \in [Event -> {"absent", "torn", "whole"}]
      /\ writing \subseteq Event /\ acked \subseteq Event /\ IsFiniteSet(Some)
  BY DEF MemoryInv, Typed
<1>3. /\ outbox' \in [Event -> {"absent", "torn", "whole"}]
      /\ writing' \subseteq Event /\ acked' \subseteq Event
      /\ \A f \in Event \ {e} : outbox'[f] = outbox[f]
      /\ UNCHANGED <<ledger, shared, candidates, runVars>>
  BY <1>1, <1>2 DEF Create, Write, Repeat, Collide, ProducerDies, files
<1>4. IsFiniteSet(Some')
  <2>1. Some' \subseteq Some \union {e}
    BY <1>3
  <2>2. IsFiniteSet(Some \union {e})
    BY <1>2, FS_AddElement
  <2>3. QED BY <2>1, <2>2, FS_Subset
<1>5. Typed'
  BY <1>2, <1>3, <1>4 DEF Typed, ledger, rotated, runVars
<1>6. Outbox' /\ \A f \in acked' \ acked : outbox'[f] = "whole"
  <2>1. batch' = batch /\ \A f \in batch : outbox[f] = "whole"
    BY <1>2, <1>3 DEF Outbox, runVars
  <2>2. batch \subseteq Event /\ \A f \in writing : outbox[f] = "torn"
    BY <1>2 DEF Outbox, Typed
  <2>3. CASE Create(e)
    BY <2>1, <2>2, <2>3, <1>2 DEF Outbox, Create
  <2>4. CASE Write(e)
    BY <2>1, <2>2, <2>4, <1>2 DEF Outbox, Write
  <2>5. CASE Repeat(e)
    BY <2>1, <2>2, <2>5, <1>2 DEF Outbox, Repeat, files
  <2>6. CASE Collide(e)
    BY <2>1, <2>2, <2>6, <1>2 DEF Outbox, Collide, files
  <2>7. CASE ProducerDies(e)
    BY <2>1, <2>2, <2>7, <1>2 DEF Outbox, ProducerDies
  <2>8. QED BY <1>1, <2>3, <2>4, <2>5, <2>6, <2>7
<1>7. \A f \in Event : outbox[f] = "whole" => outbox'[f] = "whole"
  BY <1>1, <1>2, <1>3 DEF Outbox, Create, Write, Repeat, Collide, ProducerDies, files
<1>8. QED BY <1>3, <1>5, <1>6, <1>7, ProducerKeeps

(* A view that reads has no rotation under way and no torn line.              *)
LEMMA ReadableIs ==
  ASSUME MemoryInv, Readable
  PROVE  journal = None /\ ended /\ lines \in Seq(Event) /\ Range(Ledger) \subseteq Event
         /\ Stored = Range(Ledger)
<1>1. Typed /\ Tidy /\ Unended /\ Generations
  BY DEF MemoryInv
<1>2. journal = None /\ Bad \notin Range(lines)
  BY DEF Readable, LedgerOk
<1>3. ended
  <2>1. ended \in BOOLEAN
    BY <1>1 DEF Typed
  <2>2. QED BY <1>1, <1>2, <2>1, TornLine
<1>4. lines \in Seq(Event) /\ Range(lines) \subseteq Event
  BY <1>1, <1>3, WholeLines
<1>5. Range(Ledger) \subseteq Event
  BY <1>1, <1>4, KeptTyped, LedgerParts
<1>6. QED BY <1>2, <1>3, <1>4, <1>5 DEF Stored

(* A snapshot that can be used covers the ledger, with its tail.              *)
LEMMA UsableIs ==
  ASSUME MemoryInv, SnapshotUsable
  PROVE  /\ ended /\ AtBoundary
         /\ Range(Ledger) \subseteq FromSnapshot
         /\ InTail \subseteq Range(Ledger) /\ InTail \subseteq Event
         /\ FromSnapshot \subseteq Stored /\ FromSnapshot \subseteq Event
<1>1. Typed /\ Tidy /\ Unended /\ Generations /\ Snapshots
  BY DEF MemoryInv
<1>2. ended /\ AtBoundary /\ snapshot # None
  BY DEF SnapshotUsable, TailOk, AtBoundary
<1>3. lines \in Seq(Event) /\ Range(lines) \subseteq Event
  BY <1>1, <1>2, WholeLines
<1>4. DOMAIN lines = 1 .. Len(lines) /\ Len(lines) \in Nat
  BY <1>3, LenProperties
<1>5. snapshot.upto \in Nat /\ snapshot.events \subseteq Event
  BY <1>1, <1>2 DEF Typed, Projection
<1>6. Covers /\ snapshot.events \subseteq Stored
  BY <1>1, <1>2 DEF Snapshots
<1>7. Range(lines) \subseteq {lines[i] : i \in 1 .. snapshot.upto} \union InTail
  BY <1>4, <1>5 DEF Range, InTail
<1>8. Range(Ledger) = Range(Kept) \union Range(lines)
  BY <1>1, LedgerParts
<1>9. InTail \subseteq Range(lines)
  BY <1>4, <1>5 DEF InTail, Range
<1>10. Range(Ledger) \subseteq Stored
  BY DEF Stored
<1>11. QED
  BY <1>2, <1>3, <1>5, <1>6, <1>7, <1>8, <1>9, <1>10 DEF FromSnapshot, Covers

LEMMA PlanKeeps ==
  ASSUME MemoryInv, UNCHANGED plan, NEW b \in {{}, Whole}, Plan(b)
  PROVE  MemoryInv' /\ NothingLost
<1>1. /\ pc = "idle" /\ pc' = "append" /\ batch' = b
      /\ UNCHANGED <<files, producerVars, crashes>>
  BY DEF Plan
<1>2. SameLedger /\ UNCHANGED <<outbox, shared, writing, acked, plan>>
  BY <1>1 DEF SameLedger, files, ledger, rotated, producerVars
<1>3. Ledger' = Ledger /\ Stored' = Stored
  BY <1>2, LedgerAsItWas
<1>4. Typed /\ Outbox
  BY DEF MemoryInv
<1>5. b \subseteq Event /\ IsFiniteSet(b) /\ \A e \in b : outbox[e] = "whole"
  <2>1. b \subseteq {e \in Event : outbox[e] # "absent"}
    BY DEF Whole
  <2>2. IsFiniteSet(b)
    BY <2>1, <1>4, FS_Subset DEF Typed
  <2>3. QED BY <2>1, <2>2 DEF Whole
<1>6. PICK r : /\ fresh' = SetToSeq(r)
               /\ \/ /\ Readable /\ r = b \ Range(Ledger)
                     /\ target' = Range(Ledger) \union b
                  \/ /\ Incremental(b) /\ r = b \ InTail
                     /\ target' = FromSnapshot \union b
  BY DEF Plan
<1>7. IsFiniteSet(r) /\ r \subseteq Event
  BY <1>5, <1>6, FS_Difference
<1>8. fresh' \in Seq(r) /\ Range(fresh') = r /\ IsInjective(fresh')
  BY <1>6, <1>7, InSomeOrder
<1>9. fresh' \in Seq(Event)
  BY <1>7, <1>8, SeqMonotonic
<1>10. /\ ended /\ target' \subseteq Event
       /\ journal = None \/ AtBoundary
       /\ r \cap Range(Ledger) = {}
       /\ Range(Ledger) \union r \subseteq target'
       /\ target' \subseteq Stored \union r
       /\ b \subseteq Range(Ledger) \union r
  <2>1. CASE Readable /\ r = b \ Range(Ledger) /\ target' = Range(Ledger) \union b
    BY <2>1, <1>5, ReadableIs
  <2>2. CASE Incremental(b) /\ r = b \ InTail /\ target' = FromSnapshot \union b
    <3>1. SnapshotUsable /\ b \cap snapshot.events = {}
      BY <2>2 DEF Incremental
    <3>2. FromSnapshot = snapshot.events \union InTail
      BY DEF FromSnapshot
    <3>3. Range(Ledger) \subseteq Stored
      BY DEF Stored
    <3>4. QED BY <2>2, <3>1, <3>2, <3>3, <1>5, UsableIs
  <2>3. QED BY <1>6, <2>1, <2>2
<1>11. Typed'
  BY <1>2, <1>4, <1>1, <1>5, <1>9, <1>10 DEF Typed, SameLedger
<1>12. Outbox' /\ Shared' /\ Durable' /\ Places'
  BY <1>1, <1>2, <1>3, <1>5 DEF MemoryInv, Outbox, Shared, Durable, Places, StorePlace
<1>13. Projects'
  BY <1>1, <1>2, <1>3, <1>8, <1>10 DEF Projects, SameLedger, StorePlace
<1>14. QED BY <1>1, <1>2, <1>10, <1>11, <1>12, <1>13, SameLedgerKeeps DEF StorePlace
-----------------------------------------------------------------------------
(* Projections and removals leave the ledger alone.                           *)
LEMMA PublishKeeps ==
  ASSUME MemoryInv, PublishShared \/ PublishCandidates, UNCHANGED plan
  PROVE  MemoryInv' /\ NothingLost
<1>1. /\ pc \in StorePlace \ {"append"} /\ pc' \in StorePlace \ {"append"}
      /\ UNCHANGED <<outbox, ledger, producerVars, batch, fresh, target, crashes>>
      /\ shared' \in {shared, target}
  BY DEF PublishShared, PublishCandidates, StorePlace
<1>2. SameLedger /\ UNCHANGED <<writing, acked>>
  BY <1>1 DEF SameLedger, ledger, rotated, producerVars
<1>3. Ledger' = Ledger /\ Stored' = Stored
  BY <1>2, LedgerAsItWas
<1>4. Typed /\ Projects /\ Shared /\ Durable /\ Outbox /\ Snapshots
  BY DEF MemoryInv
<1>5. Typed' /\ Outbox' /\ Durable' /\ Places'
  BY <1>1, <1>2, <1>3, <1>4 DEF Typed, Outbox, Durable, Places, SameLedger
<1>6. target \subseteq Stored /\ Projects'
  BY <1>1, <1>2, <1>3, <1>4 DEF Projects, SameLedger
<1>7. Shared'
  BY <1>1, <1>3, <1>4, <1>6 DEF Shared
<1>8. journal = None \/ AtBoundary \/ snapshot = None
  BY <1>1, <1>4 DEF Snapshots
<1>9. QED BY <1>1, <1>2, <1>5, <1>6, <1>7, <1>8, SameLedgerKeeps

LEMMA UnlinkKeeps ==
  ASSUME MemoryInv, NEW e \in Event, Unlink(e), UNCHANGED plan
  PROVE  MemoryInv' /\ NothingLost
<1> DEFINE Some == {f \in Event : outbox[f] # "absent"}
<1>1. /\ pc = "unlink" /\ e \in batch /\ batch' = batch \ {e}
      /\ outbox' = [outbox EXCEPT ![e] = "absent"]
      /\ UNCHANGED <<ledger, shared, producerVars, pc, fresh, target, crashes>>
  BY DEF Unlink
<1>2. SameLedger /\ UNCHANGED <<writing, acked>>
  BY <1>1 DEF SameLedger, ledger, rotated, producerVars
<1>3. Ledger' = Ledger /\ Stored' = Stored
  BY <1>2, LedgerAsItWas
<1>4. Typed /\ Projects /\ Shared /\ Durable /\ Outbox /\ Snapshots
  BY DEF MemoryInv
<1>5. outbox \in [Event -> {"absent", "torn", "whole"}] /\ IsFiniteSet(Some)
  BY <1>4 DEF Typed
<1>6. IsFiniteSet(Some')
  <2>1. Some' \subseteq Some
    BY <1>1, <1>5
  <2>2. QED BY <2>1, <1>5, FS_Subset
<1>7. Typed'
  BY <1>1, <1>2, <1>4, <1>5, <1>6 DEF Typed, SameLedger
<1>8. outbox[e] = "whole" /\ Outbox'
  BY <1>1, <1>2, <1>4, <1>5 DEF Outbox, Typed
<1>9. e \in Stored
  BY <1>1, <1>4 DEF Projects, StorePlace, Stored
<1>10. Durable'
  BY <1>1, <1>2, <1>3, <1>4, <1>5, <1>9 DEF Durable, Typed
<1>11. Shared' /\ Places' /\ Projects'
  BY <1>1, <1>2, <1>3, <1>4 DEF Shared, Places, Projects, SameLedger, StorePlace
<1>12. journal = None \/ AtBoundary \/ snapshot = None
  BY <1>1, <1>4 DEF Snapshots, StorePlace
<1>13. QED BY <1>1, <1>2, <1>7, <1>8, <1>10, <1>11, <1>12, SameLedgerKeeps

(* The lock is given up with the ledger as it is.                             *)
LEMMA EndKeeps ==
  ASSUME MemoryInv, EndRun, SameLedger, UNCHANGED <<outbox, shared, writing, acked>>,
         plan' = plan \/ plan' = None
  PROVE  MemoryInv' /\ NothingLost
<1>1. Ledger' = Ledger /\ Stored' = Stored
  BY LedgerAsItWas
<1>2. /\ pc' = "idle" /\ batch' = {} /\ fresh' = <<>> /\ target' = {}
  BY DEF EndRun
<1>3. Typed /\ Shared /\ Durable /\ Outbox /\ Snapshots
  BY DEF MemoryInv
<1>4. Typed' /\ Outbox'
  BY <1>2, <1>3 DEF Typed, Outbox, SameLedger
<1>5. Shared' /\ Durable' /\ Places'
  BY <1>1, <1>2, <1>3 DEF Shared, Durable, Places
<1>6. Projects' /\ Rotates'
  BY <1>2 DEF Projects, Rotates, StorePlace, RotationPlace
<1>7. Tidy' /\ Unended' /\ Once' /\ Generations' /\ Journals'
  BY LedgerAsItWas DEF MemoryInv
<1>8. Snapshots'
  <2>1. SUFFICES ASSUME snapshot # None
                 PROVE  /\ journal = None => AtBoundary
                        /\ AtBoundary => Covers
                        /\ snapshot.events \subseteq Stored
                        /\ snapshot.upto > 0 => snapshot.last \in Event
    BY <1>2, LedgerAsItWas DEF Snapshots, SameLedger, StorePlace
  <2>2. QED BY <2>1, <1>3 DEF Snapshots
<1>9. NothingLost
  BY <1>1 DEF NothingLost
<1>10. QED BY <1>4, <1>5, <1>6, <1>7, <1>8, <1>9 DEF MemoryInv

(* The ledger grows by events it does not hold, perhaps a cut one at the end. *)
LEMMA Grows ==
  ASSUME MemoryInv, pc \in StorePlace, NEW s \in Seq(Event \union {Bad}),
         lines' = lines \o s, UNCHANGED <<snapshot, rotated>>, ended' \in BOOLEAN,
         IsInjective(s), Range(s) \cap Range(Ledger) = {},
         \A i \in DOMAIN s : s[i] = Bad <=> i = Len(s) /\ ~ended',
         ended' \/ s # <<>>
  PROVE  /\ lines' \in Seq(Event \union {Bad})
         /\ Tidy' /\ Unended' /\ Once' /\ Generations' /\ Journals'
         /\ Kept' = Kept /\ Range(Ledger') = Range(Ledger) \union Range(s)
         /\ Stored' = Stored \union Range(s)
         /\ snapshot # None => AtBoundary' /\ Covers'
<1>1. /\ Typed /\ Tidy /\ Unended /\ Once /\ Generations /\ Journals /\ Projects
      /\ Snapshots
  BY DEF MemoryInv
<1>2. ended
  BY <1>1 DEF Projects
<1>3. /\ lines \in Seq(Event \union {Bad}) /\ DOMAIN lines = 1 .. Len(lines)
      /\ Len(lines) \in Nat /\ DOMAIN s = 1 .. Len(s) /\ Len(s) \in Nat
  BY <1>1, LenProperties DEF Typed
<1>4. lines' \in Seq(Event \union {Bad}) /\ Range(lines') = Range(lines) \union Range(s)
  BY <1>3, RangeJoin
<1>5. /\ Len(lines') = Len(lines) + Len(s) /\ DOMAIN lines' = 1 .. Len(lines')
      /\ \A i \in 1 .. Len(lines) : lines'[i] = lines[i]
      /\ \A i \in 1 .. Len(s) : lines'[Len(lines) + i] = s[i]
      /\ \A i \in 1 .. Len(lines') :
           i \in 1 .. Len(lines) \/ \E j \in 1 .. Len(s) : i = Len(lines) + j
  BY <1>3, <1>4, ConcatProperties
<1>6. Tidy'
  <2> SUFFICES ASSUME NEW i \in 1 .. Len(lines')
               PROVE  lines'[i] = Bad <=> i = Len(lines') /\ ~ended'
    BY <1>5 DEF Tidy
  <2>1. CASE i \in 1 .. Len(lines)
    <3>1. lines'[i] # Bad
      BY <2>1, <1>1, <1>2, <1>3, <1>5 DEF Tidy
    <3>2. ~ended' => Len(s) # 0
      BY <1>3, EmptySeq
    <3>3. QED BY <3>1, <3>2, <2>1, <1>3, <1>5
  <2>2. CASE \E j \in 1 .. Len(s) : i = Len(lines) + j
    <3>1. PICK j \in 1 .. Len(s) : i = Len(lines) + j
      BY <2>2
    <3>2. lines'[i] = s[j] /\ (s[j] = Bad <=> j = Len(s) /\ ~ended')
      BY <3>1, <1>3, <1>5
    <3>3. i = Len(lines') <=> j = Len(s)
      <4>1. Len(lines') = Len(lines) + Len(s)
        BY <1>5
      <4>2. j \in Nat /\ Len(lines) \in Nat /\ Len(s) \in Nat
        BY <1>3
      <4>3. PICK a, b, c : a = Len(lines) /\ b = Len(s) /\ c = Len(lines')
        OBVIOUS
      <4>4. c = a + b /\ i = a + j /\ a \in Nat /\ b \in Nat /\ j \in Nat
        BY <4>1, <4>2, <4>3, <3>1
      <4>5. i = c <=> j = b
        BY <4>4
      <4>6. QED BY <4>3, <4>5
    <3>4. QED BY <3>2, <3>3
  <2>3. QED BY <2>1, <2>2, <1>5
<1>7. Kept' = Kept
  BY DEF Kept, rotated
<1>8. Kept \in Seq(Event) /\ Range(Ledger) = Range(Kept) \union Range(lines)
  BY <1>1, KeptTyped, LedgerParts
<1>9. Once'
  <2>1. IsInjective(lines \o s)
    BY <1>1, <1>3, <1>8, InjectiveJoin DEF Once
  <2>2. Range(Kept) \cap Range(lines') = {}
    BY <1>1, <1>4, <1>8 DEF Once
  <2>3. QED BY <2>1, <2>2, <1>1, <1>7 DEF Once
<1>10. lines # <<>> => lines' # <<>> /\ lines'[1] = lines[1]
  <2>1. lines # <<>> => Len(lines) > 0
    BY <1>3, EmptySeq
  <2>2. Len(lines') > 0 => lines' # <<>>
    BY <1>4, EmptySeq
  <2>3. QED BY <2>1, <2>2, <1>3, <1>5
<1>11. Unended'
  <2>1. CASE ended'
    BY <2>1 DEF Unended
  <2>2. CASE ~ended'
    <3>1. Len(lines') > 0
      BY <2>2, <1>3, <1>5, EmptySeq
    <3>2. QED BY <3>1, <1>4, EmptySeq DEF Unended
  <2>3. QED BY <2>1, <2>2
<1>12. Generations'
  BY <1>1, <1>10 DEF Generations, rotated
<1>13. Journals'
  <2>1. \A p : PlanOk(p)' <=> PlanOk(p)
    BY DEF PlanOk, Before, rotated
  <2>2. \A t : Continues(t) => Continues(t)'
    BY <1>10 DEF Continues
  <2>3. QED BY <2>1, <2>2, <1>1 DEF Journals, rotated
<1>14. Range(Ledger') = Range(Ledger) \union Range(s)
  <2>1. Kept' \in Seq(Event \union {Bad})
    BY <1>1, <1>7, KeptTyped
  <2>2. PICK k, l : k = Kept' /\ l = lines'
    OBVIOUS
  <2> k \in Seq(Event \union {Bad}) /\ l \in Seq(Event \union {Bad})
    BY <2>1, <2>2, <1>4
  <2>3. Range(k \o l) = Range(k) \union Range(l)
    BY RangeJoin
  <2>4. Ledger' = k \o l
    BY <2>2 DEF Ledger
  <2>5. QED BY <2>2, <2>3, <2>4, <1>4, <1>7, <1>8
<1>15. Stored' = Stored \union Range(s)
  BY <1>14 DEF Stored, rotated
<1>16. ASSUME snapshot # None PROVE AtBoundary' /\ Covers'
  <2>1. AtBoundary /\ Covers /\ snapshot.upto \in Nat
    BY <1>1, <1>16 DEF Snapshots, Typed, Projection
  <2>2. \A i \in 1 .. snapshot.upto : lines'[i] = lines[i]
    BY <2>1, <1>3, <1>5 DEF AtBoundary
  <2>3. AtBoundary'
    BY <2>1, <2>2, <1>3, <1>5 DEF AtBoundary
  <2>4. {lines'[i] : i \in 1 .. snapshot.upto} = {lines[i] : i \in 1 .. snapshot.upto}
    BY <2>2
  <2>5. Covers'
    BY <2>1, <2>4, <1>7 DEF Covers
  <2>6. QED BY <2>3, <2>5
<1>17. QED
  BY <1>4, <1>6, <1>7, <1>9, <1>11, <1>12, <1>13, <1>14, <1>15, <1>16

LEMMA AppendKeeps ==
  ASSUME MemoryInv, AppendLedger, UNCHANGED plan
  PROVE  MemoryInv' /\ NothingLost
<1>1. /\ pc = "append" /\ pc' = "shared" /\ lines' = Joined(fresh)
      /\ ended' = (ended \/ fresh # <<>>)
      /\ UNCHANGED <<outbox, shared, snapshot, rotated, producerVars, batch, fresh,
                     target, crashes>>
  BY DEF AppendLedger
<1>2. Typed /\ Outbox /\ Projects /\ Durable /\ Shared /\ Snapshots /\ Tidy
  BY DEF MemoryInv
<1>3. ended /\ fresh \in Seq(Event) /\ IsInjective(fresh) /\ Range(fresh) \cap Range(Ledger) = {}
  BY <1>1, <1>2 DEF Projects, Typed, StorePlace
<1>4. lines' = lines \o fresh /\ ended'
  BY <1>1, <1>3 DEF Joined
<1>5. fresh \in Seq(Event \union {Bad}) /\ \A i \in DOMAIN fresh : fresh[i] # Bad
  BY <1>3, SeqMonotonic, MemoryAssumption
<1>6. /\ lines' \in Seq(Event \union {Bad})
      /\ Tidy' /\ Unended' /\ Once' /\ Generations' /\ Journals'
      /\ Range(Ledger') = Range(Ledger) \union Range(fresh)
      /\ Stored' = Stored \union Range(fresh)
      /\ snapshot # None => AtBoundary' /\ Covers'
  <2>1. pc \in StorePlace /\ ended' \in BOOLEAN
    BY <1>1, <1>4 DEF StorePlace
  <2>2. QED BY <2>1, <1>1, <1>3, <1>4, <1>5, Grows
<1>7. Typed' /\ Outbox'
  BY <1>1, <1>2, <1>4, <1>6 DEF Typed, Outbox, rotated, producerVars
<1>8. Shared' /\ Durable' /\ Places'
  BY <1>1, <1>2, <1>6 DEF Shared, Durable, Places, StorePlace, producerVars
<1>9. Snapshots'
  BY <1>1, <1>2, <1>6 DEF Snapshots, rotated
<1>10. Projects'
  BY <1>1, <1>2, <1>4, <1>6 DEF Projects, StorePlace
<1>11. Rotates'
  BY <1>1 DEF Rotates, RotationPlace
<1>12. NothingLost
  BY <1>6 DEF NothingLost
<1>13. QED BY <1>6, <1>7, <1>8, <1>9, <1>10, <1>11, <1>12 DEF MemoryInv
-----------------------------------------------------------------------------
LEMMA CrashKeeps ==
  ASSUME MemoryInv, CutInside, Crash, UNCHANGED plan
  PROVE  MemoryInv' /\ NothingLost
<1>1. /\ EndRun /\ pc \in StorePlace
      /\ UNCHANGED <<outbox, shared, candidates, snapshot, rotated, producerVars>>
  BY DEF Crash
<1>2. Typed /\ Outbox /\ Projects /\ Durable /\ Shared /\ Snapshots /\ Tidy
  BY DEF MemoryInv
<1>3. CASE UNCHANGED <<lines, ended>>
  <2>1. SameLedger /\ UNCHANGED <<outbox, shared, writing, acked>>
    BY <1>1, <1>3 DEF SameLedger, rotated, producerVars
  <2>2. QED BY <2>1, <1>1, EndKeeps
<1>4. ASSUME NEW s \in Seq(Event \union {Bad}), lines' = lines \o s, ended' \in BOOLEAN,
             IsInjective(s), Range(s) \cap Range(Ledger) = {},
             \A i \in DOMAIN s : s[i] = Bad <=> i = Len(s) /\ ~ended',
             ended' \/ s # <<>>
      PROVE  MemoryInv' /\ NothingLost
  <2>1. /\ lines' \in Seq(Event \union {Bad})
        /\ Tidy' /\ Unended' /\ Once' /\ Generations' /\ Journals'
        /\ Range(Ledger') = Range(Ledger) \union Range(s)
        /\ Stored' = Stored \union Range(s)
        /\ snapshot # None => AtBoundary' /\ Covers'
    BY <1>1, <1>4, Grows
  <2>2. /\ pc' = "idle" /\ batch' = {} /\ fresh' = <<>> /\ target' = {}
    BY <1>1 DEF EndRun
  <2>3. Typed' /\ Outbox'
    BY <1>1, <1>2, <1>4, <2>1, <2>2 DEF Typed, Outbox, rotated, producerVars
  <2>4. Shared' /\ Durable' /\ Places'
    BY <1>1, <1>2, <2>1, <2>2 DEF Shared, Durable, Places, producerVars
  <2>5. Snapshots'
    BY <1>1, <1>2, <2>1 DEF Snapshots, rotated
  <2>6. Projects' /\ Rotates'
    BY <2>2 DEF Projects, Rotates, StorePlace, RotationPlace
  <2>7. NothingLost
    BY <2>1 DEF NothingLost
  <2>8. QED BY <2>1, <2>3, <2>4, <2>5, <2>6, <2>7 DEF MemoryInv
<1>5. ASSUME pc = "append", NEW n \in 1 .. Len(fresh),
             \/ /\ lines' = lines \o SubSeq(fresh, 1, n)
                /\ \/ ended' = TRUE
                   \/ "unterminated" \in TearKinds /\ ended' = FALSE
             \/ /\ "inside" \in TearKinds
                /\ lines' = lines \o SubSeq(fresh, 1, n - 1) \o <<Bad>>
                /\ ended' = FALSE
      PROVE  MemoryInv' /\ NothingLost
  <2>1. fresh \in Seq(Event) /\ IsInjective(fresh) /\ Range(fresh) \cap Range(Ledger) = {}
    BY <1>2, <1>5 DEF Typed, Projects, StorePlace
  <2>2. n \in 0 .. Len(fresh) /\ n - 1 \in 0 .. Len(fresh)
    BY <2>1, LenProperties
  <2>3. CASE lines' = lines \o SubSeq(fresh, 1, n) /\ ended' = TRUE
    <3>1. PICK s : s = SubSeq(fresh, 1, n)
      OBVIOUS
    <3>2. s \in Seq(Event) /\ Range(s) \subseteq Range(fresh) /\ IsInjective(s)
      BY <3>1, <2>1, <2>2, PartOf
    <3>3. s \in Seq(Event \union {Bad}) /\ \A i \in DOMAIN s : s[i] # Bad
      BY <3>2, SeqMonotonic, MemoryAssumption
    <3>4. Range(s) \cap Range(Ledger) = {} /\ lines' = lines \o s /\ ended'
      BY <3>1, <3>2, <2>1, <2>3
    <3>5. QED BY <3>2, <3>3, <3>4, <1>4
  <2>4. CASE lines' = lines \o SubSeq(fresh, 1, n - 1) \o <<Bad>> /\ ended' = FALSE
    <3>1. PICK r : r = SubSeq(fresh, 1, n - 1)
      OBVIOUS
    <3>2. r \in Seq(Event) /\ Range(r) \subseteq Range(fresh) /\ IsInjective(r)
      BY <3>1, <2>1, <2>2, PartOf
    <3>3. r \in Seq(Event \union {Bad}) /\ \A i \in DOMAIN r : r[i] # Bad
      BY <3>2, SeqMonotonic, MemoryAssumption
    <3>4. PICK t : t = <<Bad>>
      OBVIOUS
    <3>5. /\ t \in Seq(Event \union {Bad}) /\ Range(t) = {Bad} /\ IsInjective(t)
          /\ Len(t) = 1 /\ t[1] = Bad
      BY <3>4 DEF Range, IsInjective
    <3>6. PICK s : s = r \o t
      OBVIOUS
    <3>7. s \in Seq(Event \union {Bad}) /\ Range(s) = Range(r) \union {Bad}
      BY <3>3, <3>5, <3>6, RangeJoin
    <3>8. Bad \notin Range(r)
      BY <3>3 DEF Range
    <3>9. IsInjective(s)
      BY <3>2, <3>3, <3>5, <3>6, <3>8, InjectiveJoin
    <3>10. Bad \notin Range(Ledger)
      <4>1. ended
        BY <1>1, <1>2 DEF Projects
      <4>2. Bad \notin Range(lines) /\ Generations
        BY <4>1, <1>2, WholeLines DEF MemoryInv
      <4>3. QED BY <4>2, <1>2, KeptTyped, LedgerParts, MemoryAssumption
    <3>11. Range(s) \cap Range(Ledger) = {}
      BY <3>2, <3>7, <3>10, <2>1
    <3>12. /\ DOMAIN s = 1 .. Len(r) + 1 /\ Len(s) = Len(r) + 1
           /\ s[Len(r) + 1] = Bad /\ \A i \in 1 .. Len(r) : s[i] = r[i]
           /\ DOMAIN r = 1 .. Len(r) /\ Len(r) \in Nat
      <4>1. Len(r) \in Nat /\ DOMAIN r = 1 .. Len(r)
        BY <3>3, LenProperties
      <4>2. /\ Len(s) = Len(r) + Len(t)
            /\ \A i \in 1 .. Len(r) + Len(t) :
                 s[i] = IF i <= Len(r) THEN r[i] ELSE t[i - Len(r)]
        BY <3>3, <3>5, <3>6, ConcatProperties
      <4>3. DOMAIN s = 1 .. Len(s)
        BY <3>7, LenProperties
      <4>4. QED BY <4>1, <4>2, <4>3, <3>5
    <3>13. \A i \in DOMAIN s : s[i] = Bad <=> i = Len(s)
      BY <3>3, <3>12
    <3>14. lines' = lines \o s
      <4>1. lines \in Seq(Event \union {Bad})
        BY <1>2 DEF Typed
      <4>2. (lines \o r) \o t = lines \o (r \o t)
        BY <4>1, <3>3, <3>5, ConcatAssociative
      <4>3. QED BY <4>2, <2>4, <3>1, <3>4, <3>6
    <3>15. s # <<>>
      BY <3>12
    <3>16. QED BY <3>7, <3>9, <3>11, <3>13, <3>14, <3>15, <2>4, <1>4
  <2>5. QED BY <1>5, <2>3, <2>4 DEF CutInside
<1>6. QED BY <1>3, <1>5 DEF Crash

LEMMA WriteSnapshotKeeps ==
  ASSUME MemoryInv, WriteSnapshot, UNCHANGED plan
  PROVE  MemoryInv' /\ NothingLost
<1>1. /\ pc = "snapshot" /\ pc' = "unlink"
      /\ UNCHANGED <<outbox, lines, ended, rotated, shared, producerVars, batch, fresh,
                     target, crashes>>
  BY DEF WriteSnapshot
<1>2. /\ Typed /\ Outbox /\ Projects /\ Durable /\ Shared /\ Snapshots /\ Tidy
      /\ Unended /\ Once /\ Generations /\ Journals
  BY DEF MemoryInv
<1>3. /\ ended /\ Range(Ledger) \subseteq target /\ target \subseteq Stored
      /\ batch \subseteq Range(Ledger) /\ target \subseteq Event
      /\ snapshot # None => AtBoundary
  BY <1>1, <1>2 DEF Projects, StorePlace, Typed, Snapshots
<1>4. Bad \notin Range(lines) /\ lines \in Seq(Event)
  BY <1>2, <1>3, WholeLines
<1>5. lines # <<>> => /\ Last(lines) \in Event /\ Last(lines) = lines[Len(lines)]
                      /\ Len(lines) > 0
  <2> SUFFICES ASSUME lines # <<>>
               PROVE  /\ Last(lines) \in Event /\ Last(lines) = lines[Len(lines)]
                      /\ Len(lines) > 0
    OBVIOUS
  <2>1. /\ Last(lines) \in Event /\ Last(lines) = lines[Len(lines)]
        /\ Len(lines) \in Nat \ {0}
    BY <1>4, FrontLast
  <2>2. QED BY <2>1
<1>6. Len(lines) \in Nat /\ DOMAIN lines = 1 .. Len(lines)
  BY <1>4, LenProperties
<1>7. PICK n, l : /\ snapshot' = Projected(n, l, target, 0)
                  /\ n = Len(lines)
                  /\ n > 0 => l = lines[n] /\ l \in Event
                  /\ l \in Event \union {None}
  <2>1. CASE lines = <<>>
    BY <2>1, <1>6, EmptySeq DEF WriteSnapshot
  <2>2. CASE lines # <<>>
    <3>1. Last(lines) # Bad
      BY <2>2, <1>5, MemoryAssumption
    <3>2. snapshot' = Projected(Len(lines), Last(lines), target, 0)
      BY <2>2, <3>1, <1>3 DEF WriteSnapshot
    <3>3. QED BY <3>2, <2>2, <1>5
  <2>3. QED BY <2>1, <2>2
<1>8. /\ snapshot' \in Projection /\ snapshot' # None
      /\ snapshot'.upto = n /\ snapshot'.last = l /\ snapshot'.events = target
  BY <1>3, <1>6, <1>7, MemoryAssumption, FileAssumption DEF Projected, Projection
<1>9. Kept' = Kept /\ Ledger' = Ledger /\ Stored' = Stored
  BY <1>1 DEF Kept, Ledger, Stored, rotated
<1>10. Tidy' /\ Unended' /\ Once' /\ Generations'
  BY <1>1, <1>2, <1>9 DEF Tidy, Unended, Once, Generations, rotated
<1>11. AtBoundary' /\ Covers'
  <2>1. AtBoundary'
    BY <1>1, <1>6, <1>7, <1>8 DEF AtBoundary
  <2>2. {lines[i] : i \in 1 .. n} \subseteq Range(lines)
    BY <1>6, <1>7 DEF Range
  <2>3. Range(Kept) \union Range(lines) \subseteq target
    BY <1>2, <1>3, LedgerParts
  <2>4. {lines'[i] : i \in 1 .. snapshot'.upto} = {lines[i] : i \in 1 .. n}
    BY <1>1, <1>8
  <2>5. QED BY <2>1, <2>2, <2>3, <2>4, <1>8, <1>9 DEF Covers
<1>12. Snapshots'
  BY <1>3, <1>7, <1>8, <1>9, <1>11 DEF Snapshots
<1>13. Journals'
  <2>1. SUFFICES ASSUME journal # None PROVE Journals'
    BY <1>1 DEF Journals, rotated
  <2>2. \A p : PlanOk(p)' <=> PlanOk(p)
    BY <1>1 DEF PlanOk, Before, rotated
  <2>3. \A s : Continues(s)' <=> Continues(s)
    BY <1>1 DEF Continues
  <2>4. snapshot # None /\ snapshot.upto > 0 /\ snapshot.upto <= Len(lines)
    BY <2>1, <1>2, <1>3 DEF Journals, AtBoundary
  <2>5. snapshot.upto \in Nat /\ Len(journal.plan.source) \in Nat
    <3>1. journal.plan.source \in Seq(Event)
      BY <2>1, <1>2 DEF Journals, PlanOk, RotationPlan
    <3>2. QED BY <3>1, <2>4, <1>2, LenProperties DEF Typed, Projection
  <2>6. /\ snapshot'.upto > 0
        /\ Len(journal.plan.source) <= snapshot.upto =>
             Len(journal.plan.source) <= snapshot'.upto
    BY <2>4, <2>5, <1>6, <1>7, <1>8
  <2>7. QED BY <2>1, <2>2, <2>3, <2>6, <1>1, <1>2, <1>8 DEF Journals, rotated
<1>14. Typed' /\ Outbox'
  BY <1>1, <1>2, <1>8 DEF Typed, Outbox, rotated, producerVars
<1>15. Shared' /\ Durable' /\ Places'
  BY <1>1, <1>2, <1>9 DEF Shared, Durable, Places, StorePlace, producerVars
<1>16. Projects' /\ Rotates'
  BY <1>1, <1>3, <1>9 DEF Projects, Rotates, StorePlace, RotationPlace
<1>17. NothingLost
  BY <1>9 DEF NothingLost
<1>18. QED BY <1>10, <1>12, <1>13, <1>14, <1>15, <1>16, <1>17 DEF MemoryInv
-----------------------------------------------------------------------------
LEMMA RepairKeeps ==
  ASSUME MemoryInv, Repair, UNCHANGED plan
  PROVE  MemoryInv' /\ NothingLost
<1>1. /\ pc = "idle" /\ pc' = "idle" /\ ~LedgerOk /\ lines' = EventLines /\ ended' = TRUE
      /\ UNCHANGED <<outbox, shared, snapshot, rotated, producerVars, batch, fresh,
                     target, crashes>>
  BY DEF Repair, runVars
<1>2. /\ Typed /\ Outbox /\ Projects /\ Durable /\ Shared /\ Snapshots /\ Tidy
      /\ Unended /\ Once /\ Generations /\ Journals
  BY DEF MemoryInv
<1>3. ~ended
  BY <1>1, <1>2, WholeLines DEF LedgerOk, Once
<1>4. /\ lines # <<>> /\ Last(lines) = Bad
      /\ \A i \in DOMAIN lines : lines[i] = Bad <=> i = Len(lines)
      /\ lines \in Seq(Event \union {Bad})
  BY <1>2, <1>3, TornLine DEF Typed
<1>5. lines' = Front(lines)
  BY <1>1, <1>4, EventLinesAre
<1>6. /\ lines' \in Seq(Event \union {Bad}) /\ Len(lines') = Len(lines) - 1
      /\ Len(lines) \in Nat \ {0}
  BY <1>4, <1>5, FrontLast
<1>7. /\ Range(lines) = Range(lines') \union {Bad}
      /\ IsInjective(lines')
  BY <1>2, <1>4, <1>5, LastApart DEF Once
<1>8. /\ DOMAIN lines' = 1 .. Len(lines') /\ DOMAIN lines = 1 .. Len(lines)
      /\ Len(lines') \in Nat
      /\ \A i \in 1 .. Len(lines') : lines'[i] = lines[i]
  <2>1. lines = lines' \o <<Bad>>
    BY <1>4, <1>5, FrontLast
  <2>2. PICK k : k = lines'
    OBVIOUS
  <2>3. k \in Seq(Event \union {Bad}) /\ Len(k) = Len(lines) - 1 /\ lines = k \o <<Bad>>
    BY <2>1, <2>2, <1>6
  <2>4. /\ DOMAIN k = 1 .. Len(k) /\ DOMAIN lines = 1 .. Len(lines) /\ Len(k) \in Nat
    BY <2>3, <1>4, LenProperties
  <2>5. \A i \in 1 .. Len(k) : k[i] = lines[i]
    BY <2>3, <2>4
  <2>6. QED BY <2>2, <2>4, <2>5
<1>9. Tidy' /\ Unended'
  <2>1. \A i \in DOMAIN lines' : lines'[i] # Bad
    <3> TAKE i \in DOMAIN lines'
    <3>1. i \in 1 .. Len(lines') /\ i \in DOMAIN lines /\ i # Len(lines)
      BY <1>6, <1>8
    <3>2. QED BY <3>1, <1>4, <1>8
  <2>2. QED BY <2>1, <1>1 DEF Tidy, Unended
<1>10. Kept' = Kept
  BY <1>1 DEF Kept, rotated
<1>11. Once'
  BY <1>2, <1>7, <1>10 DEF Once
<1>12. lines[1] # Bad => lines' # <<>> /\ lines'[1] = lines[1]
  <2> SUFFICES ASSUME lines[1] # Bad
               PROVE  lines' # <<>> /\ lines'[1] = lines[1]
    OBVIOUS
  <2>1. Len(lines) # 1
    BY <1>4, <1>8
  <2>2. Len(lines') > 0
    BY <2>1, <1>6, <1>8
  <2>3. lines' # <<>>
    BY <2>2, <1>6, EmptySeq
  <2>4. QED BY <2>2, <2>3, <1>8
<1>13. Generations'
  BY <1>1, <1>2, <1>12 DEF Generations, rotated
<1>14. Range(Ledger) = Range(Ledger') \union {Bad}
  <2>1. Kept \in Seq(Event \union {Bad}) /\ Range(Ledger) = Range(Kept) \union Range(lines)
    BY <1>2, KeptTyped, LedgerParts
  <2>2. PICK k, l : k = Kept' /\ l = lines'
    OBVIOUS
  <2> k \in Seq(Event \union {Bad}) /\ l \in Seq(Event \union {Bad})
    BY <2>1, <2>2, <1>6, <1>10
  <2>3. Range(k \o l) = Range(k) \union Range(l)
    BY RangeJoin
  <2>4. Ledger' = k \o l
    BY <2>2 DEF Ledger
  <2>5. QED BY <2>1, <2>2, <2>3, <2>4, <1>7, <1>10
<1>15. Stored \subseteq Stored' \union {Bad}
  BY <1>1, <1>14 DEF Stored, rotated
<1>16. Journals'
  <2>1. SUFFICES ASSUME journal # None PROVE Journals'
    BY <1>1 DEF Journals, rotated
  <2>2. \A p : PlanOk(p)' <=> PlanOk(p)
    BY <1>1 DEF PlanOk, Before, rotated
  <2>3. PICK p : p = journal.plan
    OBVIOUS
  <2>4. Continues(p.events) => Continues(p.events)'
    <3> SUFFICES ASSUME Continues(p.events) PROVE Continues(p.events)'
      OBVIOUS
    <3>1. p.events \in Seq(Event) /\ p.events # <<>> /\ lines[1] = Last(p.events)
      BY <2>1, <2>3, <1>2 DEF Journals, PlanOk, RotationPlan, Continues
    <3>2. Last(p.events) \in Event
      BY <3>1, FrontLast
    <3>3. lines[1] # Bad
      BY <3>1, <3>2, MemoryAssumption
    <3>4. QED BY <3>1, <3>3, <1>12 DEF Continues
  <2>5. QED BY <2>1, <2>2, <2>3, <2>4, <1>1, <1>2 DEF Journals, rotated
<1>17. Snapshots'
  <2> SUFFICES ASSUME snapshot # None PROVE Snapshots'
    BY <1>1 DEF Snapshots
  <2>1. /\ snapshot.upto \in Nat /\ snapshot.events \subseteq Event
        /\ snapshot.upto > 0 => snapshot.last \in Event
    BY <1>2 DEF Typed, Projection, Snapshots
  <2>2. AtBoundary <=> AtBoundary'
    <3>1. AtBoundary => snapshot.upto # Len(lines)
      BY <2>1, <1>4, <1>6, <1>8, MemoryAssumption DEF AtBoundary
    <3>2. snapshot.upto <= Len(lines) /\ snapshot.upto # Len(lines)
            <=> snapshot.upto <= Len(lines')
      BY <2>1, <1>6, <1>8
    <3>3. snapshot.upto <= Len(lines') /\ snapshot.upto > 0 =>
            lines'[snapshot.upto] = lines[snapshot.upto]
      BY <2>1, <1>8
    <3>4. QED BY <3>1, <3>2, <3>3, <1>1 DEF AtBoundary
  <2>3. AtBoundary' /\ Covers => Covers'
    <3>1. AtBoundary' => \A i \in 1 .. snapshot.upto : lines'[i] = lines[i]
      BY <2>1, <1>1, <1>8 DEF AtBoundary
    <3>2. AtBoundary' => {lines'[i] : i \in 1 .. snapshot.upto}
                            = {lines[i] : i \in 1 .. snapshot.upto}
      BY <3>1
    <3>3. QED BY <3>2, <1>1, <1>10 DEF Covers
  <2>4. QED
    BY <2>1, <2>2, <2>3, <1>1, <1>2, <1>15, MemoryAssumption DEF Snapshots, StorePlace, rotated
<1>18. Typed' /\ Outbox'
  BY <1>1, <1>2, <1>6 DEF Typed, Outbox, rotated, producerVars
<1>19. Shared' /\ Durable' /\ Places'
  BY <1>1, <1>2, <1>15, MemoryAssumption DEF Typed, Shared, Durable, Places, producerVars
<1>20. Projects' /\ Rotates'
  BY <1>1 DEF Projects, Rotates, StorePlace, RotationPlace
<1>21. NothingLost
  BY <1>15 DEF NothingLost
<1>22. QED
  BY <1>9, <1>11, <1>13, <1>16, <1>17, <1>18, <1>19, <1>20, <1>21 DEF MemoryInv

LEMMA StoreKeeps == ASSUME MemoryInv, CutInside, StoreStep PROVE MemoryInv' /\ NothingLost
<1> UNCHANGED plan
  BY DEF StoreStep
<1>1. CASE Producers
  BY <1>1, ProducersKeep
<1>2. CASE Project \/ Reproject
  <2>1. PICK b \in {{}, Whole} : Plan(b)
    BY <1>2 DEF Project, Reproject
  <2>2. QED BY <2>1, PlanKeeps
<1>3. CASE AppendLedger
  BY <1>3, AppendKeeps
<1>4. CASE PublishShared \/ PublishCandidates
  BY <1>4, PublishKeeps
<1>5. CASE WriteSnapshot
  BY <1>5, WriteSnapshotKeeps
<1>6. CASE \E e \in Event : Unlink(e)
  BY <1>6, UnlinkKeeps
<1>7. CASE Return
  <2>1. EndRun /\ SameLedger /\ UNCHANGED <<outbox, shared, writing, acked>>
    BY <1>7 DEF Return, SameLedger, files, ledger, rotated, producerVars
  <2>2. QED BY <2>1, EndKeeps
<1>8. CASE Crash
  BY <1>8, CrashKeeps
<1>9. CASE Repair
  BY <1>9, RepairKeeps
<1>10. QED
  BY <1>1, <1>2, <1>3, <1>4, <1>5, <1>6, <1>7, <1>8, <1>9 DEF StoreStep, Run
-----------------------------------------------------------------------------
(* Steps of a rotation leave the outbox, the readers and the acks alone.      *)
LEMMA EndRotationKeeps ==
  ASSUME MemoryInv, Refuse \/ RotationCrash
  PROVE  MemoryInv' /\ NothingLost
<1>1. /\ plan' = None /\ EndRun
      /\ SameLedger /\ UNCHANGED <<outbox, shared, writing, acked>>
  BY DEF Refuse, RotationCrash, files, ledger, rotated, producerVars, SameLedger
<1>2. QED BY <1>1, EndKeeps

LEMMA SealKeeps ==
  ASSUME MemoryInv, Seal \/ Finalize
  PROVE  MemoryInv' /\ NothingLost
<1>1. /\ pc' = pc /\ pc = "idle" /\ plan' = plan /\ UNCHANGED memory
      /\ SameLedger
  BY DEF Seal, Finalize, SameLedger
<1>2. UNCHANGED <<outbox, shared, producerVars, batch, fresh, target>>
  BY <1>1 DEF memory
<1>3. Ledger' = Ledger /\ Stored' = Stored
  BY <1>1, LedgerAsItWas
<1>4. Typed /\ Outbox /\ Shared /\ Durable /\ Projects
  BY DEF MemoryInv
<1>5. Typed' /\ Outbox'
  BY <1>1, <1>2, <1>4 DEF Typed, Outbox, SameLedger, producerVars
<1>6. Shared' /\ Durable' /\ Places'
  BY <1>1, <1>2, <1>3, <1>4 DEF Shared, Durable, Places, producerVars
<1>7. Projects'
  BY <1>1 DEF Projects, StorePlace
<1>8. QED BY <1>1, <1>5, <1>6, <1>7, SameLedgerKeeps DEF StorePlace

(* A step of a rotation that touches no file but its own place.               *)
LEMMA RotationKeeps ==
  ASSUME MemoryInv, pc \in {"idle"} \union RotationPlace,
         pc' \in {"idle"} \union RotationPlace, UNCHANGED memory,
         lines' \in Seq(Event \union {Bad}), ended' \in BOOLEAN,
         snapshot' \in Projection \union {None}, generation' \in 0..MaxRotations,
         backup' \in [1..MaxRotations -> Seq(Event) \union {None}],
         NothingLost
  PROVE  Typed' /\ Outbox' /\ Shared' /\ Projects' /\ Durable' /\ Places'
<1>1. UNCHANGED <<outbox, shared, writing, acked, batch, fresh, target>>
  BY DEF memory, producerVars
<1>2. Typed /\ Outbox /\ Shared /\ Durable
  BY DEF MemoryInv
<1>3. Typed'
  BY <1>1, <1>2 DEF Typed
<1>4. Outbox' /\ Places'
  BY <1>1, <1>2 DEF Outbox, Places
<1>5. Shared' /\ Durable'
  BY <1>1, <1>2, MemoryAssumption DEF Typed, Shared, Durable, NothingLost
<1>6. Projects'
  BY DEF Projects, StorePlace, RotationPlace
<1>7. QED BY <1>3, <1>4, <1>5, <1>6
(* A step of a rotation that leaves the ledger as it is.                      *)
LEMMA QuietKeeps ==
  ASSUME MemoryInv, pc \in {"idle"} \union RotationPlace,
         pc' \in {"idle"} \union RotationPlace, UNCHANGED memory, SameLedger, Rotates'
  PROVE  MemoryInv' /\ NothingLost
<1>1. Typed /\ Snapshots
  BY DEF MemoryInv
<1>2. NothingLost
  BY LedgerAsItWas DEF NothingLost
<1>3. Typed' /\ Outbox' /\ Shared' /\ Projects' /\ Durable' /\ Places'
  <2>1. /\ lines' \in Seq(Event \union {Bad}) /\ ended' \in BOOLEAN
        /\ snapshot' \in Projection \union {None} /\ generation' \in 0..MaxRotations
        /\ backup' \in [1..MaxRotations -> Seq(Event) \union {None}]
    BY <1>1 DEF Typed, SameLedger
  <2>2. QED BY <2>1, <1>2, RotationKeeps
<1>4. Tidy' /\ Unended' /\ Once' /\ Generations' /\ Journals'
  BY LedgerAsItWas DEF MemoryInv
<1>5. Snapshots'
  <2>1. SUFFICES ASSUME snapshot # None
                 PROVE  /\ journal = None => AtBoundary
                        /\ AtBoundary => Covers
                        /\ snapshot.events \subseteq Stored
                        /\ snapshot.upto > 0 => snapshot.last \in Event
    BY LedgerAsItWas DEF Snapshots, SameLedger, StorePlace, RotationPlace
  <2>2. QED BY <2>1, <1>1 DEF Snapshots
<1>6. QED BY <1>2, <1>3, <1>4, <1>5 DEF MemoryInv

LEMMA RotateKeeps == ASSUME MemoryInv, Rotate PROVE MemoryInv' /\ NothingLost
<1>1. /\ pc = "idle" /\ pc' = "backup" /\ generation < MaxRotations /\ Readable
      /\ Ledger # <<>> /\ (generation > 0 => Len(lines) > 1)
      /\ SnapshotUsable /\ snapshot.upto = Len(lines)
      /\ plan' = [gen |-> generation + 1, source |-> lines, ended |-> ended,
                  events |-> Ledger, snap |-> snapshot]
      /\ UNCHANGED <<ledger, memory, crashes>>
  BY DEF Rotate
<1>2. SameLedger
  BY <1>1 DEF SameLedger, ledger, rotated
<1>3. Typed /\ Tidy /\ Once /\ Generations
  BY DEF MemoryInv
<1>4. journal = None /\ ended /\ lines \in Seq(Event) /\ snapshot # None
  BY <1>1, ReadableIs DEF SnapshotUsable
<1>5. Kept \in Seq(Event) /\ Ledger \in Seq(Event) /\ IsInjective(Ledger)
  <2>1. Kept \in Seq(Event) /\ IsInjective(Ledger)
    BY <1>3, KeptTyped, LedgerParts DEF Once
  <2>2. QED BY <2>1, <1>4, RangeJoin DEF Ledger
<1>6. generation \in Nat /\ generation + 1 \in 1..MaxRotations /\ generation + 1 - 1 = generation
  BY <1>1, <1>3, MemoryAssumption DEF Typed
<1>7. Kept = Before(generation)
  BY DEF Kept, Before
<1>8. lines # <<>>
  <2>1. CASE generation = 0
    <3>1. Kept = <<>>
      BY <2>1 DEF Kept
    <3>2. Ledger = lines
      BY <3>1, <1>4, ConcatEmptySeq DEF Ledger
    <3>3. QED BY <3>2, <1>1
  <2>2. CASE generation > 0
    BY <2>2, <1>3 DEF Generations
  <2>3. QED BY <2>1, <2>2, <1>6
<1>9. Last(Ledger) = Last(lines)
  <2>1. Len(lines) > 0 /\ Len(lines) \in Nat /\ Len(Kept) \in Nat
    BY <1>4, <1>5, <1>8, EmptySeq, LenProperties
  <2>2. /\ Len(Kept \o lines) = Len(Kept) + Len(lines)
        /\ (Kept \o lines)[Len(Kept) + Len(lines)] = lines[Len(lines)]
    BY <2>1, <1>4, <1>5
  <2>3. QED BY <2>2 DEF Last, Ledger
<1>10. PlanOk(plan')
  <2>1. plan' \in RotationPlan
    BY <1>1, <1>3, <1>4, <1>5, <1>6 DEF RotationPlan, Typed
  <2>2. /\ plan'.gen = generation + 1 /\ plan'.source = lines /\ plan'.ended = ended
        /\ plan'.events = Ledger
    BY <1>1
  <2>3. generation + 1 > 1 => Len(lines) > 1
    BY <1>1, <1>6
  <2>4. /\ plan'.ended /\ plan'.source # <<>>
        /\ plan'.gen > 1 => Len(plan'.source) > 1
        /\ plan'.events # <<>> /\ Last(plan'.events) = Last(plan'.source)
        /\ IsInjective(plan'.events)
    BY <2>2, <2>3, <1>1, <1>4, <1>5, <1>8, <1>9
  <2>5. plan'.events = Before(plan'.gen - 1) \o plan'.source
    BY <2>2, <1>6, <1>7 DEF Ledger
  <2>6. QED BY <2>1, <2>4, <2>5 DEF PlanOk
<1>11. PlanOk(plan)'
  BY <1>2, <1>10 DEF PlanOk, Before, SameLedger
<1>12. IsSource(plan)' /\ plan'.gen = generation + 1 /\ plan'.snap = snapshot
  BY <1>1, <1>2 DEF IsSource, SameLedger
<1>13. Rotates'
  BY <1>1, <1>2, <1>4, <1>11, <1>12 DEF Rotates, RotationPlace, SameLedger
<1>14. QED BY <1>1, <1>2, <1>13, QuietKeeps DEF RotationPlace

LEMMA RecoverKeeps == ASSUME MemoryInv, Recover PROVE MemoryInv' /\ NothingLost
<1>1. /\ pc = "idle" /\ pc' = "switch" /\ journal # None /\ plan' = journal.plan
      /\ UNCHANGED <<ledger, memory, crashes>>
  BY DEF Recover
<1>2. SameLedger
  BY <1>1 DEF SameLedger, ledger, rotated
<1>3. PlanOk(journal.plan)
  BY <1>1 DEF MemoryInv, Journals
<1>4. PlanOk(plan)'
  BY <1>1, <1>2, <1>3 DEF PlanOk, Before, SameLedger
<1>5. Rotates'
  BY <1>1, <1>2, <1>4 DEF Rotates, RotationPlace, SameLedger
<1>6. QED BY <1>1, <1>2, <1>5, QuietKeeps DEF RotationPlace

(* The places whose step writes a receipt or marks nothing of the ledger.     *)
LEMMA ReceiptKeeps ==
  ASSUME MemoryInv, AppendReceipt \/ Anchor
  PROVE  MemoryInv' /\ NothingLost
<1>1. /\ \/ pc = "receipt" /\ pc' = "anchor"
         \/ pc = "anchor" /\ pc' = "mark receipt"
      /\ SameLedger /\ UNCHANGED memory /\ plan' = plan
  BY DEF AppendReceipt, Anchor, At, SameLedger
<1>2. PlanOk(plan)' <=> PlanOk(plan)
  BY <1>1 DEF PlanOk, Before, SameLedger
<1>3. IsCandidate(plan)' <=> IsCandidate(plan)
  BY <1>1 DEF IsCandidate, SameLedger, Candidate
<1>4. Reanchored(plan)' = Reanchored(plan)
  BY <1>1 DEF Reanchored, Projected
<1>5. Rotates
  BY DEF MemoryInv
<1>6. Rotates'
  BY <1>1, <1>2, <1>3, <1>4, <1>5 DEF Rotates, RotationPlace, SameLedger
<1>7. QED BY <1>1, <1>6, QuietKeeps DEF RotationPlace

LEMMA RemoveCandidateKeeps ==
  ASSUME MemoryInv, RemoveCandidate
  PROVE  MemoryInv' /\ NothingLost
<1>1. /\ EndRun /\ SameLedger /\ UNCHANGED <<outbox, shared, writing, acked>>
      /\ plan' = None
  BY DEF RemoveCandidate, SameLedger, producerVars
<1>2. QED BY <1>1, EndKeeps
-----------------------------------------------------------------------------
LEMMA WriteBackupKeeps == ASSUME MemoryInv, WriteBackup PROVE MemoryInv' /\ NothingLost
<1>1. /\ pc = "backup" /\ pc' = "journal"
      /\ backup' = [backup EXCEPT ![plan.gen] = plan.events]
      /\ UNCHANGED <<lines, ended, snapshot, generation, journal, memory, plan>>
  BY DEF WriteBackup, At
<1>2. Typed /\ Rotates /\ Generations /\ Snapshots /\ Once /\ Tidy /\ Unended
  BY DEF MemoryInv
<1>3. /\ PlanOk(plan) /\ journal = None /\ plan.gen = generation + 1
      /\ IsSource(plan) /\ snapshot = plan.snap /\ snapshot # None
      /\ snapshot.upto = Len(lines)
  BY <1>1, <1>2 DEF Rotates, RotationPlace
<1>4. plan.gen \in 1..MaxRotations /\ plan.events \in Seq(Event)
  BY <1>3 DEF PlanOk, RotationPlan
<1>5. generation \in Nat /\ generation # plan.gen /\ plan.gen - 1 = generation
  BY <1>2, <1>3, MemoryAssumption DEF Typed
<1>6. /\ backup' \in [1..MaxRotations -> Seq(Event) \union {None}]
      /\ backup'[plan.gen] = plan.events
      /\ generation > 0 => backup'[generation] = backup[generation]
  BY <1>1, <1>2, <1>4, <1>5, MemoryAssumption DEF Typed
<1>7. Kept' = Kept
  <2>1. generation = 0 => Kept' = Kept
    BY <1>1 DEF Kept
  <2>2. generation > 0 => Kept' = Kept
    BY <1>1, <1>6 DEF Kept
  <2>3. QED BY <2>1, <2>2, <1>5
<1>8. Ledger' = Ledger /\ Stored' = Stored
  BY <1>1, <1>3, <1>7 DEF Ledger, Stored
<1>9. Before(generation)' = Before(generation)
  BY <1>1, <1>5, <1>6 DEF Before
<1>10. PlanOk(plan)'
  BY <1>1, <1>3, <1>5, <1>9 DEF PlanOk
<1>11. Tidy' /\ Unended' /\ Once' /\ Generations' /\ Journals'
  BY <1>1, <1>2, <1>3, <1>6, <1>7 DEF Tidy, Unended, Once, Generations, Journals
<1>12. Snapshots'
  <2>1. (AtBoundary' <=> AtBoundary) /\ (Covers' <=> Covers)
    BY <1>1, <1>7 DEF AtBoundary, Covers
  <2>2. QED BY <2>1, <1>1, <1>2, <1>3, <1>8 DEF Snapshots
<1>13. Rotates'
  <2>1. IsSource(plan)'
    BY <1>1, <1>3 DEF IsSource
  <2>2. QED BY <2>1, <1>1, <1>3, <1>6, <1>10 DEF Rotates, RotationPlace
<1>14. Typed' /\ Outbox' /\ Shared' /\ Projects' /\ Durable' /\ Places'
  <2>1. /\ lines' \in Seq(Event \union {Bad}) /\ ended' \in BOOLEAN
        /\ snapshot' \in Projection \union {None} /\ generation' \in 0..MaxRotations
    BY <1>1, <1>2 DEF Typed
  <2>2. pc \in RotationPlace /\ pc' \in RotationPlace
    BY <1>1 DEF RotationPlace
  <2>3. NothingLost
    BY <1>8 DEF NothingLost
  <2>4. QED BY <2>1, <2>2, <2>3, <1>1, <1>6, RotationKeeps
<1>15. QED BY <1>8, <1>11, <1>12, <1>13, <1>14 DEF MemoryInv, NothingLost

(* A step that changes the journal and nothing else of the ledger.            *)
LEMMA JournalKeeps ==
  ASSUME MemoryInv, pc \in RotationPlace, pc' \in RotationPlace,
         UNCHANGED <<lines, ended, snapshot, generation, backup, memory>>,
         Journals', Rotates', NothingLost,
         journal' = None => journal = None \/ AtBoundary
  PROVE  MemoryInv' /\ NothingLost
<1>1. Typed /\ Once /\ Tidy /\ Unended /\ Generations /\ Snapshots
  BY DEF MemoryInv
<1>2. Kept' = Kept
  BY DEF Kept
<1>3. Tidy' /\ Unended' /\ Once' /\ Generations'
  BY <1>1, <1>2 DEF Tidy, Unended, Once, Generations
<1>4. Snapshots'
  <2>1. (AtBoundary' <=> AtBoundary) /\ (Covers' <=> Covers)
    BY <1>2 DEF AtBoundary, Covers
  <2>2. pc' \notin StorePlace
    BY DEF StorePlace, RotationPlace
  <2>3. snapshot # None => snapshot.events \subseteq Stored'
    BY <1>1, MemoryAssumption DEF Snapshots, Typed, Projection, NothingLost
  <2>4. QED BY <2>1, <2>2, <2>3, <1>1 DEF Snapshots
<1>5. Typed' /\ Outbox' /\ Shared' /\ Projects' /\ Durable' /\ Places'
  <2>1. /\ lines' \in Seq(Event \union {Bad}) /\ ended' \in BOOLEAN
        /\ snapshot' \in Projection \union {None} /\ generation' \in 0..MaxRotations
        /\ backup' \in [1..MaxRotations -> Seq(Event) \union {None}]
    BY <1>1 DEF Typed
  <2>2. QED BY <2>1, RotationKeeps
<1>6. QED BY <1>3, <1>4, <1>5 DEF MemoryInv

LEMMA WriteJournalKeeps == ASSUME MemoryInv, WriteJournal PROVE MemoryInv' /\ NothingLost
<1>1. /\ pc = "journal" /\ pc' = "switch"
      /\ journal' = [stage |-> "prepared", plan |-> plan]
      /\ UNCHANGED <<lines, ended, snapshot, generation, backup, memory, plan>>
  BY DEF WriteJournal, At
<1>2. Typed /\ Rotates
  BY DEF MemoryInv
<1>3. /\ PlanOk(plan) /\ journal = None /\ plan.gen = generation + 1
      /\ IsSource(plan) /\ snapshot # None /\ snapshot.upto = Len(lines)
      /\ backup[plan.gen] = plan.events
  BY <1>1, <1>2 DEF Rotates, RotationPlace
<1>4. /\ journal' \in [stage : Stage, plan : RotationPlan] /\ journal' # None
      /\ journal'.stage = "prepared" /\ journal'.plan = plan
  BY <1>1, <1>3, FileAssumption DEF PlanOk, Stage
<1>5. PlanOk(plan)'
  BY <1>1, <1>3 DEF PlanOk, Before
<1>6. generation \in Nat /\ plan.gen - 1 = generation
  BY <1>2, <1>3, MemoryAssumption DEF Typed
<1>7. lines = plan.source /\ lines # <<>> /\ Len(lines) \in Nat \ {0}
  <2>1. lines = plan.source /\ lines # <<>> /\ lines \in Seq(Event)
    BY <1>3 DEF IsSource, PlanOk, RotationPlan
  <2>2. QED BY <2>1, FrontLast
<1>8. Journals'
  <2>1. snapshot.upto > 0 /\ Len(plan.source) <= snapshot.upto
    BY <1>3, <1>7
  <2>2. QED BY <2>1, <1>1, <1>3, <1>4, <1>5, <1>6 DEF Journals
<1>9. Rotates'
  BY <1>1, <1>4, <1>5 DEF Rotates, RotationPlace
<1>10. NothingLost
  <2>1. Ledger' = Ledger
    BY <1>1 DEF Ledger, Kept
  <2>2. QED BY <2>1, <1>3 DEF Stored, NothingLost
<1>11. QED BY <1>1, <1>3, <1>8, <1>9, <1>10, JournalKeeps DEF RotationPlace

LEMMA Marked ==
  ASSUME journal \in [stage : Stage, plan : RotationPlan], NEW before, NEW s \in Stage,
         journal' = IF journal.stage \in before THEN [journal EXCEPT !.stage = s] ELSE journal
  PROVE  /\ journal' \in [stage : Stage, plan : RotationPlan] /\ journal' # None
         /\ journal'.plan = journal.plan
         /\ journal'.stage = IF journal.stage \in before THEN s ELSE journal.stage
<1>1. PICK a \in Stage, p \in RotationPlan : journal = [stage |-> a, plan |-> p]
  OBVIOUS
<1>2. PICK b \in Stage : /\ journal' = [stage |-> b, plan |-> p]
                         /\ b = IF a \in before THEN s ELSE a
  BY <1>1
<1>3. QED BY <1>1, <1>2, FileAssumption

LEMMA MarkKeeps ==
  ASSUME MemoryInv, MarkSwitched \/ MarkState \/ MarkSnapshot \/ MarkReceipt
  PROVE  MemoryInv' /\ NothingLost
<1>1. Typed /\ Rotates /\ Journals
  BY DEF MemoryInv
<1>2. PICK before \in SUBSET Stage, s \in Stage :
        /\ journal' = IF journal.stage \in before THEN [journal EXCEPT !.stage = s] ELSE journal
        /\ UNCHANGED <<lines, ended, snapshot, generation, backup, memory, plan>>
        /\ \/ pc = "mark switched" /\ pc' = "state" /\ s = "switched" /\ before = {"prepared"}
           \/ pc = "mark state" /\ pc' = "reanchor" /\ s = "state-published"
           \/ pc = "mark snapshot" /\ pc' = "receipt" /\ s = "snapshot-published"
           \/ pc = "mark receipt" /\ pc' = "remove journal" /\ s = "receipt-published"
  <2>1. CASE MarkSwitched
    BY <2>1 DEF MarkSwitched, Mark, At, Stage
  <2>2. CASE MarkState
    BY <2>2 DEF MarkState, Mark, At, Stage
  <2>3. CASE MarkSnapshot
    BY <2>3 DEF MarkSnapshot, Mark, At, Stage
  <2>4. CASE MarkReceipt
    BY <2>4 DEF MarkReceipt, Mark, At, Stage
  <2>5. QED BY <2>1, <2>2, <2>3, <2>4
<1>3. /\ PlanOk(plan) /\ journal # None /\ journal.plan = plan /\ IsCandidate(plan)
      /\ pc # "mark switched" => generation = plan.gen /\ journal.stage # "prepared"
      /\ pc \in {"mark snapshot", "mark receipt"} => snapshot = Reanchored(plan)
  BY <1>1, <1>2 DEF Rotates, RotationPlace
<1>4. /\ journal \in [stage : Stage, plan : RotationPlan]
      /\ backup[plan.gen] = plan.events /\ generation \in {plan.gen - 1, plan.gen}
      /\ journal.stage \notin {"prepared", "switched"} => generation = plan.gen
      /\ snapshot # None /\ snapshot.upto > 0
      /\ generation < plan.gen => Len(plan.source) <= snapshot.upto
  BY <1>1, <1>3 DEF Journals
<1>5. /\ journal' \in [stage : Stage, plan : RotationPlan] /\ journal' # None
      /\ journal'.plan = plan
      /\ journal'.stage = IF journal.stage \in before THEN s ELSE journal.stage
  BY <1>2, <1>3, <1>4, Marked
<1>6. PlanOk(plan)' /\ IsCandidate(plan)' /\ Reanchored(plan)' = Reanchored(plan)
  BY <1>2, <1>3 DEF PlanOk, Before, IsCandidate, Candidate, Reanchored, Projected
<1>7. Continues(plan.events)'
  <2>1. lines = <<Last(plan.events)>> /\ plan.events # <<>>
    BY <1>3 DEF IsCandidate, Candidate, PlanOk
  <2>2. QED BY <2>1, <1>2 DEF Continues
<1>8. /\ journal'.stage # "prepared"
      /\ journal'.stage \notin {"prepared", "switched"} => generation = plan.gen
  <2>1. CASE pc = "mark switched"
    BY <2>1, <1>2, <1>4, <1>5
  <2>2. CASE pc # "mark switched"
    BY <2>2, <1>2, <1>3, <1>5
  <2>3. QED BY <2>1, <2>2
<1>9. Journals'
  BY <1>2, <1>4, <1>5, <1>6, <1>7, <1>8 DEF Journals
<1>10. Rotates'
  BY <1>2, <1>3, <1>5, <1>6, <1>8 DEF Rotates, RotationPlace
<1>11. NothingLost
  <2>1. Ledger' = Ledger
    BY <1>2 DEF Ledger, Kept
  <2>2. QED BY <2>1, <1>2, <1>3, <1>5 DEF Stored, NothingLost
<1>12. QED
  <2>1. pc \in RotationPlace /\ pc' \in RotationPlace
    BY <1>2 DEF RotationPlace
  <2>2. QED BY <2>1, <1>2, <1>5, <1>9, <1>10, <1>11, JournalKeeps

(* The end of a rotation: the generation holds all that its journal named.    *)
LEMMA RemoveJournalKeeps ==
  ASSUME MemoryInv, RemoveJournal
  PROVE  MemoryInv' /\ NothingLost
<1>1. /\ pc = "remove journal" /\ pc' = "remove candidate" /\ journal' = None
      /\ UNCHANGED <<lines, ended, snapshot, generation, backup, memory, plan>>
  BY DEF RemoveJournal, At
<1>2. Typed /\ Rotates /\ Journals /\ Generations
  BY DEF MemoryInv
<1>3. /\ PlanOk(plan) /\ journal # None /\ journal.plan = plan /\ IsCandidate(plan)
      /\ generation = plan.gen /\ snapshot = Reanchored(plan)
  BY <1>1, <1>2 DEF Rotates, RotationPlace
<1>4. /\ plan.gen \in 1..MaxRotations /\ plan.events \in Seq(Event) /\ plan.events # <<>>
      /\ lines = <<Last(plan.events)>> /\ backup[plan.gen] = plan.events
  BY <1>2, <1>3 DEF PlanOk, RotationPlan, IsCandidate, Candidate, Journals
<1>5. Kept = Front(plan.events)
  BY <1>3, <1>4, MemoryAssumption DEF Kept
<1>6. Range(Ledger) = Range(plan.events)
  BY <1>4, <1>5, FrontLast DEF Ledger
<1>7. Ledger' = Ledger
  BY <1>1 DEF Ledger, Kept
<1>8. NothingLost
  BY <1>1, <1>3, <1>4, <1>6, <1>7 DEF Stored, NothingLost
<1>9. AtBoundary
  BY <1>3, <1>4 DEF AtBoundary, Reanchored, Projected
<1>10. Journals' /\ Rotates'
  <2>1. PlanOk(plan)'
    BY <1>1, <1>3 DEF PlanOk, Before
  <2>2. QED BY <2>1, <1>1 DEF Journals, Rotates, RotationPlace
<1>11. pc \in RotationPlace /\ pc' \in RotationPlace
  BY <1>1 DEF RotationPlace
<1>12. QED BY <1>1, <1>8, <1>9, <1>10, <1>11, JournalKeeps
-----------------------------------------------------------------------------
(* What a plan says of the generation it replaces.                            *)
LEMMA PlanIs ==
  ASSUME Typed, Generations, NEW p, PlanOk(p), generation = p.gen - 1
  PROVE  /\ p.gen \in 1..MaxRotations /\ p.gen = generation + 1
         /\ p.source \in Seq(Event) /\ p.events \in Seq(Event)
         /\ p.events # <<>> /\ Last(p.events) = Last(p.source) /\ Last(p.events) \in Event
         /\ Kept = Before(p.gen - 1) /\ IsInjective(Kept) /\ IsInjective(p.source)
         /\ Range(p.events) = Range(Kept) \union Range(p.source)
         /\ Last(p.source) \in Range(p.source) /\ Last(p.source) \notin Range(Kept)
<1>1. /\ p.gen \in 1..MaxRotations /\ p.source \in Seq(Event) /\ p.events \in Seq(Event)
      /\ p.source # <<>> /\ p.events # <<>> /\ Last(p.events) = Last(p.source)
      /\ p.events = Before(p.gen - 1) \o p.source /\ IsInjective(p.events)
  BY DEF PlanOk, RotationPlan
<1>2. p.gen = generation + 1
  BY <1>1, MemoryAssumption
<1>3. Kept = Before(p.gen - 1) /\ Kept \in Seq(Event)
  BY KeptTyped DEF Kept, Before
<1>4. p.events = Kept \o p.source
  BY <1>1, <1>3
<1>5. Range(p.events) = Range(Kept) \union Range(p.source)
  BY <1>1, <1>3, <1>4, RangeJoin
<1>6. IsInjective(Kept) /\ IsInjective(p.source) /\ Range(Kept) \cap Range(p.source) = {}
  <2>1. IsInjective(Kept \o p.source)
    BY <1>1, <1>4
  <2>2. QED BY <2>1, <1>1, <1>3, InjectiveJoin
<1>7. Last(p.source) \in Range(p.source) /\ Last(p.source) \in Event
  BY <1>1, FrontLast
<1>8. QED BY <1>1, <1>2, <1>3, <1>5, <1>6, <1>7

(* The only line of a candidate.                                              *)
LEMMA CandidateIs ==
  ASSUME NEW p, p.events \in Seq(Event), p.events # <<>>,
         NEW l, l = Candidate(p)
  PROVE  /\ l \in Seq(Event) /\ Len(l) = 1 /\ l[1] = Last(p.events) /\ l # <<>>
         /\ Range(l) = {Last(p.events)} /\ IsInjective(l) /\ DOMAIN l = {1}
         /\ Last(p.events) \in Event /\ Last(p.events) \in Range(p.events)
<1>1. PICK e : e = Last(p.events)
  OBVIOUS
<1>2. e \in Event /\ e \in Range(p.events) /\ l = <<e>>
  BY <1>1, FrontLast DEF Candidate
<1>3. /\ l \in Seq(Event) /\ Len(l) = 1 /\ l[1] = e /\ l # <<>>
      /\ Range(l) = {e} /\ IsInjective(l) /\ DOMAIN l = {1}
  BY <1>2 DEF Range, IsInjective
<1>4. QED BY <1>1, <1>2, <1>3

(* The candidate replaces the active ledger, unless it has already.           *)
LEMMA SwitchKeeps == ASSUME MemoryInv, Switch PROVE MemoryInv' /\ NothingLost
<1>1. /\ pc = "switch" /\ pc' = "mark switched" /\ lines' = Candidate(plan) /\ ended' = TRUE
      /\ IsCandidate(plan) \/ (IsSource(plan) /\ PublishedGeneration = plan.gen - 1)
      /\ UNCHANGED <<snapshot, rotated, memory, plan>>
  BY DEF Switch, At, Passes
<1>2. UNCHANGED <<generation, backup, journal>>
  BY <1>1 DEF rotated
<1>3. /\ Typed /\ Tidy /\ Unended /\ Once /\ Generations /\ Snapshots /\ Journals /\ Rotates
  BY DEF MemoryInv
<1>4. PlanOk(plan) /\ journal # None /\ journal.plan = plan
  BY <1>1, <1>3 DEF Rotates, RotationPlace
<1>5. PlanOk(plan)' /\ IsCandidate(plan)'
  BY <1>1, <1>2, <1>4 DEF PlanOk, Before, IsCandidate, Candidate
<1>6. Rotates'
  BY <1>1, <1>2, <1>4, <1>5 DEF Rotates, RotationPlace
<1>7. pc \in RotationPlace /\ pc' \in RotationPlace
  BY <1>1 DEF RotationPlace
<1>8. CASE lines = Candidate(plan) /\ ended
  <2>1. SameLedger
    BY <1>1, <1>2, <1>3, <1>8 DEF SameLedger, Typed
  <2>2. QED BY <2>1, <1>1, <1>6, <1>7, QuietKeeps
<1>9. CASE /\ ~(lines = Candidate(plan) /\ ended)
           /\ lines = plan.source /\ ended = plan.ended
           /\ PublishedGeneration = plan.gen - 1
  <2>1. ended
    BY <1>4, <1>9 DEF PlanOk
  <2>2. generation = plan.gen - 1
    <3>1. plan.gen \in Nat \ {0} /\ generation \in Nat
      BY <1>3, <1>4, MemoryAssumption DEF PlanOk, RotationPlan, Typed
    <3>2. QED BY <3>1, <1>4, <1>9 DEF PublishedGeneration
  <2> DEFINE L == Last(plan.events)
  <2>3. /\ plan.gen \in 1..MaxRotations /\ plan.gen = generation + 1
        /\ plan.source \in Seq(Event) /\ plan.events \in Seq(Event)
        /\ plan.events # <<>> /\ L = Last(plan.source) /\ L \in Event
        /\ IsInjective(Kept)
        /\ Range(plan.events) = Range(Kept) \union Range(plan.source)
        /\ L \in Range(plan.source) /\ L \notin Range(Kept)
    BY <2>2, <1>3, <1>4, PlanIs
  <2>4. /\ lines' \in Seq(Event) /\ Len(lines') = 1 /\ lines'[1] = L /\ lines' # <<>>
        /\ Range(lines') = {L} /\ IsInjective(lines') /\ DOMAIN lines' = {1}
    <3>1. PICK l : l = lines'
      OBVIOUS
    <3>2. l = Candidate(plan)
      BY <3>1, <1>1
    <3>3. /\ l \in Seq(Event) /\ Len(l) = 1 /\ l[1] = L /\ l # <<>>
          /\ Range(l) = {L} /\ IsInjective(l) /\ DOMAIN l = {1}
      BY <3>2, <2>3, CandidateIs
    <3>4. QED BY <3>1, <3>3
  <2> HIDE DEF L
  <2>5. L # Bad
    BY <2>3, MemoryAssumption
  <2>6. lines' \in Seq(Event \union {Bad})
    BY <2>4, SeqMonotonic
  <2>7. Kept' = Kept
    BY <1>2 DEF Kept
  <2>8. Tidy' /\ Unended' /\ Once' /\ Generations'
    <3>1. Tidy' /\ Unended'
      BY <2>4, <2>5, <1>1 DEF Tidy, Unended
    <3>2. Once'
      BY <2>3, <2>4, <2>7 DEF Once
    <3>3. Generations'
      BY <2>4, <2>5, <1>2, <1>3 DEF Generations
    <3>4. QED BY <3>1, <3>2, <3>3
  <2>9. Journals'
    <3>1. Continues(plan.events)'
      BY <2>3, <2>4, <1>1 DEF Continues, L
    <3>2. QED BY <3>1, <1>1, <1>2, <1>3, <1>4, <1>5 DEF Journals
  <2>10. backup[plan.gen] = plan.events
    BY <1>3, <1>4 DEF Journals
  <2>11. Stored \subseteq Stored'
    <3>1. Range(Ledger) = Range(Kept) \union Range(plan.source)
      BY <1>3, <1>9, LedgerParts
    <3>2. Range(plan.events) \subseteq Stored'
      BY <2>10, <1>1, <1>2, <1>4 DEF Stored
    <3>3. Stored = Range(Ledger) \union Range(plan.events)
      BY <2>10, <1>4 DEF Stored
    <3>4. QED BY <3>1, <3>2, <3>3, <2>3
  <2>12. Snapshots'
    <3>1. /\ snapshot # None /\ snapshot.upto > 0 /\ snapshot.upto \in Nat
          /\ Len(plan.source) <= snapshot.upto
      <4>1. generation < plan.gen
        BY <2>3, <1>3, MemoryAssumption DEF Typed
      <4>2. QED BY <4>1, <1>3, <1>4 DEF Journals, Typed, Projection
    <3>2. Len(plan.source) \in Nat \ {0, 1}
      <4>1. Len(plan.source) \in Nat \ {0}
        BY <2>3, <1>4, FrontLast DEF PlanOk
      <4>2. ASSUME Len(plan.source) = 1 PROVE FALSE
        <5>1. PICK s : s = plan.source
          OBVIOUS
        <5>2. s \in Seq(Event) /\ Len(s) = 1 /\ L = s[1]
          BY <5>1, <4>2, <2>3 DEF Last
        <5>3. s = <<L>>
          BY <5>2
        <5>4. lines = Candidate(plan)
          BY <5>1, <5>3, <1>9 DEF Candidate, L
        <5>5. QED BY <5>4, <2>1, <1>9
      <4>3. QED BY <4>1, <4>2
    <3>3. ~AtBoundary'
      <4>1. ~(snapshot.upto <= 1)
        <5>1. PICK m, n : m = snapshot.upto /\ n = Len(plan.source)
          OBVIOUS
        <5>2. m \in Nat /\ n \in Nat \ {0, 1} /\ n <= m
          BY <3>1, <3>2, <5>1
        <5>3. ~(m <= 1)
          BY <5>2
        <5>4. QED BY <5>1, <5>3
      <4>2. snapshot'.upto = snapshot.upto /\ Len(lines') = 1
        BY <2>4, <1>1
      <4>3. QED BY <4>1, <4>2 DEF AtBoundary
    <3>4. QED
      <4>1. journal' # None /\ pc' \notin StorePlace /\ snapshot' = snapshot
        BY <1>1, <1>2, <1>4 DEF StorePlace
      <4>2. snapshot.events \subseteq Stored' /\ (snapshot.upto > 0 => snapshot.last \in Event)
        BY <3>1, <2>11, <1>3 DEF Snapshots
      <4>3. QED BY <3>3, <4>1, <4>2 DEF Snapshots
  <2>13. Typed' /\ Outbox' /\ Shared' /\ Projects' /\ Durable' /\ Places'
    <3>1. /\ ended' \in BOOLEAN
          /\ snapshot' \in Projection \union {None} /\ generation' \in 0..MaxRotations
          /\ backup' \in [1..MaxRotations -> Seq(Event) \union {None}]
      BY <1>1, <1>2, <1>3 DEF Typed
    <3>2. QED BY <3>1, <2>6, <2>11, <1>1, <1>7, RotationKeeps DEF NothingLost
  <2>14. QED BY <2>8, <2>9, <2>11, <2>12, <2>13, <1>6 DEF MemoryInv, NothingLost
<1>10. QED BY <1>1, <1>8, <1>9 DEF IsCandidate, IsSource

(* The state of the new generation is published.                              *)
LEMMA PublishStateKeeps == ASSUME MemoryInv, PublishState PROVE MemoryInv' /\ NothingLost
<1>1. /\ pc = "state" /\ pc' = "mark state" /\ generation' = plan.gen
      /\ UNCHANGED <<lines, ended, snapshot, backup, journal, memory, plan>>
  BY DEF PublishState, At
<1>2. /\ Typed /\ Tidy /\ Unended /\ Once /\ Generations /\ Snapshots /\ Journals /\ Rotates
  BY DEF MemoryInv
<1>3. /\ PlanOk(plan) /\ journal # None /\ journal.plan = plan /\ IsCandidate(plan)
      /\ journal.stage # "prepared"
  BY <1>1, <1>2 DEF Rotates, RotationPlace
<1>4. /\ backup[plan.gen] = plan.events /\ generation \in {plan.gen - 1, plan.gen}
      /\ Continues(plan.events) /\ snapshot # None /\ snapshot.upto > 0
      /\ generation < plan.gen => Len(plan.source) <= snapshot.upto
      /\ journal \in [stage : Stage, plan : RotationPlan]
  BY <1>2, <1>3 DEF Journals
<1>5. /\ plan.gen \in 1..MaxRotations /\ plan.events \in Seq(Event) /\ plan.events # <<>>
      /\ plan.source \in Seq(Event) /\ plan.source # <<>> /\ IsInjective(plan.events)
      /\ plan.gen > 1 => Len(plan.source) > 1
      /\ plan.events = Before(plan.gen - 1) \o plan.source
  BY <1>3 DEF PlanOk, RotationPlan
<1>6. PlanOk(plan)' /\ IsCandidate(plan)'
  BY <1>1, <1>3 DEF PlanOk, Before, IsCandidate, Candidate
<1>7. Rotates'
  BY <1>1, <1>3, <1>6 DEF Rotates, RotationPlace
<1>8. pc \in RotationPlace /\ pc' \in RotationPlace
  BY <1>1 DEF RotationPlace
<1>9. CASE generation = plan.gen
  <2>1. SameLedger
    BY <1>1, <1>9 DEF SameLedger
  <2>2. QED BY <2>1, <1>1, <1>7, <1>8, QuietKeeps
<1>10. CASE generation = plan.gen - 1
  <2> DEFINE L == Last(plan.events)
  <2>1. /\ lines \in Seq(Event) /\ Len(lines) = 1 /\ lines[1] = L /\ lines # <<>>
        /\ Range(lines) = {L} /\ L \in Event /\ ended
    BY <1>3, <1>5, CandidateIs DEF IsCandidate
  <2>2. plan.gen > 0 /\ plan.gen # 0 /\ generation < plan.gen /\ plan.gen \in Nat
    BY <1>5, <1>10, MemoryAssumption
  <2>3. Kept' = Front(plan.events)
    BY <2>2, <1>1, <1>4 DEF Kept
  <2>4. /\ Range(plan.events) = Range(Kept') \union {L}
        /\ IsInjective(Kept') /\ L \notin Range(Kept')
    BY <2>3, <1>5, LastApart
  <2>5. Kept' \in Seq(Event)
    BY <2>3, <1>5, FrontLast
  <2>6. Tidy' /\ Unended' /\ Once' /\ Generations'
    <3>1. Tidy' /\ Unended'
      BY <1>1, <1>2 DEF Tidy, Unended
    <3>2. Once'
      BY <2>1, <2>4, <1>1, <1>2 DEF Once
    <3>3. Generations'
      BY <2>1, <1>1, <1>4, <1>5, MemoryAssumption DEF Generations
    <3>4. QED BY <3>1, <3>2, <3>3
  <2>7. Journals'
    <3>1. Continues(plan.events)'
      BY <1>1, <1>4 DEF Continues
    <3>2. generation' = plan.gen /\ ~(generation' < plan.gen)
      <4>1. ~(plan.gen < plan.gen)
        BY <2>2
      <4>2. QED BY <4>1, <1>1
    <3>3. QED BY <3>1, <3>2, <1>1, <1>3, <1>4, <1>6 DEF Journals
  <2>8. Stored \subseteq Stored'
    <3>1. Range(plan.events) = Range(Kept) \union Range(plan.source)
      BY <1>2, <1>3, <1>10, PlanIs
    <3>2. L \in Range(plan.events)
      BY <2>4
    <3>3. Range(Ledger) = Range(Kept) \union {L}
      BY <2>1, <1>2, LedgerParts
    <3>4. Stored = Range(Ledger) \union Range(plan.events)
      BY <1>3, <1>4 DEF Stored
    <3>5. Range(plan.events) \subseteq Stored'
      BY <1>1, <1>3, <1>4 DEF Stored
    <3>6. QED BY <3>1, <3>2, <3>3, <3>4, <3>5
  <2>9. AtBoundary' /\ snapshot # None => Covers'
    <3>1. SUFFICES ASSUME AtBoundary PROVE Covers'
      BY <1>1 DEF AtBoundary
    <3>2. snapshot.upto = 1 /\ Len(plan.source) = 1
      <4>1. snapshot.upto \in Nat /\ Len(plan.source) \in Nat \ {0}
        BY <1>2, <1>4, <1>5, FrontLast DEF Typed, Projection
      <4>2. snapshot.upto <= 1
        BY <3>1, <2>1 DEF AtBoundary
      <4>3. snapshot.upto > 0 /\ Len(plan.source) <= snapshot.upto
        BY <2>2, <1>4
      <4>4. PICK m, n : m = snapshot.upto /\ n = Len(plan.source)
        OBVIOUS
      <4>5. m \in Nat /\ n \in Nat \ {0} /\ m <= 1 /\ n <= m
        BY <4>1, <4>2, <4>3, <4>4
      <4>6. m = 1 /\ n = 1
        BY <4>5
      <4>7. QED BY <4>4, <4>6
    <3>3. generation = 0
      BY <3>2, <2>2, <1>5, <1>10
    <3>4. Kept = <<>>
      BY <3>3 DEF Kept
    <3>5. plan.events = plan.source
      <4>1. Before(plan.gen - 1) = <<>>
        BY <3>3, <1>10 DEF Before
      <4>2. QED BY <4>1, <1>5, ConcatEmptySeq
    <3>6. Kept' = <<>>
      <4>1. Len(Front(plan.events)) = 0 /\ Front(plan.events) \in Seq(Event)
        <5>1. PICK s : s = plan.events
          OBVIOUS
        <5>2. s \in Seq(Event) /\ s # <<>> /\ Len(s) = 1
          BY <5>1, <3>2, <3>5, <1>5
        <5>3. Front(s) \in Seq(Event) /\ Len(Front(s)) = Len(s) - 1
          BY <5>2, FrontLast
        <5>4. QED BY <5>1, <5>2, <5>3
      <4>2. QED BY <4>1, <2>3, EmptySeq
    <3>7. Covers
      BY <3>1, <1>2, <1>4 DEF Snapshots
    <3>8. QED BY <3>4, <3>6, <3>7, <1>1 DEF Covers
  <2>10. Snapshots'
    <3>1. journal' # None /\ pc' \notin StorePlace /\ snapshot' = snapshot
      BY <1>1, <1>3 DEF StorePlace
    <3>2. snapshot.events \subseteq Stored' /\ (snapshot.upto > 0 => snapshot.last \in Event)
      BY <2>8, <1>2, <1>4 DEF Snapshots
    <3>3. QED BY <3>1, <3>2, <2>9 DEF Snapshots
  <2>11. Typed' /\ Outbox' /\ Shared' /\ Projects' /\ Durable' /\ Places'
    <3>1. /\ lines' \in Seq(Event \union {Bad}) /\ ended' \in BOOLEAN
          /\ snapshot' \in Projection \union {None} /\ generation' \in 0..MaxRotations
          /\ backup' \in [1..MaxRotations -> Seq(Event) \union {None}]
      <4>1. plan.gen \in 0..MaxRotations
        BY <1>5, MemoryAssumption
      <4>2. QED BY <4>1, <1>1, <1>2 DEF Typed
    <3>2. QED BY <3>1, <2>8, <1>1, <1>8, RotationKeeps DEF NothingLost
  <2>12. QED BY <2>6, <2>7, <2>8, <2>10, <2>11, <1>7 DEF MemoryInv, NothingLost
<1>11. QED BY <1>4, <1>9, <1>10

(* The snapshot of the whole ledger, anchored at its last event.              *)
LEMMA ReanchorKeeps == ASSUME MemoryInv, ReanchorSnapshot PROVE MemoryInv' /\ NothingLost
<1>1. /\ pc = "reanchor" /\ pc' = "mark snapshot" /\ snapshot' = Reanchored(plan)
      /\ UNCHANGED <<lines, ended, rotated, memory, plan>>
  BY DEF ReanchorSnapshot, At
<1>2. UNCHANGED <<generation, backup, journal, plan>>
  BY <1>1 DEF rotated
<1>3. /\ Typed /\ Tidy /\ Unended /\ Once /\ Generations /\ Snapshots /\ Journals /\ Rotates
  BY DEF MemoryInv
<1>4. /\ PlanOk(plan) /\ journal # None /\ journal.plan = plan /\ IsCandidate(plan)
      /\ journal.stage # "prepared" /\ generation = plan.gen
  BY <1>1, <1>3 DEF Rotates, RotationPlace
<1>5. /\ plan.gen \in 1..MaxRotations /\ plan.events \in Seq(Event) /\ plan.events # <<>>
      /\ backup[plan.gen] = plan.events
  BY <1>3, <1>4 DEF PlanOk, RotationPlan, Journals
<1> DEFINE L == Last(plan.events)
<1>6. /\ Len(lines) = 1 /\ lines[1] = L /\ L \in Event
      /\ Range(plan.events) = Range(Front(plan.events)) \union {L}
      /\ Range(plan.events) \subseteq Event
  BY <1>4, <1>5, CandidateIs, LastApart, RangeTyped DEF IsCandidate
<1>7. /\ snapshot' \in Projection /\ snapshot' # None
      /\ snapshot'.upto = 1 /\ snapshot'.last = L /\ snapshot'.events = Range(plan.events)
  <2>1. plan.gen \in 0..MaxRotations
    BY <1>5, MemoryAssumption
  <2>2. PICK e, r, g : e = L /\ r = Range(plan.events) /\ g = plan.gen
    OBVIOUS
  <2>3. snapshot' = [upto |-> 1, last |-> e, events |-> r, generation |-> g]
    BY <2>2, <1>1 DEF Reanchored, Projected
  <2>4. e \in Event /\ r \in SUBSET Event /\ g \in 0..MaxRotations
    BY <2>1, <2>2, <1>6
  <2>5. snapshot' \in Projection
    BY <2>3, <2>4 DEF Projection
  <2>6. QED BY <2>2, <2>3, <2>5, FileAssumption
<1> HIDE DEF L
<1>8. Kept' = Kept /\ Kept = Front(plan.events)
  BY <1>2, <1>4, <1>5, MemoryAssumption DEF Kept
<1>9. Ledger' = Ledger /\ Stored' = Stored
  BY <1>1, <1>2, <1>8 DEF Ledger, Stored
<1>10. Tidy' /\ Unended' /\ Once' /\ Generations'
  BY <1>1, <1>2, <1>3, <1>8 DEF Tidy, Unended, Once, Generations
<1>11. PlanOk(plan)' /\ IsCandidate(plan)' /\ Reanchored(plan)' = Reanchored(plan)
  BY <1>1, <1>2, <1>4 DEF PlanOk, Before, IsCandidate, Candidate, Reanchored, Projected
<1>12. Journals'
  <2>1. ~(generation < plan.gen)
    BY <1>4, <1>5, MemoryAssumption
  <2>2. /\ journal \in [stage : Stage, plan : RotationPlan]
        /\ backup[plan.gen] = plan.events /\ Continues(plan.events)
    BY <1>3, <1>4 DEF Journals
  <2>3. Continues(plan.events)'
    BY <2>2, <1>1 DEF Continues
  <2>4. snapshot' # None /\ snapshot'.upto > 0
    BY <1>7
  <2>5. QED BY <2>1, <2>2, <2>3, <2>4, <1>2, <1>4, <1>11 DEF Journals
<1>13. Rotates'
  BY <1>1, <1>2, <1>4, <1>11 DEF Rotates, RotationPlace
<1>14. Snapshots'
  <2>1. AtBoundary'
    <3>1. lines' = lines
      BY <1>1
    <3>2. snapshot'.upto <= Len(lines') /\ lines'[snapshot'.upto] = snapshot'.last
      BY <3>1, <1>6, <1>7
    <3>3. QED BY <3>2 DEF AtBoundary
  <2>2. {lines'[i] : i \in 1 .. snapshot'.upto} \subseteq {L}
    <3>1. 1 .. snapshot'.upto = {1}
      BY <1>7
    <3>2. QED BY <3>1, <1>1, <1>6
  <2>3. Covers'
    BY <2>2, <1>6, <1>7, <1>8 DEF Covers
  <2>4. Range(plan.events) \subseteq Stored
    BY <1>4, <1>5 DEF Stored
  <2>5. QED BY <2>1, <2>3, <2>4, <1>6, <1>7, <1>9 DEF Snapshots
<1>15. Typed' /\ Outbox' /\ Shared' /\ Projects' /\ Durable' /\ Places'
  <2>1. /\ lines' \in Seq(Event \union {Bad}) /\ ended' \in BOOLEAN
        /\ generation' \in 0..MaxRotations
        /\ backup' \in [1..MaxRotations -> Seq(Event) \union {None}]
    BY <1>1, <1>2, <1>3 DEF Typed
  <2>2. pc \in RotationPlace /\ pc' \in RotationPlace
    BY <1>1 DEF RotationPlace
  <2>3. QED BY <2>1, <2>2, <1>1, <1>7, <1>9, RotationKeeps DEF NothingLost
<1>16. QED BY <1>9, <1>10, <1>12, <1>13, <1>14, <1>15 DEF MemoryInv, NothingLost
-----------------------------------------------------------------------------
LEMMA NextKeeps ==
  ASSUME MemoryInv, CutInside, [Next]_vars
  PROVE  MemoryInv' /\ NothingLost
<1>1. CASE StoreStep
  BY <1>1, StoreKeeps
<1>2. CASE Seal \/ Finalize
  BY <1>2, SealKeeps
<1>3. CASE Rotate
  BY <1>3, RotateKeeps
<1>4. CASE RotationStep
  BY <1>4, WriteBackupKeeps, WriteJournalKeeps, SwitchKeeps, MarkKeeps, PublishStateKeeps,
     ReanchorKeeps, ReceiptKeeps, RemoveJournalKeeps, RemoveCandidateKeeps,
     EndRotationKeeps DEF RotationStep
<1>5. CASE Recover
  BY <1>5, RecoverKeeps
<1>6. CASE RotationCrash
  BY <1>6, EndRotationKeeps
<1>7. CASE UNCHANGED vars
  <2>1. /\ SameLedger /\ pc' = pc /\ plan' = plan
        /\ UNCHANGED <<outbox, shared, writing, acked, batch, fresh, target>>
    BY <1>7 DEF vars, storeVars, files, producerVars, runVars, ledger, rotated, SameLedger
  <2>2. Ledger' = Ledger /\ Stored' = Stored
    BY <2>1, LedgerAsItWas
  <2>3. Typed' /\ Outbox' /\ Shared' /\ Durable' /\ Places' /\ Projects'
    BY <2>1, <2>2 DEF MemoryInv, Typed, Outbox, Shared, Durable, Places, Projects, SameLedger
  <2>4. pc \in StorePlace => journal = None \/ AtBoundary \/ snapshot = None
    BY DEF MemoryInv, Snapshots
  <2>5. QED BY <2>1, <2>3, <2>4, SameLedgerKeeps
<1>8. QED BY <1>1, <1>2, <1>3, <1>4, <1>5, <1>6, <1>7 DEF Next

(* The invariant, for any events, any bounds, any crashes.                    *)
THEOREM MemoryIsSound == ASSUME CutInside PROVE Spec => []MemoryInv
<1>1. Init => MemoryInv
  BY InitHolds
<1>2. MemoryInv /\ [Next]_vars => MemoryInv'
  BY NextKeeps
<1>3. QED BY <1>1, <1>2, PTL DEF Spec

(* What enqueueMemoryEvent acknowledged survives every crash, every cut write *)
(* and every rotation.                                                        *)
THEOREM AcksAreDurable == ASSUME CutInside PROVE Spec => []Durable
<1>1. MemoryInv => Durable
  BY DEF MemoryInv
<1>2. QED BY <1>1, MemoryIsSound, PTL

(* No retry of a producer, no second projection of an outbox file and no      *)
(* resumed rotation puts an event in the ledger twice, across generations.    *)
THEOREM EventsStandOnce == ASSUME CutInside PROVE Spec => []ExactlyOnce
<1>1. MemoryInv => ExactlyOnce
  <2> SUFFICES ASSUME MemoryInv PROVE ExactlyOnce
    OBVIOUS
  <2>1. IsInjective(Ledger)
    BY LedgerParts DEF MemoryInv, Once
  <2>2. QED BY <2>1 DEF IsInjective, ExactlyOnce
<1>2. QED BY <1>1, MemoryIsSound, PTL

(* A read of the ledger that succeeds returns every event that was shared, or *)
(* acknowledged and taken from the outbox.                                    *)
THEOREM ReadsAreWhole == ASSUME CutInside PROVE Spec => []ReadIsWhole
<1>1. MemoryInv => ReadIsWhole
  <2> SUFFICES ASSUME MemoryInv, Readable
               PROVE  shared \union {e \in acked : outbox[e] = "absent"} \subseteq Range(Ledger)
    BY DEF ReadIsWhole
  <2>1. Stored = Range(Ledger)
    BY ReadableIs
  <2>2. QED BY <2>1 DEF MemoryInv, Shared, Durable
<1>2. QED BY <1>1, MemoryIsSound, PTL

(* A rotation taken up again finds its own effects and goes on.               *)
LEMMA RotationGoesOn ==
  ASSUME MemoryInv, pc \in RotationPlace, Bad \notin Range(receipts), ~Interfered(plan)
  PROVE  Passes
<1>1. /\ Typed /\ Tidy /\ Once /\ Generations /\ Journals /\ Rotates
  BY DEF MemoryInv
<1>2. PlanOk(plan) /\ (IsSource(plan) \/ IsCandidate(plan))
      /\ snapshot \in {plan.snap, Reanchored(plan)}
  BY <1>1 DEF Rotates, Interfered
<1>3. /\ plan.gen \in 1..MaxRotations /\ plan.gen \in Nat \ {0}
      /\ generation \in Nat
      /\ plan.source \in Seq(Event) /\ plan.source # <<>> /\ plan.events # <<>>
      /\ Last(plan.events) = Last(plan.source) /\ plan.ended
  BY <1>1, <1>2, MemoryAssumption DEF PlanOk, RotationPlan, Typed
<1>4. ended
  BY <1>2, <1>3 DEF IsSource, IsCandidate
<1>5. LedgerOk
  BY <1>1, <1>4, WholeLines DEF LedgerOk, Once
<1>6. CASE pc = "switch"
  <2>1. /\ journal # None /\ journal.plan = plan
        /\ generation \in {plan.gen - 1, plan.gen}
        /\ journal.stage # "prepared" => Continues(plan.events)
        /\ journal.stage \notin {"prepared", "switched"} => generation = plan.gen
    BY <1>1, <1>6 DEF Rotates, RotationPlace, Journals
  <2>2. SUFFICES ASSUME IsSource(plan), ~IsCandidate(plan)
                 PROVE  PublishedGeneration = plan.gen - 1
    BY <1>2, <1>5, <1>6 DEF Passes
  <2>3. ~Continues(plan.events)
    <3>1. PICK s : s = plan.source
      OBVIOUS
    <3>2. s \in Seq(Event) /\ s # <<>> /\ lines = s
      BY <3>1, <2>2, <1>3 DEF IsSource
    <3>3. Len(s) \in Nat \ {0} /\ DOMAIN s = 1 .. Len(s) /\ Last(s) = s[Len(s)]
      BY <3>2, FrontLast, LenProperties
    <3>4. IsInjective(s)
      BY <3>2, <1>1 DEF Once
    <3>5. ASSUME s[1] = Last(s) PROVE FALSE
      <4>1. Len(s) = 1
        BY <3>3, <3>4, <3>5 DEF IsInjective
      <4>2. s = <<Last(s)>>
        BY <4>1, <3>2, <3>3
      <4>3. lines = Candidate(plan)
        BY <4>2, <3>1, <3>2, <1>3 DEF Candidate
      <4>4. QED BY <4>3, <2>2, <1>4 DEF IsCandidate
    <3>6. QED BY <3>1, <3>2, <3>5, <1>3 DEF Continues
  <2>4. journal.stage = "prepared"
    BY <2>1, <2>3
  <2>5. generation = plan.gen - 1
    <3>1. ASSUME generation = plan.gen PROVE FALSE
      <4>1. journal.stage # "prepared"
        BY <2>1, <3>1, <1>1 DEF Journals
      <4>2. QED BY <4>1, <2>4
    <3>2. QED BY <3>1, <2>1
  <2>6. QED BY <2>4, <2>5 DEF PublishedGeneration
<1>7. CASE pc = "state"
  <2>1. /\ journal # None /\ journal.plan = plan /\ journal.stage # "prepared"
        /\ generation \in {plan.gen - 1, plan.gen}
        /\ journal.stage \notin {"prepared", "switched"} => generation = plan.gen
    BY <1>1, <1>7 DEF Rotates, RotationPlace, Journals
  <2>2. PublishedGeneration \in {0, plan.gen}
    <3>1. CASE generation = plan.gen
      BY <3>1 DEF PublishedGeneration
    <3>2. CASE generation = plan.gen - 1
      <4>1. journal.stage = "switched" /\ plan.gen = generation + 1
        BY <3>2, <2>1, <1>3
      <4>2. QED BY <4>1, <2>1 DEF PublishedGeneration
    <3>3. QED BY <3>1, <3>2, <2>1
  <2>3. QED BY <2>2, <1>7 DEF Passes
<1>8. CASE pc \notin {"switch", "state"}
  BY <1>2, <1>8 DEF Passes
<1>9. QED BY <1>6, <1>7, <1>8

(* Only a foreign write or a cut receipt can refuse a resumed rotation.       *)
THEOREM RotationsConverge == ASSUME CutInside PROVE Spec => []RotationConverges
<1>1. MemoryInv => RotationConverges
  BY RotationGoesOn DEF RotationConverges
<1>2. QED BY <1>1, MemoryIsSound, PTL

(* Nothing is taken out of what can be read back, whatever repairs, rotates   *)
(* or crashes: without a cut just before a newline the ledger is append-only. *)
THEOREM LedgerIsAppendOnly == ASSUME CutInside PROVE Spec => AppendOnly
<1>1. MemoryInv /\ [Next]_vars => [Stored \ {Bad} \subseteq Stored']_vars
  BY NextKeeps DEF NothingLost
<1>2. QED BY <1>1, MemoryIsSound, PTL DEF Spec, AppendOnly
=============================================================================
