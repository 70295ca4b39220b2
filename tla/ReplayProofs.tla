------------------------------ MODULE ReplayProofs ------------------------------
(* What is read back from events, and the lock under which they are written.   *)
(* The record that devices share loses no event and is never overwritten by   *)
(* an event that did not know it, for any number of devices, versions, events *)
(* and deaths; the published value of the shared memory is that of a replay   *)
(* of its ledger, for any sessions, events and order of arrival; and the lock *)
(* of a vault's files (withVaultPathLock) excludes, for any processes.        *)
EXTENDS SyncDevices, MemoryReducer, VaultLock, FiniteSetTheorems, WellFoundedInduction, TLAPS

(* Induction, over a set in place of a predicate: the subsets 1..n of Nat are *)
(* well founded, so a set of numbers has a least one.                         *)
LEMMA LeastNumber ==
  ASSUME NEW T \in SUBSET Nat, T # {}
  PROVE  \E n \in T : \A m \in T : n <= m
<1> DEFINE Below == {1..n : n \in T}
<1>1. Below \subseteq FiniteSubsetsOf(Nat) /\ Below # {}
  <2>1. ASSUME NEW n \in T PROVE 1..n \in FiniteSubsetsOf(Nat)
    <3>1. IsFiniteSet(1..n)
      BY FS_Interval
    <3>2. QED BY <3>1 DEF FiniteSubsetsOf
  <2>2. QED BY <2>1
<1>2. IsWellFoundedOn(StrictSubsetOrdering(Nat), FiniteSubsetsOf(Nat))
  BY FS_StrictSubsetOrderingWellFounded
<1>3. PICK b \in Below : \A c \in Below : <<c, b>> \notin StrictSubsetOrdering(Nat)
  <2> HIDE DEF Below
  <2> QED BY <1>1, <1>2, WFMin
<1>4. PICK n \in T : b = 1..n
  BY <1>3
<1>5. ASSUME NEW m \in T, m < n PROVE FALSE
  <2>1. 1..m \in Below /\ 1..m \subseteq 1..n
    BY <1>5
  <2>2. n \in 1..n /\ n \notin 1..m
    BY <1>5
  <2>3. <<1..m, 1..n>> \in StrictSubsetOrdering(Nat)
    BY <2>1, <2>2 DEF StrictSubsetOrdering
  <2>4. QED BY <2>1, <2>3, <1>3, <1>4
<1>6. QED BY <1>5

(* A set that holds 0, and the next of every number it holds, holds them all. *)
LEMMA Induction ==
  ASSUME NEW T, 0 \in T, \A n \in Nat : n \in T => n + 1 \in T
  PROVE  Nat \subseteq T
<1> DEFINE Out == Nat \ T
<1>1. ASSUME Out # {} PROVE FALSE
  <2>1. PICK n \in Out : \A m \in Out : n <= m
    <3>1. Out \in SUBSET Nat
      OBVIOUS
    <3> HIDE DEF Out
    <3>2. QED BY <3>1, <1>1, LeastNumber
  <2>2. n # 0 /\ n \in Nat
    OBVIOUS
  <2>3. n - 1 \in Nat /\ n - 1 \notin Out
    BY <2>1, <2>2
  <2>4. n - 1 \in T
    BY <2>3
  <2>5. n - 1 + 1 \in T
    BY <2>3, <2>4
  <2>6. QED BY <2>5, <2>2
<1>2. QED BY <1>1

(* f takes x through g, n times.                                              *)
Iterated(f, x, g, X, N) ==
  f \in [0..N -> X] /\ f[0] = x /\ \A n \in 1..N : f[n] = g[f[n - 1]]

(* A function can be iterated any number of times.                            *)
LEMMA Iterates ==
  ASSUME NEW X, NEW x \in X, NEW g \in [X -> X], NEW N \in Nat
  PROVE  \E f : Iterated(f, x, g, X, N)
<1> DEFINE Iter(f, n) == f[0] = x /\ \A i \in 1..n : f[i] = g[f[i - 1]]
           T == {n \in Nat : \E f \in [0..n -> X] : Iter(f, n)}
<1>1. 0 \in T
  <2>1. [i \in 0..0 |-> x] \in [0..0 -> X] /\ Iter([i \in 0..0 |-> x], 0)
    OBVIOUS
  <2>2. QED BY <2>1
<1>2. ASSUME NEW n \in Nat, n \in T PROVE n + 1 \in T
  <2>1. PICK f \in [0..n -> X] : Iter(f, n)
    BY <1>2
  <2> DEFINE h == [i \in 0 .. n + 1 |-> IF i <= n THEN f[i] ELSE g[f[n]]]
  <2>2. h \in [0 .. n + 1 -> X]
    <3>1. f[n] \in X
      OBVIOUS
    <3>2. g[f[n]] \in X
      BY <3>1
    <3>3. \A i \in 0 .. n + 1 : i <= n => f[i] \in X
      OBVIOUS
    <3>4. QED BY <3>2, <3>3
  <2>3. h[0] = x
    BY <2>1
  <2>4. ASSUME NEW i \in 1 .. n + 1 PROVE h[i] = g[h[i - 1]]
    <3>1. i - 1 \in 0 .. n /\ h[i - 1] = f[i - 1]
      OBVIOUS
    <3>2. CASE i <= n
      BY <3>1, <3>2, <2>1
    <3>3. CASE ~(i <= n)
      <4>1. i = n + 1 /\ i - 1 = n
        BY <3>3
      <4>2. QED BY <3>1, <3>3, <4>1
    <3>4. QED BY <3>2, <3>3
  <2>5. \E k \in [0 .. n + 1 -> X] : Iter(k, n + 1)
    <3>1. Iter(h, n + 1)
      <4> HIDE DEF h
      <4> QED BY <2>3, <2>4
    <3> HIDE DEF h, Iter
    <3> QED BY <2>2, <3>1
  <2>6. QED BY <2>5
<1>3. Nat \subseteq T
  <2> HIDE DEF T
  <2> QED BY <1>1, <1>2, Induction
<1>4. QED BY <1>3 DEF Iterated
-----------------------------------------------------------------------------
(* One record of the protocol.                                                *)
Record == [record : Event \union {NoRecord}, conflict : {"none", "open", "resolved"},
           candidates : SUBSET Event, pending : SUBSET Event, applied : SUBSET Ids]

(* The ids of the events that a state has taken.                              *)
Taken(s) == s.applied \union {e.id : e \in s.pending}

(* An event without parents is the first of its record.                       *)
Rooted(M) == \A e \in M : e.parents = {} => e.base = 0

(* Every event applied is an ancestor of the record or of a candidate.        *)
Traced(s, M) ==
  \A S \in SUBSET Ids :
    /\ ({s.record} \union s.candidates) \ {NoRecord} \subseteq {e \in M : e.id \in S}
    /\ \A e \in M : e.id \in S => e.parents \subseteq S
    => s.applied \subseteq S

(* A state made of the events M.                                              *)
Accounts(s, M) ==
  /\ s \in Record
  /\ s.record \in M \union {NoRecord} /\ s.candidates \subseteq M /\ s.pending \subseteq M
  /\ s.record = NoRecord => s.conflict = "none" /\ s.applied = {}
  /\ s.conflict = "open" => s.record \in s.candidates
  /\ Traced(s, M)

(* No event is the absent record, and a revision is one above its base.       *)
LEMMA RecordTypes ==
  /\ NoRecord \notin Event
  /\ Revision(NoRecord) = 0
  /\ \A e \in Event : Revision(e) = e.base + 1 /\ Revision(e) \in Nat \ {0} /\ e.base \in Nat
<1>1. NoRecord.op \notin {"put", "resolve"}
  BY DEF NoRecord
<1>2. NoRecord \notin Event
  BY <1>1 DEF Event
<1>3. QED BY <1>2, SyncAssumption DEF Revision, Event

(* A conflict keeps the record and the event as candidates.                   *)
LEMMA OpenedAccounts ==
  ASSUME NEW M \in SUBSET Event, NEW s, Accounts(s, M), NEW e \in M, s.record # NoRecord
  PROVE  /\ Accounts(Opened(s, e), M)
         /\ Taken(Opened(s, e)) = Taken(s) \union {e.id}
         /\ Opened(s, e).pending = s.pending /\ Opened(s, e).record = s.record
<1> DEFINE t == Opened(s, e)
<1>0. s \in Record /\ e \in Event /\ e # NoRecord /\ e.id \in Ids
  BY RecordTypes DEF Accounts, Event
<1>1. /\ t.record = s.record /\ t.conflict = "open" /\ t.pending = s.pending
      /\ t.candidates = s.candidates \union {s.record, e}
      /\ t.applied = s.applied \union {e.id}
  <2>1. NoRecord \notin s.candidates
    BY RecordTypes DEF Accounts
  <2>2. QED BY <1>0, <2>1 DEF Opened, Record
<1>2. t \in Record
  BY <1>0, <1>1 DEF Opened, Record, Accounts
<1>3. Traced(t, M)
  <2> SUFFICES ASSUME NEW S \in SUBSET Ids,
                      ({t.record} \union t.candidates) \ {NoRecord} \subseteq {f \in M : f.id \in S},
                      \A f \in M : f.id \in S => f.parents \subseteq S
               PROVE  t.applied \subseteq S
    BY DEF Traced
  <2> HIDE DEF t
  <2>1. s.applied \subseteq S
    <3>1. ({s.record} \union s.candidates) \ {NoRecord} \subseteq {f \in M : f.id \in S}
      BY <1>1
    <3>2. QED BY <3>1 DEF Accounts, Traced
  <2>2. e.id \in S
    BY <1>0, <1>1
  <2>3. QED BY <2>1, <2>2, <1>1
<1>4. Accounts(t, M)
  <2> HIDE DEF t
  <2> QED BY <1>0, <1>1, <1>2, <1>3 DEF Accounts
<1>5. Taken(t) = Taken(s) \union {e.id}
  <2> HIDE DEF t
  <2> QED BY <1>1 DEF Taken
<1>6. QED BY <1>1, <1>4, <1>5

(* Whatever branch applySyncEvent takes, the event is taken and accounted.    *)
LEMMA AdmitAccounts ==
  ASSUME NEW M \in SUBSET Event, Rooted(M), NEW s, Accounts(s, M), NEW e \in M
  PROVE  /\ Accounts(Admit(s, e), M)
         /\ Taken(Admit(s, e)) = Taken(s) \union {e.id}
         /\ e.base <= Revision(s.record) => Admit(s, e).pending = s.pending
<1>0. /\ s \in Record /\ e \in Event /\ e # NoRecord /\ e.id \in Ids /\ e.base \in Nat
      /\ s.record \in Event \union {NoRecord} /\ Revision(s.record) \in Nat
  BY RecordTypes DEF Accounts, Event, Record
<1>1. CASE s.conflict = "open"
  <2>1. s.record # NoRecord /\ Admit(s, e) = Opened(s, e)
    BY <1>1 DEF Accounts, Admit
  <2>2. /\ Accounts(Opened(s, e), M) /\ Taken(Opened(s, e)) = Taken(s) \union {e.id}
        /\ Opened(s, e).pending = s.pending
    BY <2>1, OpenedAccounts
  <2>3. QED BY <2>1, <2>2
<1>2. CASE s.conflict # "open" /\ e.base > Revision(s.record)
  <2> DEFINE t == [s EXCEPT !.pending = @ \union {e}]
  <2>1. Admit(s, e) = t
    BY <1>0, <1>2 DEF Admit
  <2>2. /\ t.record = s.record /\ t.conflict = s.conflict /\ t.candidates = s.candidates
        /\ t.applied = s.applied /\ t.pending = s.pending \union {e} /\ t \in Record
    BY <1>0 DEF Record
  <2> HIDE DEF t
  <2>3. Accounts(t, M)
    BY <2>2 DEF Accounts, Traced
  <2>4. Taken(t) = Taken(s) \union {e.id}
    BY <2>2 DEF Taken
  <2>5. QED BY <2>1, <2>3, <2>4, <1>0, <1>2
<1>3. CASE s.conflict # "open" /\ e.base < Revision(s.record)
  <2>1. s.record # NoRecord
    BY <1>0, <1>3, RecordTypes
  <2>2. Admit(s, e) = Opened(s, e)
    BY <1>0, <1>3 DEF Admit
  <2>3. /\ Accounts(Opened(s, e), M) /\ Taken(Opened(s, e)) = Taken(s) \union {e.id}
        /\ Opened(s, e).pending = s.pending
    BY <2>1, OpenedAccounts
  <2>4. QED BY <2>2, <2>3
<1>4. CASE s.conflict # "open" /\ e.base = Revision(s.record)
  <2>1. CASE e.parents # {} /\ s.record # NoRecord /\ s.record.id \notin e.parents
    <3>1. Admit(s, e) = Opened(s, e)
      BY <1>0, <1>4, <2>1 DEF Admit
    <3>2. QED BY <3>1, <2>1, OpenedAccounts
  <2>2. CASE ~(e.parents # {} /\ s.record # NoRecord /\ s.record.id \notin e.parents)
    <3> DEFINE t == [s EXCEPT !.record = e, !.applied = @ \union {e.id}]
    <3>1. Admit(s, e) = t
      BY <1>0, <1>4, <2>2 DEF Admit
    <3>2. /\ t.record = e /\ t.conflict = s.conflict /\ t.candidates = s.candidates
          /\ t.applied = s.applied \union {e.id} /\ t.pending = s.pending /\ t \in Record
      BY <1>0 DEF Record
    <3> HIDE DEF t
    <3>3. Traced(t, M)
      <4> SUFFICES ASSUME NEW S \in SUBSET Ids,
                          ({t.record} \union t.candidates) \ {NoRecord}
                             \subseteq {f \in M : f.id \in S},
                          \A f \in M : f.id \in S => f.parents \subseteq S
                   PROVE  t.applied \subseteq S
        BY DEF Traced
      <4>1. e.id \in S /\ e.parents \subseteq S
        BY <1>0, <3>2
      <4>2. s.applied \subseteq S
        <5>1. CASE s.record = NoRecord
          BY <5>1 DEF Accounts
        <5>2. CASE s.record # NoRecord
          <6>1. e.parents # {}
            BY <1>0, <1>4, <5>2, RecordTypes DEF Rooted
          <6>2. s.record.id \in S /\ s.record \in M
            BY <6>1, <5>2, <2>2, <4>1 DEF Accounts
          <6>3. ({s.record} \union s.candidates) \ {NoRecord} \subseteq {f \in M : f.id \in S}
            BY <6>2, <3>2
          <6>4. QED BY <6>3 DEF Accounts, Traced
        <5>3. QED BY <5>1, <5>2
      <4>3. QED BY <4>1, <4>2, <3>2
    <3>4. Accounts(t, M)
      BY <1>0, <1>4, <3>2, <3>3 DEF Accounts
    <3>5. Taken(t) = Taken(s) \union {e.id}
      BY <3>2 DEF Taken
    <3>6. QED BY <3>1, <3>2, <3>4, <3>5
  <2>3. QED BY <2>1, <2>2
<1>5. QED BY <1>0, <1>1, <1>2, <1>3, <1>4

(* The event that replayPending takes next.                                   *)
LEMMA FirstIsOne ==
  ASSUME NEW E \in SUBSET Event, E # {}
  PROVE  First(E) \in E
<1>0. \A e \in E : e.base \in Nat /\ e.id \in Nat
  BY SyncAssumption DEF Event, Ids
<1> DEFINE Bases == {e.base : e \in E}
<1>1. PICK b \in Bases : \A c \in Bases : b <= c
  <2>1. Bases \in SUBSET Nat /\ Bases # {}
    BY <1>0
  <2> HIDE DEF Bases
  <2>2. QED BY <2>1, LeastNumber
<1> DEFINE Lowest == {e.id : e \in {f \in E : f.base = b}}
<1>2. PICK i \in Lowest : \A j \in Lowest : i <= j
  <2>1. Lowest \in SUBSET Nat /\ Lowest # {}
    BY <1>0, <1>1
  <2> HIDE DEF Lowest
  <2>2. QED BY <2>1, LeastNumber
<1>3. PICK e \in E : e.base = b /\ e.id = i
  BY <1>2
<1>4. \A f \in E : e.base < f.base \/ (e.base = f.base /\ e.id <= f.id)
  <2> TAKE f \in E
  <2>1. b <= f.base /\ (f.base = b => i <= f.id)
    BY <1>1, <1>2
  <2>2. QED BY <2>1, <1>0, <1>3
<1>5. QED BY <1>3, <1>4 DEF First

(* One turn of replayPending.                                                 *)
Turn(t) == IF Ready(t) = {} THEN t
           ELSE LET e == First(Ready(t))
                IN  Admit([t EXCEPT !.pending = @ \ {e}], e)

(* A turn takes one event out of the pending set, and drops nothing.          *)
LEMMA TurnAccounts ==
  ASSUME NEW M \in SUBSET Event, Rooted(M), NEW t, Accounts(t, M)
  PROVE  /\ Accounts(Turn(t), M) /\ Taken(Turn(t)) = Taken(t)
         /\ Ready(t) # {} => \E e \in t.pending : Turn(t).pending = t.pending \ {e}
<1>1. CASE Ready(t) = {}
  BY <1>1 DEF Turn
<1>2. CASE Ready(t) # {}
  <2>1. Ready(t) \in SUBSET Event /\ Ready(t) \subseteq t.pending
    BY DEF Ready, Accounts
  <2>2. PICK e \in Ready(t) : e = First(Ready(t))
    BY <1>2, <2>1, FirstIsOne
  <2> DEFINE r == [t EXCEPT !.pending = @ \ {e}]
  <2>3. Turn(t) = Admit(r, e)
    BY <1>2, <2>2 DEF Turn
  <2>4. /\ r.record = t.record /\ r.conflict = t.conflict /\ r.candidates = t.candidates
        /\ r.applied = t.applied /\ r.pending = t.pending \ {e} /\ r \in Record
    BY DEF Accounts, Record
  <2>5. e \in M /\ e \in t.pending /\ e.base <= Revision(r.record)
    BY <2>1, <2>4 DEF Accounts, Ready
  <2> HIDE DEF r
  <2>6. Accounts(r, M)
    BY <2>4 DEF Accounts, Traced
  <2>7. /\ Accounts(Admit(r, e), M) /\ Taken(Admit(r, e)) = Taken(r) \union {e.id}
        /\ Admit(r, e).pending = r.pending
    BY <2>5, <2>6, AdmitAccounts
  <2>8. Taken(t) = Taken(r) \union {e.id}
    BY <2>4, <2>5 DEF Taken
  <2>9. QED BY <2>3, <2>4, <2>5, <2>7, <2>8
<1>3. QED BY <1>1, <1>2

(* replayPending: what it made of the state after n turns.                    *)
LEMMA ReplayIsTurns ==
  ASSUME NEW M \in SUBSET Event, Rooted(M), IsFiniteSet(M), NEW s, Accounts(s, M)
  PROVE  /\ Cardinality(s.pending) \in Nat
         /\ \E f : /\ f[0] = s
                   /\ \A n \in 1 .. Cardinality(s.pending) : f[n] = Turn(f[n - 1])
                   /\ ReplayPending(s) = f[Cardinality(s.pending)]
<1> DEFINE N == Cardinality(s.pending)
           X == {t \in Record : Accounts(t, M)}
           F(f) == [n \in 0..N |-> IF n = 0 THEN s ELSE Turn(f[n - 1])]
<1>1. N \in Nat
  <2>1. IsFiniteSet(s.pending)
    BY FS_Subset DEF Accounts
  <2>2. QED BY <2>1, FS_CardinalityType
<1>2. \E f : f = F(f)
  <2> DEFINE g == [t \in X |-> Turn(t)]
  <2>1. g \in [X -> X]
    <3>1. ASSUME NEW t \in X PROVE Turn(t) \in X
      BY TurnAccounts DEF Accounts
    <3>2. QED BY <3>1
  <2>2. s \in X
    BY DEF Accounts
  <2>3. PICK f \in [0..N -> X] : f[0] = s /\ \A n \in 1..N : f[n] = g[f[n - 1]]
    <3>1. PICK Y, h, k : Y = X /\ h = g /\ k = N
      OBVIOUS
    <3>2. h \in [Y -> Y] /\ s \in Y /\ k \in Nat
      BY <3>1, <2>1, <2>2, <1>1
    <3>3. \E f : Iterated(f, s, h, Y, k)
      BY <3>2, Iterates
    <3>4. QED BY <3>1, <3>3 DEF Iterated
  <2>4. ASSUME NEW n \in 0..N PROVE f[n] = F(f)[n]
    <3>1. CASE n = 0
      BY <3>1, <2>3, <1>1
    <3>2. CASE n # 0
      <4>1. n \in 1..N /\ n - 1 \in 0..N
        BY <3>2, <1>1
      <4>2. f[n] = g[f[n - 1]] /\ f[n - 1] \in X
        BY <4>1, <2>3
      <4>3. f[n] = Turn(f[n - 1])
        BY <4>2
      <4>4. QED BY <4>3, <3>2
    <3>3. QED BY <3>1, <3>2
  <2>5. f = F(f)
    <3> HIDE DEF X, N
    <3> QED BY <2>4
  <2>6. QED BY <2>5
<1>3. PICK f : f = (CHOOSE h : h = F(h))
  OBVIOUS
<1>4. f = F(f)
  BY <1>2, <1>3
<1>5. ReplayPending(s) = f[N]
  BY <1>3 DEF ReplayPending, Turn
<1>6. f[0] = s /\ \A n \in 1..N : f[n] = Turn(f[n - 1])
  <2>1. F(f)[0] = s /\ \A n \in 1..N : F(f)[n] = Turn(f[n - 1])
    BY <1>1
  <2> HIDE DEF F
  <2>2. QED BY <2>1, <1>4
<1>7. QED BY <1>1, <1>5, <1>6

(* replayPending drops nothing, takes nothing twice, and leaves no event that *)
(* is ready.                                                                  *)
LEMMA ReplayAccounts ==
  ASSUME NEW M \in SUBSET Event, Rooted(M), IsFiniteSet(M), NEW s, Accounts(s, M)
  PROVE  /\ Accounts(ReplayPending(s), M) /\ Taken(ReplayPending(s)) = Taken(s)
         /\ Ready(ReplayPending(s)) = {}
<1> DEFINE N == Cardinality(s.pending)
<1>1. N \in Nat
  BY ReplayIsTurns
<1>2. PICK f : /\ f[0] = s /\ ReplayPending(s) = f[N]
               /\ \A n \in 1..N : f[n] = Turn(f[n - 1])
  BY ReplayIsTurns
<1> DEFINE Good(n) == /\ Accounts(f[n], M) /\ Taken(f[n]) = Taken(s)
                      /\ \/ Ready(f[n]) = {}
                         \/ IsFiniteSet(f[n].pending) /\ Cardinality(f[n].pending) = N - n
           T == {n \in Nat : n <= N => Good(n)}
<1>3. 0 \in T
  <2>1. IsFiniteSet(s.pending)
    BY FS_Subset DEF Accounts
  <2>2. QED BY <2>1, <1>1, <1>2
<1>4. ASSUME NEW n \in Nat, n \in T PROVE n + 1 \in T
  <2> SUFFICES ASSUME n + 1 <= N PROVE Good(n + 1)
    OBVIOUS
  <2>1. Good(n)
    BY <1>1, <1>4
  <2>2. f[n + 1] = Turn(f[n])
    <3>1. n + 1 \in 1..N /\ n + 1 - 1 = n
      BY <1>1
    <3>2. QED BY <3>1, <1>2
  <2>3. PICK t : t = f[n]
    OBVIOUS
  <2>4. Accounts(Turn(t), M) /\ Taken(Turn(t)) = Taken(s)
    BY <2>1, <2>3, TurnAccounts
  <2>5. CASE Ready(t) = {}
    <3>1. Turn(t) = t
      BY <2>5 DEF Turn
    <3>2. QED BY <3>1, <2>2, <2>3, <2>4, <2>5
  <2>6. CASE Ready(t) # {}
    <3>1. IsFiniteSet(t.pending) /\ Cardinality(t.pending) = N - n
      BY <2>1, <2>3, <2>6
    <3>2. PICK e \in t.pending : Turn(t).pending = t.pending \ {e}
      BY <2>1, <2>3, <2>6, TurnAccounts
    <3>3. IsFiniteSet(t.pending \ {e}) /\ Cardinality(t.pending \ {e}) = N - n - 1
      BY <3>1, <3>2, FS_RemoveElement
    <3>4. N - n - 1 = N - (n + 1)
      BY <1>1
    <3>5. QED BY <3>2, <3>3, <3>4, <2>2, <2>3, <2>4
  <2>7. QED BY <2>5, <2>6
<1>5. Nat \subseteq T
  <2> HIDE DEF T
  <2> QED BY <1>3, <1>4, Induction
<1>6. Good(N)
  BY <1>1, <1>5
<1>7. Ready(f[N]) = {}
  <2>1. CASE IsFiniteSet(f[N].pending) /\ Cardinality(f[N].pending) = N - N
    <3>1. f[N].pending = {}
      BY <1>1, <2>1, FS_EmptySet
    <3>2. QED BY <3>1 DEF Ready
  <2>2. QED BY <1>6, <2>1
<1>8. QED BY <1>2, <1>6, <1>7

(* applySyncEvent, whatever the state it is applied to.                       *)
LEMMA ApplyAccounts ==
  ASSUME NEW M \in SUBSET Event, Rooted(M), IsFiniteSet(M), NEW s, Accounts(s, M),
         NEW e \in M
  PROVE  /\ Accounts(applySyncEvent(s, e), M)
         /\ Taken(applySyncEvent(s, e)) = Taken(s) \union {e.id}
<1>1. CASE e.id \in s.applied \/ e \in s.pending
  BY <1>1 DEF applySyncEvent, Taken
<1>2. CASE ~(e.id \in s.applied \/ e \in s.pending)
  <2> DEFINE t == Admit(s, e)
  <2>1. Accounts(t, M) /\ Taken(t) = Taken(s) \union {e.id}
    BY AdmitAccounts
  <2>2. applySyncEvent(s, e) = IF t.record # s.record THEN ReplayPending(t) ELSE t
    BY <1>2 DEF applySyncEvent
  <2> HIDE DEF t
  <2>3. Accounts(ReplayPending(t), M) /\ Taken(ReplayPending(t)) = Taken(t)
    BY <2>1, ReplayAccounts
  <2>4. QED BY <2>1, <2>2, <2>3
<1>3. QED BY <1>1, <1>2
-----------------------------------------------------------------------------
(* What the events made have in common: an event follows the revisions it     *)
(* was made from.                                                             *)
MadeWell(M) ==
  /\ M \subseteq Event /\ IsFiniteSet(M) /\ Rooted(M)
  /\ \A e \in M : e.id <= Cardinality(M) /\ e.base < e.id

Steps == {"idle", "send", "append", "save", "unlock", "ack", "import", "record"}
Inside == {"append", "record", "save", "unlock"}

Files ==
  /\ vault \in [Devices -> Versions] /\ portable \in [Devices -> 0..MaxEdits]
  /\ outbox \in [Devices -> Seq(made)] /\ acks \in [Devices -> SUBSET Ids]
  /\ local \in [Devices -> Record] /\ next \in [Devices -> Record]
  /\ log \in Seq(Ids) /\ torn \in BOOLEAN /\ lock \in Devices \union {NoDevice}
  /\ pc \in [Devices -> Steps] /\ todo \in [Devices -> Seq(made)]
  /\ edits \in 1..MaxEdits /\ crashes \in Nat

(* Every copy of the state, the one being written included.                   *)
Copies == /\ MadeWell(made) /\ Accounts(state, made)
          /\ \A d \in Devices : Accounts(local[d], made) /\ Accounts(next[d], made)

(* Who changes the backend holds its lock: no reaper takes it from the living. *)
Locked == \A d \in Devices : pc[d] \in Inside => lock = d

(* What a command knows at each place.                                        *)
Knows(d) ==
  /\ pc[d] \in {"idle", "import", "record"} => todo[d] = <<>>
  /\ pc[d] \in {"append", "ack"} => todo[d] # <<>>
  /\ pc[d] = "record" => next[d].record # NoRecord
  /\ pc[d] \in {"append", "record", "save"} => Taken(state) \subseteq Taken(next[d])
  /\ pc[d] \in {"append", "save"} /\ todo[d] # <<>> => Head(todo[d]).id \in Taken(next[d])
  /\ pc[d] \in {"unlock", "ack"} /\ todo[d] # <<>> => Head(todo[d]).id \in Taken(state)

SyncInv == /\ Files /\ Copies /\ Locked
           /\ \A d \in Devices : Knows(d)
           /\ AckedIsStored

(* A sequence over a set is one over any larger set.                          *)
LEMMA SequenceGrows ==
  ASSUME NEW S, NEW T, S \subseteq T, NEW s \in Seq(S)
  PROVE  s \in Seq(T)
OBVIOUS

(* A state is still accounted for when more events are made.                  *)
LEMMA AccountsGrow ==
  ASSUME NEW M, NEW N, M \subseteq N, NEW s, Accounts(s, M)
  PROVE  Accounts(s, N)
<1>1. Traced(s, N)
  <2> SUFFICES ASSUME NEW S \in SUBSET Ids,
                      ({s.record} \union s.candidates) \ {NoRecord} \subseteq {e \in N : e.id \in S},
                      \A e \in N : e.id \in S => e.parents \subseteq S
               PROVE  s.applied \subseteq S
    BY DEF Traced
  <2>1. ({s.record} \union s.candidates) \ {NoRecord} \subseteq {e \in M : e.id \in S}
    BY DEF Accounts
  <2>2. QED BY <2>1 DEF Accounts, Traced
<1>2. QED BY <1>1 DEF Accounts

(* createSyncState: nothing has been taken.                                   *)
LEMMA EmptyAccounts ==
  ASSUME NEW M
  PROVE  Accounts(Empty, M) /\ Empty \in Record /\ Taken(Empty) = {}
<1>1. /\ Empty.record = NoRecord /\ Empty.conflict = "none" /\ Empty.candidates = {}
      /\ Empty.pending = {} /\ Empty.applied = {} /\ Empty \in Record
  BY DEF Empty, Record
<1>2. QED BY <1>1 DEF Accounts, Traced, Taken

(* A new event has the next number.                                           *)
LEMMA OneMore ==
  ASSUME NEW M, MadeWell(M), NEW e \in Event,
         e.id = Cardinality(M) + 1, e.base < e.id, e.parents = {} => e.base = 0
  PROVE  MadeWell(M \union {e})
<1>1. Cardinality(M) \in Nat /\ IsFiniteSet(M)
  BY FS_CardinalityType DEF MadeWell
<1>2. e \notin M
  BY <1>1 DEF MadeWell
<1>3. IsFiniteSet(M \union {e}) /\ Cardinality(M \union {e}) = Cardinality(M) + 1
  BY <1>1, <1>2, FS_AddElement
<1>4. \A f \in M : f.id \in Nat
  BY SyncAssumption DEF MadeWell, Event, Ids
<1>5. ASSUME NEW f \in M \union {e}
      PROVE  f.id <= Cardinality(M) + 1 /\ f.base < f.id /\ (f.parents = {} => f.base = 0)
  <2>1. CASE f = e
    BY <2>1, <1>1
  <2>2. CASE f \in M
    <3>1. f.id <= Cardinality(M) /\ f.base < f.id /\ (f.parents = {} => f.base = 0)
      BY <2>2 DEF MadeWell, Rooted
    <3>2. QED BY <3>1, <2>2, <1>1, <1>4
  <2>3. QED BY <2>1, <2>2
<1>6. M \union {e} \subseteq Event
  BY DEF MadeWell
<1>7. QED BY <1>3, <1>5, <1>6 DEF MadeWell, Rooted

(* push: the fresh event follows the local record.                            *)
LEMMA FreshEventIsOne ==
  ASSUME SyncInv, NEW d \in Devices, portable[d] # 0, Fresh <= MaxEvents
  PROVE  FreshEvent(d) \in Event /\ MadeWell(made \union {FreshEvent(d)})
<1> DEFINE r == local[d].record
           e == FreshEvent(d)
<1>1. MadeWell(made) /\ r \in made \union {NoRecord} /\ Cardinality(made) \in Nat
  BY FS_CardinalityType DEF SyncInv, Copies, Accounts, MadeWell
<1>2. e.id = Cardinality(made) + 1 /\ e.base = Revision(r) /\ e.payload = portable[d]
      /\ e.parents = (IF r = NoRecord THEN {} ELSE {r.id}) /\ e.op = "put"
  BY DEF FreshEvent, Fresh
<1>3. Revision(r) \in Nat /\ Revision(r) <= Cardinality(made)
      /\ (r = NoRecord => Revision(r) = 0) /\ (r # NoRecord => r.id \in Ids)
  <2>1. CASE r = NoRecord
    BY <2>1, <1>1, RecordTypes
  <2>2. CASE r # NoRecord
    <3>1. r \in made /\ r \in Event /\ r.id <= Cardinality(made) /\ r.base < r.id
      BY <2>2, <1>1 DEF MadeWell
    <3>2. r.id \in Ids /\ r.id \in Nat /\ r.base \in Nat /\ Revision(r) = r.base + 1
      BY <3>1, RecordTypes, SyncAssumption DEF Event, Ids
    <3>3. QED BY <2>2, <3>1, <3>2, <1>1
  <2>3. QED BY <2>1, <2>2
<1>4. portable[d] \in Versions
  BY SyncAssumption DEF SyncInv, Files, Versions
<1>5. e \in Event
  <2>1. Cardinality(made) + 1 \in Ids /\ Revision(r) \in 0..MaxEvents
    BY <1>1, <1>3, SyncAssumption DEF Fresh, Ids
  <2>2. (IF r = NoRecord THEN {} ELSE {r.id}) \in SUBSET Ids
    BY <1>3
  <2>3. QED BY <1>4, <2>1, <2>2 DEF FreshEvent, Fresh, Event
<1>6. e.base < e.id /\ (e.parents = {} => e.base = 0)
  <2>1. Revision(r) < Cardinality(made) + 1
    BY <1>1, <1>3
  <2> HIDE DEF e
  <2>2. QED BY <1>2, <1>3, <2>1
<1> HIDE DEF e
<1>7. MadeWell(made \union {e})
  BY <1>1, <1>2, <1>5, <1>6, OneMore
<1>8. QED BY <1>5, <1>7 DEF e

(* resolve: the resolution outranks every candidate, and counts as taken.     *)
LEMMA ResolutionIsOne ==
  ASSUME SyncInv, state.conflict = "open", Fresh <= MaxEvents, NEW c \in state.candidates
  PROVE  LET e == Resolution(state, c, Fresh)
             t == resolveSyncConflict(state, c, Fresh)
         IN  /\ e \in Event /\ MadeWell(made \union {e})
             /\ Accounts(t, made \union {e}) /\ Taken(state) \subseteq Taken(t)
             /\ t.record # NoRecord /\ t.record = e /\ t.pending = state.pending
             /\ Revision(state.record) <= e.base /\ e.op = "resolve"
             /\ e.parents = {f.id : f \in state.candidates}
<1> DEFINE e == Resolution(state, c, Fresh)
           t == resolveSyncConflict(state, c, Fresh)
           Revs == {Revision(f) : f \in state.candidates}
           k == Cardinality(made)
<1>1. /\ MadeWell(made) /\ Accounts(state, made) /\ k \in Nat /\ made \subseteq Event
      /\ state \in Record /\ state.candidates \subseteq made /\ state.record \in state.candidates
  BY FS_CardinalityType DEF SyncInv, Copies, MadeWell, Accounts
<1>2. \A f \in made : Revision(f) \in Nat /\ Revision(f) <= k /\ f.id \in Ids
  <2> TAKE f \in made
  <2>1. f \in Event /\ f.id <= k /\ f.base < f.id
    BY <1>1 DEF MadeWell
  <2>2. f.id \in Ids /\ f.id \in Nat /\ f.base \in Nat /\ Revision(f) = f.base + 1
    BY <2>1, RecordTypes, SyncAssumption DEF Event, Ids
  <2>3. QED BY <1>1, <2>1, <2>2
<1>3. PICK m \in Revs : \A n \in Revs : m >= n
  <2> DEFINE Gaps == {k - n : n \in Revs}
  <2>1. Gaps \in SUBSET Nat /\ Gaps # {}
    BY <1>1, <1>2
  <2>2. PICK g \in Gaps : \A h \in Gaps : g <= h
    <3> HIDE DEF Gaps
    <3> QED BY <2>1, LeastNumber
  <2>3. PICK n \in Revs : g = k - n
    BY <2>2
  <2>4. \A x \in Revs : x \in Nat /\ k - x \in Gaps
    BY <1>1, <1>2
  <2>5. ASSUME NEW x \in Revs PROVE n >= x
    <3>1. n \in Nat /\ x \in Nat /\ k \in Nat /\ k - x \in Gaps
      BY <2>4, <1>1
    <3>2. k - n <= k - x
      BY <3>1, <2>2, <2>3
    <3>3. QED BY <3>1, <3>2
  <2>6. QED BY <2>5
<1>4. /\ Max(Revs) \in Revs /\ Max(Revs) \in Nat /\ Max(Revs) <= k
      /\ Revision(state.record) <= Max(Revs)
  <2>1. Max(Revs) \in Revs /\ \A n \in Revs : Max(Revs) >= n
    <3> HIDE DEF Revs
    <3> QED BY <1>3 DEF Max
  <2>2. Revision(state.record) \in Revs /\ Revision(state.record) \in Nat
    BY <1>1, <1>2
  <2>3. Max(Revs) \in Nat /\ Max(Revs) <= k
    BY <2>1, <1>1, <1>2
  <2> HIDE DEF Revs
  <2>4. QED BY <2>1, <2>2, <2>3
<1>5. /\ e.id = k + 1 /\ e.base = Max(Revs) /\ e.payload = c.payload
      /\ e.parents = {f.id : f \in state.candidates} /\ e.op = "resolve"
  BY DEF Resolution, Fresh
<1>6. e \in Event
  <2>1. k + 1 \in Ids /\ Max(Revs) \in 0..MaxEvents
    BY <1>1, <1>4, SyncAssumption DEF Fresh, Ids
  <2>2. c.payload \in Versions /\ {f.id : f \in state.candidates} \in SUBSET Ids
    BY <1>1, <1>2 DEF Event
  <2> HIDE DEF Revs
  <2>3. QED BY <2>1, <2>2 DEF Resolution, Fresh, Event, Revs
<1>7. e.base < e.id /\ e.parents # {} /\ e \notin made
  <2>1. e.base < e.id /\ e.parents # {}
    BY <1>1, <1>4, <1>5
  <2>2. e \notin made
    BY <1>1, <1>5 DEF MadeWell
  <2>3. QED BY <2>1, <2>2
<1>8. MadeWell(made \union {e})
  <2> HIDE DEF e
  <2> QED BY <1>1, <1>5, <1>6, <1>7, OneMore
<1>9. /\ t.record = e /\ t.conflict = "resolved" /\ t.candidates = state.candidates
      /\ t.pending = state.pending /\ t.applied = state.applied \union {e.id} /\ t \in Record
  <2>1. e.id \in Ids
    BY <1>6 DEF Event
  <2> HIDE DEF e
  <2>2. t = [state EXCEPT !.record = e, !.conflict = "resolved", !.applied = @ \union {e.id}]
    BY <1>5 DEF resolveSyncConflict, Fresh, e
  <2> HIDE DEF t
  <2>3. QED BY <2>1, <2>2, <1>1, <1>6 DEF Record
<1> HIDE DEF e, t
<1>10. Traced(t, made \union {e})
  <2> SUFFICES ASSUME NEW S \in SUBSET Ids,
                      ({t.record} \union t.candidates) \ {NoRecord}
                         \subseteq {f \in made \union {e} : f.id \in S},
                      \A f \in made \union {e} : f.id \in S => f.parents \subseteq S
               PROVE  t.applied \subseteq S
    BY DEF Traced
  <2>1. e # NoRecord /\ e.id \in S
    BY <1>6, <1>9, RecordTypes
  <2>2. ({state.record} \union state.candidates) \ {NoRecord} \subseteq {f \in made : f.id \in S}
    BY <1>1, <1>9
  <2>3. state.applied \subseteq S
    BY <2>2, <1>1 DEF Accounts, Traced
  <2>4. QED BY <2>1, <2>3, <1>9
<1>11. Accounts(t, made \union {e}) /\ t.record # NoRecord
  <2>1. e # NoRecord
    BY <1>6, RecordTypes
  <2>2. QED BY <2>1, <1>1, <1>9, <1>10 DEF Accounts
<1>12. Taken(state) \subseteq Taken(t)
  BY <1>9 DEF Taken
<1>13. Revision(state.record) <= e.base
  BY <1>4, <1>5
<1>14. QED BY <1>5, <1>6, <1>8, <1>9, <1>11, <1>12, <1>13 DEF e, t
-----------------------------------------------------------------------------
(* A finite set of numbers has an i-th one.                                   *)
LEMMA NthExists ==
  ASSUME NEW G \in SUBSET Nat, IsFiniteSet(G), NEW i \in 1 .. Cardinality(G)
  PROVE  \E j \in G : Cardinality({k \in G : k <= j}) = i
<1> DEFINE N == Cardinality(G)
           rank == [j \in G |-> Cardinality({k \in G : k <= j})]
<1>1. N \in Nat
  BY FS_CardinalityType
<1>2. \A j \in G : /\ IsFiniteSet({k \in G : k <= j})
                   /\ Cardinality({k \in G : k <= j}) \in 1..N
  <2> TAKE j \in G
  <2>1. IsFiniteSet({k \in G : k <= j}) /\ Cardinality({k \in G : k <= j}) <= N
    <3>1. {k \in G : k <= j} \in SUBSET G
      OBVIOUS
    <3>2. QED BY <3>1, FS_Subset
  <2>2. Cardinality({k \in G : k <= j}) \in Nat
    BY <2>1, FS_CardinalityType
  <2>3. Cardinality({k \in G : k <= j}) # 0
    <3>1. j \in {k \in G : k <= j}
      OBVIOUS
    <3>2. QED BY <3>1, <2>1, FS_EmptySet
  <2>4. QED BY <1>1, <2>1, <2>2, <2>3
<1>3. rank \in [G -> 1..N]
  BY <1>2
<1>4. ASSUME NEW j \in G, NEW l \in G, j < l PROVE rank[j] # rank[l]
  <2>1. {k \in G : k <= j} \in SUBSET {k \in G : k <= l}
    <3>1. \A k \in G : k \in Nat /\ (k <= j => k <= l)
      BY <1>4
    <3>2. QED BY <3>1
  <2>2. l \in {k \in G : k <= l} /\ l \notin {k \in G : k <= j}
    BY <1>4
  <2>3. Cardinality({k \in G : k <= j}) # Cardinality({k \in G : k <= l})
    BY <2>1, <2>2, <1>2, FS_Subset
  <2>4. QED BY <2>3
<1>5. \A j, l \in G : rank[j] = rank[l] => j = l
  <2> HIDE DEF rank
  <2> QED BY <1>4
<1>6. rank \in Surjection(G, 1..N)
  <2>1. rank \in Injection(G, 1..N)
    <3> HIDE DEF rank
    <3> QED BY <1>3, <1>5 DEF Injection, IsInjective
  <2>2. IsFiniteSet(1..N) /\ Cardinality(1..N) = N
    BY <1>1, FS_Interval
  <2>3. QED BY <2>1, <2>2, FS_Injection
<1>7. PICK j \in G : rank[j] = i
  BY <1>6 DEF Surjection
<1>8. QED BY <1>7

(* The events that push still has to send are events of the outbox.           *)
LEMMA PendingIsOne ==
  ASSUME NEW M, NEW d \in Devices, outbox'[d] \in Seq(M)
  PROVE  Pending(d) \in Seq(M)
<1> DEFINE Open == {i \in DOMAIN outbox'[d] : outbox'[d][i].id \notin acks[d]}
           Nth(i) == CHOOSE j \in Open : Cardinality({k \in Open : k <= j}) = i
<1>1. Open \in SUBSET Nat /\ IsFiniteSet(Open) /\ Open \subseteq DOMAIN outbox'[d]
  <2>1. PICK n \in Nat : DOMAIN outbox'[d] = 1..n
    OBVIOUS
  <2>2. IsFiniteSet(1..n)
    BY FS_Interval
  <2>3. Open \in SUBSET (1..n)
    BY <2>1
  <2>4. IsFiniteSet(Open)
    BY <2>2, <2>3, FS_Subset
  <2>5. QED BY <2>1, <2>3, <2>4
<1>2. Cardinality(Open) \in Nat
  BY <1>1, FS_CardinalityType
<1>3. ASSUME NEW i \in 1 .. Cardinality(Open) PROVE outbox'[d][Nth(i)] \in M
  <2>1. \E j \in Open : Cardinality({k \in Open : k <= j}) = i
    <3> HIDE DEF Open
    <3> QED BY <1>1, NthExists
  <2>2. Nth(i) \in Open
    <3> HIDE DEF Open
    <3> QED BY <2>1
  <2>3. PICK j \in DOMAIN outbox'[d] : j = Nth(i)
    BY <2>2, <1>1
  <2>4. outbox'[d][j] \in M
    OBVIOUS
  <2>5. QED BY <2>3, <2>4
<1>4. [i \in 1 .. Cardinality(Open) |-> outbox'[d][Nth(i)]] \in Seq(M)
  <2> HIDE DEF Open, Nth
  <2> QED BY <1>2, <1>3
<1>5. QED BY <1>4 DEF Pending
-----------------------------------------------------------------------------
(* A project that no device has synced yet.                                   *)
LEMMA InitHolds == Init => SyncInv
<1> SUFFICES ASSUME Init PROVE SyncInv
  OBVIOUS
<1>1. MadeWell(made)
  BY FS_EmptySet DEF Init, MadeWell, Rooted
<1>2. Copies
  BY <1>1, EmptyAccounts DEF Init, Copies
<1>3. Files
  <2>1. 1 \in Versions /\ Empty \in Record /\ <<>> \in Seq({}) /\ <<>> \in Seq(Ids)
    BY EmptyAccounts, SyncAssumption DEF Versions
  <2>2. vault \in [Devices -> Versions] /\ portable \in [Devices -> 0..MaxEdits]
    BY <2>1, SyncAssumption DEF Init
  <2>3. /\ outbox \in [Devices -> Seq(made)] /\ acks \in [Devices -> SUBSET Ids]
        /\ todo \in [Devices -> Seq(made)]
    BY <2>1 DEF Init
  <2>4. local \in [Devices -> Record] /\ next \in [Devices -> Record]
    BY <2>1 DEF Init
  <2>5. /\ log \in Seq(Ids) /\ torn \in BOOLEAN /\ lock \in Devices \union {NoDevice}
        /\ pc \in [Devices -> Steps] /\ edits \in 1..MaxEdits /\ crashes \in Nat
    BY <2>1, SyncAssumption DEF Init, Steps, Versions
  <2>6. QED BY <2>2, <2>3, <2>4, <2>5 DEF Files
<1>4. Locked /\ AckedIsStored /\ \A d \in Devices : Knows(d)
  BY DEF Init, Locked, AckedIsStored, Knows, Inside
<1>5. QED BY <1>2, <1>3, <1>4 DEF SyncInv

(* A step of a device that leaves the backend's state alone.                   *)
LEMMA DeviceStep ==
  ASSUME SyncInv, NEW d \in Devices, Files', Copies', state' = state,
         NEW l \in Steps, pc' = [pc EXCEPT ![d] = l],
         \A e \in Devices : e # d => todo'[e] = todo[e] /\ next'[e] = next[e],
         lock' = lock \/ (lock = NoDevice /\ lock' = d)
            \/ (lock = d /\ lock' = NoDevice),
         l \in Inside => lock' = d,
         Knows(d)', AckedIsStored'
  PROVE  SyncInv'
<1>0. \A e \in Devices : e # d => pc'[e] = pc[e]
  BY DEF SyncInv, Files
<1>1. Locked'
  <2> SUFFICES ASSUME NEW e \in Devices, pc'[e] \in Inside PROVE lock' = e
    BY DEF Locked
  <2>1. CASE e = d
    BY <2>1 DEF SyncInv, Files
  <2>2. CASE e # d
    <3>1. lock = e
      BY <1>0, <2>2 DEF SyncInv, Locked
    <3>2. QED BY <3>1, <2>2, SyncAssumption
  <2>3. QED BY <2>1, <2>2
<1>2. ASSUME NEW e \in Devices PROVE Knows(e)'
  <2>1. CASE e = d
    BY <2>1
  <2>2. CASE e # d
    BY <1>0, <2>2 DEF SyncInv, Knows, Taken
  <2>3. QED BY <2>1, <2>2
<1>3. QED BY <1>1, <1>2 DEF SyncInv

(* Nothing of the backend, the copies or the events changes.                  *)
LEMMA StillCopies ==
  ASSUME SyncInv, UNCHANGED <<state, made>>,
         \A d \in Devices : /\ local'[d] = local[d] \/ local'[d] = state
                            /\ next'[d] = next[d] \/ next'[d] = Empty
  PROVE  Copies'
BY EmptyAccounts DEF SyncInv, Copies

(* The author's edits, the export and the import change files of the device.  *)
LEMMA AuthorKeeps ==
  ASSUME SyncInv, NEW d \in Devices, Edit(d) \/ Export(d) \/ Import(d)
  PROVE  SyncInv'
<1>1. UNCHANGED <<outbox, acks, local, state, log, torn, lock, todo, next, made, crashes>>
  BY DEF Edit, Export, Import, backend, bounds
<1>2. Copies'
  BY <1>1, StillCopies
<1>3. vault' \in [Devices -> Versions] /\ edits' \in 1..MaxEdits
  <2>1. CASE Edit(d)
    <3>1. edits + 1 \in 1..MaxEdits
      BY <2>1, SyncAssumption DEF Edit, SyncInv, Files
    <3>2. QED BY <2>1, <3>1 DEF Edit, SyncInv, Files, Versions
  <2>2. CASE Export(d)
    BY <2>2 DEF Export, SyncInv, Files, bounds
  <2>3. CASE Import(d)
    <3>1. local[d].record = NoRecord \/ local[d].record \in Event
      BY DEF SyncInv, Files, Record
    <3>2. QED BY <2>3, <3>1 DEF Import, SyncInv, Files, bounds, Event
  <2>4. QED BY <2>1, <2>2, <2>3
<1>4. portable' \in [Devices -> 0..MaxEdits]
  <2>1. vault[d] \in 0..MaxEdits /\ portable \in [Devices -> 0..MaxEdits]
    BY SyncAssumption DEF SyncInv, Files, Versions
  <2>2. portable' = portable \/ portable' = [portable EXCEPT ![d] = vault[d]]
    BY DEF Edit, Export, Import
  <2>3. QED BY <2>1, <2>2
<1>5. PICK l \in Steps : pc' = [pc EXCEPT ![d] = l] /\ (l = pc[d] \/ l = "idle")
                         /\ (l # pc[d] => pc[d] = "import")
  <2>1. pc \in [Devices -> Steps] /\ "idle" \in Steps
    BY DEF SyncInv, Files, Steps
  <2>2. CASE pc' = pc
    <3>1. pc' = [pc EXCEPT ![d] = pc[d]] /\ pc[d] \in Steps
      BY <2>1, <2>2
    <3>2. QED BY <3>1
  <2>3. CASE Import(d)
    BY <2>1, <2>3 DEF Import
  <2>4. QED BY <2>2, <2>3 DEF Edit, Export
<1>6. pc' \in [Devices -> Steps] /\ Files'
  <2>1. pc' \in [Devices -> Steps]
    BY <1>5 DEF SyncInv, Files
  <2>2. QED BY <1>1, <1>3, <1>4, <2>1 DEF SyncInv, Files
<1>7. \A e \in Devices : Knows(e)'
  <2> TAKE e \in Devices
  <2>1. pc'[e] = pc[e] \/ (pc[e] = "import" /\ pc'[e] = "idle")
    BY <1>5, <1>6 DEF SyncInv, Files
  <2>2. Knows(e)
    BY DEF SyncInv
  <2>3. QED BY <1>1, <2>1, <2>2 DEF Knows
<1>8. Locked' /\ AckedIsStored'
  BY <1>1, <1>5 DEF SyncInv, Files, Locked, AckedIsStored, Inside
<1>9. QED BY <1>2, <1>6, <1>7, <1>8 DEF SyncInv

(* pull copies a state that accounts for its events.                          *)
LEMMA PullKeeps ==
  ASSUME SyncInv, NEW d \in Devices, Pull(d) \/ PullAtEnd(d)
  PROVE  SyncInv'
<1>1. /\ UNCHANGED <<vault, portable, outbox, acks, state, log, torn, lock, todo, next, made>>
      /\ UNCHANGED <<edits, crashes>>
      /\ local' = [local EXCEPT ![d] = state] /\ todo[d] = <<>>
  BY DEF Pull, PullAtEnd, Reads, backend, bounds, SyncInv, Knows
<1>2. PICK l \in {"import", "idle"} : pc' = [pc EXCEPT ![d] = l]
  BY DEF Pull, PullAtEnd
<1>3. Copies'
  BY <1>1, StillCopies DEF SyncInv, Files
<1>4. Files'
  <2>1. state \in Record
    BY DEF SyncInv, Copies, Accounts
  <2>2. QED BY <1>1, <1>2, <2>1 DEF SyncInv, Files, Steps
<1>5. Knows(d)' /\ AckedIsStored'
  BY <1>1, <1>2 DEF SyncInv, Files, Knows, AckedIsStored
<1>6. QED
  <2>1. l \in Steps /\ l \notin Inside
    BY <1>2 DEF Steps, Inside
  <2>2. QED BY <1>1, <1>2, <1>3, <1>4, <1>5, <2>1, DeviceStep

(* push adds a fresh event to the outbox and sends what is not acknowledged.  *)
LEMMA PushKeeps ==
  ASSUME SyncInv, NEW d \in Devices, Push(d)
  PROVE  SyncInv'
<1>1. /\ UNCHANGED <<vault, portable, acks, local, state, log, torn, lock, next, edits, crashes>>
      /\ pc[d] = "idle" /\ pc' = [pc EXCEPT ![d] = "send"]
      /\ todo' = [todo EXCEPT ![d] = Pending(d)]
  BY DEF Push, backend
<1>2. /\ made \subseteq made' /\ MadeWell(made') /\ outbox' \in [Devices -> Seq(made')]
  <2>1. CASE Desired(d)
    <3>1. PICK e : e = FreshEvent(d)
      OBVIOUS
    <3>2. outbox' = [outbox EXCEPT ![d] = Append(@, e)] /\ made' = made \union {e}
      BY <2>1, <3>1 DEF Push
    <3>3. MadeWell(made \union {e})
      BY <2>1, <3>1, FreshEventIsOne DEF Push
    <3>4. \A x \in Devices : outbox[x] \in Seq(made \union {e})
      BY SequenceGrows DEF SyncInv, Files
    <3>5. QED BY <3>2, <3>3, <3>4 DEF SyncInv, Files
  <2>2. CASE ~Desired(d)
    BY <2>2 DEF Push, SyncInv, Files, Copies
  <2>3. QED BY <2>1, <2>2
<1>3. Copies'
  BY <1>1, <1>2, AccountsGrow DEF SyncInv, Copies
<1>4. Pending(d) \in Seq(made')
  BY <1>2, PendingIsOne
<1>5. Files'
  <2>1. \A x \in Devices : todo[x] \in Seq(made')
    BY <1>2, SequenceGrows DEF SyncInv, Files
  <2>2. QED BY <1>1, <1>2, <1>4, <2>1 DEF SyncInv, Files, Steps
<1>6. ASSUME NEW e \in Devices PROVE Knows(e)'
  BY <1>1 DEF SyncInv, Files, Knows
<1>7. Locked' /\ AckedIsStored'
  BY <1>1 DEF SyncInv, Files, Locked, Inside, AckedIsStored
<1>8. QED BY <1>3, <1>5, <1>6, <1>7 DEF SyncInv

(* The adapter computes the state with the event under the lock.              *)
LEMMA TakeKeeps ==
  ASSUME SyncInv, NEW d \in Devices, Take(d)
  PROVE  SyncInv'
<1>1. /\ UNCHANGED <<vault, portable, outbox, acks, local, state, log, torn, todo, made>>
      /\ UNCHANGED <<edits, crashes>> /\ pc[d] = "send" /\ todo[d] # <<>>
      /\ lock = NoDevice /\ lock' = d /\ pc' = [pc EXCEPT ![d] = "append"]
  BY DEF Take, device, bounds
<1>2. PICK e : e = Head(todo[d])
  OBVIOUS
<1>3. PICK t : t = applySyncEvent(state, e)
  OBVIOUS
<1>4. next' = [next EXCEPT ![d] = t]
  BY <1>2, <1>3 DEF Take
<1>5. e \in made
  BY <1>1, <1>2 DEF SyncInv, Files
<1>6. Accounts(t, made) /\ Taken(t) = Taken(state) \union {e.id}
  BY <1>3, <1>5, ApplyAccounts DEF SyncInv, Copies, MadeWell
<1>7. Copies'
  <2>1. \A x \in Devices : Accounts(next'[x], made)
    BY <1>4, <1>6 DEF SyncInv, Copies, Files
  <2>2. QED BY <1>1, <2>1 DEF SyncInv, Copies
<1>8. Files'
  <2>1. next' \in [Devices -> Record]
    BY <1>4, <1>6 DEF SyncInv, Files, Accounts
  <2>2. pc' \in [Devices -> Steps]
    BY <1>1 DEF SyncInv, Files, Steps
  <2>3. QED BY <1>1, <2>1, <2>2 DEF SyncInv, Files
<1>9. Knows(d)'
  <2>1. pc'[d] = "append" /\ next'[d] = t /\ todo'[d] = todo[d] /\ state' = state
    BY <1>1, <1>4 DEF SyncInv, Files
  <2>2. QED BY <1>1, <1>2, <1>6, <2>1 DEF Knows
<1>10. AckedIsStored'
  BY <1>1 DEF SyncInv, AckedIsStored
<1>11. QED
  <2>1. "append" \in Steps
    BY DEF Steps
  <2>2. \A x \in Devices : x # d => todo'[x] = todo[x] /\ next'[x] = next[x]
    BY <1>1, <1>4 DEF SyncInv, Files
  <2>3. QED BY <1>1, <1>7, <1>8, <1>9, <1>10, <2>1, <2>2, DeviceStep

(* The event, or the resolution, is appended to the ledger.                   *)
LEMMA ListKeeps ==
  ASSUME SyncInv, NEW d \in Devices, List(d) \/ RecordResolution(d)
  PROVE  SyncInv'
<1>1. /\ UNCHANGED <<vault, portable, outbox, acks, local, state, torn, lock, todo, next>>
      /\ UNCHANGED <<made, edits, crashes>> /\ pc[d] \in {"append", "record"}
      /\ pc' = [pc EXCEPT ![d] = "save"]
  BY DEF List, RecordResolution, device, bounds
<1>2. Copies'
  BY <1>1, StillCopies
<1>3. log' \in Seq(Ids)
  <2>1. CASE List(d)
    <3>1. Head(todo[d]) \in made
      BY <2>1 DEF List, SyncInv, Files, Knows
    <3>2. Head(todo[d]).id \in Ids
      BY <3>1 DEF SyncInv, Copies, MadeWell, Event
    <3>3. QED BY <2>1, <3>2 DEF List, SyncInv, Files
  <2>2. CASE RecordResolution(d)
    <3>1. next[d].record \in Event
      BY <2>2 DEF RecordResolution, SyncInv, Files, Knows, Record
    <3>2. next[d].record.id \in Ids
      BY <3>1 DEF Event
    <3>3. QED BY <2>2, <3>2 DEF RecordResolution, SyncInv, Files
  <2>3. QED BY <2>1, <2>2
<1>4. Files'
  <2>1. pc' \in [Devices -> Steps]
    BY <1>1 DEF SyncInv, Files, Steps
  <2>2. QED BY <1>1, <1>3, <2>1 DEF SyncInv, Files
<1>5. Knows(d)'
  <2>1. pc'[d] = "save"
    BY <1>1 DEF SyncInv, Files
  <2>2. Knows(d)
    BY DEF SyncInv
  <2>3. QED BY <1>1, <2>1, <2>2 DEF Knows, Taken
<1>6. AckedIsStored'
  BY <1>1 DEF SyncInv, AckedIsStored
<1>7. QED
  <2>1. "save" \in Steps /\ lock = d
    BY <1>1 DEF Steps, Inside, SyncInv, Locked
  <2>2. QED BY <1>1, <1>2, <1>4, <1>5, <1>6, <2>1, DeviceStep

(* The state is replaced by one that has taken everything the old one had:    *)
(* no other device can have changed it since, as this one holds the lock.     *)
LEMMA SaveKeeps ==
  ASSUME SyncInv, NEW d \in Devices, Save(d)
  PROVE  SyncInv' /\ Taken(state) \subseteq Taken(state')
<1>1. /\ UNCHANGED <<vault, portable, outbox, acks, local, log, torn, lock, todo, next>>
      /\ UNCHANGED <<made, edits, crashes>> /\ pc[d] = "save" /\ state' = next[d]
      /\ pc' = [pc EXCEPT ![d] = "unlock"]
  BY DEF Save, device, bounds
<1>2. Taken(state) \subseteq Taken(state')
  BY <1>1 DEF SyncInv, Knows
<1>3. Copies'
  BY <1>1 DEF SyncInv, Copies
<1>4. Files'
  <2>1. pc' \in [Devices -> Steps]
    BY <1>1 DEF SyncInv, Files, Steps
  <2>2. QED BY <1>1, <2>1 DEF SyncInv, Files
<1>5. ASSUME NEW e \in Devices PROVE Knows(e)'
  <2>1. Knows(e) /\ lock = d
    BY <1>1 DEF SyncInv, Locked, Inside
  <2>2. CASE e = d
    <3>1. pc'[e] = "unlock"
      BY <1>1, <2>2 DEF SyncInv, Files
    <3>2. QED BY <1>1, <2>1, <2>2, <3>1 DEF Knows
  <2>3. CASE e # d
    <3>1. pc'[e] = pc[e] /\ pc[e] \notin Inside
      BY <1>1, <2>1, <2>3 DEF SyncInv, Files, Locked
    <3>2. QED BY <1>1, <1>2, <2>1, <3>1 DEF Knows, Inside
  <2>4. QED BY <2>2, <2>3
<1>6. Locked'
  <2> SUFFICES ASSUME NEW e \in Devices, pc'[e] \in Inside PROVE lock' = e
    BY DEF Locked
  <2>1. pc[e] \in Inside
    BY <1>1 DEF SyncInv, Files, Inside
  <2>2. QED BY <1>1, <2>1 DEF SyncInv, Locked
<1>7. AckedIsStored'
  <2>1. \A e \in Devices : acks[e] \subseteq Taken(state)
    BY DEF SyncInv, AckedIsStored, Taken
  <2>2. \A e \in Devices : acks'[e] \subseteq Taken(state')
    BY <1>1, <1>2, <2>1
  <2>3. QED BY <2>2 DEF AckedIsStored, Taken
<1>8. QED BY <1>2, <1>3, <1>4, <1>5, <1>6, <1>7 DEF SyncInv

(* The lock is released by the device that holds it.                          *)
LEMMA UnlockKeeps ==
  ASSUME SyncInv, NEW d \in Devices, Unlock(d)
  PROVE  SyncInv'
<1>1. /\ UNCHANGED <<vault, portable, outbox, acks, local, state, log, torn, todo, made>>
      /\ UNCHANGED <<edits, crashes>> /\ pc[d] = "unlock" /\ lock' = NoDevice
      /\ next' = [next EXCEPT ![d] = Empty]
  BY DEF Unlock, device, bounds
<1>2. PICK l \in {"send", "ack"} : pc' = [pc EXCEPT ![d] = l] /\ (l = "ack" <=> todo[d] # <<>>)
  BY DEF Unlock
<1>3. Copies'
  BY <1>1, StillCopies DEF SyncInv, Files
<1>4. Files'
  <2>1. pc' \in [Devices -> Steps]
    BY <1>2 DEF SyncInv, Files, Steps
  <2>2. next' \in [Devices -> Record]
    BY <1>1, EmptyAccounts DEF SyncInv, Files
  <2>3. QED BY <1>1, <2>1, <2>2 DEF SyncInv, Files
<1>5. Knows(d)'
  <2>1. pc'[d] = l
    BY <1>2 DEF SyncInv, Files
  <2>2. Knows(d)
    BY DEF SyncInv
  <2>3. QED BY <1>1, <1>2, <2>1, <2>2 DEF Knows, Taken
<1>6. AckedIsStored'
  BY <1>1 DEF SyncInv, AckedIsStored
<1>7. QED
  <2>1. l \in Steps /\ l \notin Inside /\ lock = d
    BY <1>1, <1>2 DEF Steps, Inside, SyncInv, Locked
  <2>2. \A x \in Devices : x # d => todo'[x] = todo[x] /\ next'[x] = next[x]
    BY <1>1 DEF SyncInv, Files
  <2>3. QED BY <1>1, <1>2, <1>3, <1>4, <1>5, <1>6, <2>1, <2>2, DeviceStep

(* What is acknowledged is in the backend's state by then.                    *)
LEMMA AcknowledgeKeeps ==
  ASSUME SyncInv, NEW d \in Devices, Acknowledge(d)
  PROVE  SyncInv'
<1>1. /\ UNCHANGED <<vault, portable, outbox, local, state, log, torn, lock, next, made>>
      /\ UNCHANGED <<edits, crashes>> /\ pc[d] = "ack"
      /\ acks' = [acks EXCEPT ![d] = @ \union {Head(todo[d]).id}]
      /\ todo' = [todo EXCEPT ![d] = Tail(@)] /\ pc' = [pc EXCEPT ![d] = "send"]
  BY DEF Acknowledge, backend, bounds
<1>2. /\ todo[d] # <<>> /\ todo[d] \in Seq(made) /\ Head(todo[d]) \in made
      /\ Tail(todo[d]) \in Seq(made)
  BY <1>1 DEF SyncInv, Files, Knows
<1>3. PICK i : i = Head(todo[d]).id
  OBVIOUS
<1>4. i \in Taken(state) /\ i \in Ids
  <2>1. i \in Taken(state)
    BY <1>1, <1>2, <1>3 DEF SyncInv, Knows
  <2>2. i \in Ids
    BY <1>2, <1>3 DEF SyncInv, Copies, MadeWell, Event
  <2>3. QED BY <2>1, <2>2
<1>5. Copies'
  BY <1>1, StillCopies
<1>6. Files'
  <2>1. pc' \in [Devices -> Steps] /\ todo' \in [Devices -> Seq(made)]
    BY <1>1, <1>2 DEF SyncInv, Files, Steps
  <2>2. acks' \in [Devices -> SUBSET Ids]
    BY <1>1, <1>3, <1>4 DEF SyncInv, Files
  <2>3. QED BY <1>1, <2>1, <2>2 DEF SyncInv, Files
<1>7. Knows(d)'
  <2>1. pc'[d] = "send"
    BY <1>1 DEF SyncInv, Files
  <2>2. QED BY <2>1 DEF Knows
<1>8. AckedIsStored'
  <2>1. \A e \in Devices : acks[e] \subseteq Taken(state)
    BY DEF SyncInv, AckedIsStored, Taken
  <2>2. \A e \in Devices : acks'[e] \subseteq Taken(state)
    BY <1>1, <1>3, <1>4, <2>1 DEF SyncInv, Files
  <2>3. QED BY <1>1, <2>2 DEF AckedIsStored, Taken
<1>9. QED
  <2>1. "send" \in Steps /\ "send" \notin Inside
    BY DEF Steps, Inside
  <2>2. \A x \in Devices : x # d => todo'[x] = todo[x] /\ next'[x] = next[x]
    BY <1>1 DEF SyncInv, Files
  <2>3. QED BY <1>1, <1>5, <1>6, <1>7, <1>8, <2>1, <2>2, DeviceStep

(* resolve computes a state that has taken the resolution and all before it.  *)
LEMMA ResolveKeeps ==
  ASSUME SyncInv, NEW d \in Devices, Resolve(d)
  PROVE  SyncInv'
<1>1. /\ UNCHANGED <<vault, portable, outbox, acks, local, state, log, torn, todo>>
      /\ UNCHANGED <<edits, crashes>> /\ pc[d] = "idle" /\ lock = NoDevice /\ lock' = d
      /\ pc' = [pc EXCEPT ![d] = "record"] /\ state.conflict = "open" /\ Fresh <= MaxEvents
  BY DEF Resolve, device
<1>2. PICK c \in state.candidates :
         /\ next' = [next EXCEPT ![d] = resolveSyncConflict(state, c, Fresh)]
         /\ made' = made \union {Resolution(state, c, Fresh)}
  BY DEF Resolve
<1>3. PICK e, t : e = Resolution(state, c, Fresh) /\ t = resolveSyncConflict(state, c, Fresh)
  OBVIOUS
<1>4. /\ e \in Event /\ MadeWell(made \union {e}) /\ Accounts(t, made \union {e})
      /\ Taken(state) \subseteq Taken(t) /\ t.record # NoRecord
  BY <1>1, <1>3, ResolutionIsOne
<1>5. next' = [next EXCEPT ![d] = t] /\ made' = made \union {e}
  BY <1>2, <1>3
<1>6. Copies'
  <2>1. \A x \in Devices : /\ Accounts(local[x], made \union {e})
                           /\ Accounts(next[x], made \union {e})
    BY AccountsGrow DEF SyncInv, Copies
  <2>2. Accounts(state, made \union {e})
    BY AccountsGrow DEF SyncInv, Copies
  <2>3. \A x \in Devices : Accounts(next'[x], made \union {e})
    BY <1>4, <1>5, <2>1 DEF SyncInv, Files
  <2>4. QED BY <1>1, <1>4, <1>5, <2>1, <2>2, <2>3 DEF Copies
<1>7. Files'
  <2>1. pc' \in [Devices -> Steps]
    BY <1>1 DEF SyncInv, Files, Steps
  <2>2. next' \in [Devices -> Record]
    BY <1>4, <1>5 DEF SyncInv, Files, Accounts
  <2>3. outbox \in [Devices -> Seq(made')] /\ todo \in [Devices -> Seq(made')]
    <3>1. \A x \in Devices : outbox[x] \in Seq(made') /\ todo[x] \in Seq(made')
      BY <1>5, SequenceGrows DEF SyncInv, Files
    <3>2. QED BY <3>1 DEF SyncInv, Files
  <2>4. QED BY <1>1, <2>1, <2>2, <2>3 DEF SyncInv, Files
<1>8. Knows(d)'
  <2>1. pc'[d] = "record" /\ next'[d] = t
    BY <1>1, <1>5 DEF SyncInv, Files
  <2>2. todo[d] = <<>>
    BY <1>1 DEF SyncInv, Knows
  <2>3. QED BY <1>1, <1>4, <2>1, <2>2 DEF Knows
<1>9. AckedIsStored'
  BY <1>1 DEF SyncInv, AckedIsStored
<1>10. QED
  <2>1. "record" \in Steps
    BY DEF Steps
  <2>2. \A x \in Devices : x # d => todo'[x] = todo[x] /\ next'[x] = next[x]
    BY <1>1, <1>5 DEF SyncInv, Files
  <2>3. QED BY <1>1, <1>6, <1>7, <1>8, <1>9, <2>1, <2>2, DeviceStep

(* A command that ends with an error, or dies, forgets what it was doing.     *)
LEMMA StopKeeps ==
  ASSUME SyncInv, NEW d \in Devices, Fail(d) \/ Die(d)
  PROVE  SyncInv'
<1>1. /\ UNCHANGED <<vault, portable, outbox, acks, local, state, lock, made, edits>>
      /\ pc' = [pc EXCEPT ![d] = "idle"] /\ todo' = [todo EXCEPT ![d] = <<>>]
      /\ next' = [next EXCEPT ![d] = Empty]
  BY DEF Fail, Die, Stop, device, backend, bounds
<1>2. log' \in Seq(Ids) /\ torn' \in BOOLEAN /\ crashes' \in Nat
  <2>1. CASE Fail(d)
    BY <2>1 DEF Fail, backend, bounds, SyncInv, Files
  <2>2. CASE Die(d)
    <3>1. crashes' \in Nat
      BY <2>2 DEF Die, SyncInv, Files
    <3>2. \/ log' = log /\ torn' = torn
          \/ \E n \in 0..Len(log), t \in BOOLEAN :
                log' = SubSeq(log, 1, n) /\ torn' = (torn \/ t)
      BY <2>2 DEF Die, Cut
    <3>3. torn' \in BOOLEAN
      BY <3>2 DEF SyncInv, Files
    <3>4. ASSUME NEW n \in 0..Len(log) PROVE SubSeq(log, 1, n) \in Seq(Ids)
      BY DEF SyncInv, Files
    <3>5. QED BY <3>1, <3>2, <3>3, <3>4 DEF SyncInv, Files
  <2>3. QED BY <2>1, <2>2
<1>3. Copies'
  BY <1>1, StillCopies DEF SyncInv, Files
<1>4. Files'
  <2>1. pc' \in [Devices -> Steps] /\ next' \in [Devices -> Record]
    BY <1>1, EmptyAccounts DEF SyncInv, Files, Steps
  <2>2. todo' \in [Devices -> Seq(made)]
    <3>1. <<>> \in Seq(made)
      OBVIOUS
    <3>2. QED BY <1>1, <3>1 DEF SyncInv, Files
  <2>3. QED BY <1>1, <1>2, <2>1, <2>2 DEF SyncInv, Files
<1>5. Knows(d)'
  <2>1. pc'[d] = "idle" /\ todo'[d] = <<>>
    BY <1>1 DEF SyncInv, Files
  <2>2. QED BY <2>1 DEF Knows
<1>6. AckedIsStored'
  BY <1>1 DEF SyncInv, AckedIsStored
<1>7. QED
  <2>1. "idle" \in Steps /\ "idle" \notin Inside
    BY DEF Steps, Inside
  <2>2. \A x \in Devices : x # d => todo'[x] = todo[x] /\ next'[x] = next[x]
    BY <1>1 DEF SyncInv, Files
  <2>3. QED BY <1>1, <1>3, <1>4, <1>5, <1>6, <2>1, <2>2, DeviceStep

(* Only the lock of a device that is not inside is reaped.                    *)
LEMMA ReapKeeps ==
  ASSUME SyncInv, NEW d \in Devices, Reap(d)
  PROVE  SyncInv'
<1>1. /\ UNCHANGED <<vault, portable, outbox, acks, local, state, log, torn, pc, todo, next>>
      /\ UNCHANGED <<made, edits, crashes>> /\ lock' = NoDevice /\ lock # NoDevice
      /\ pc[lock] \notin Inside
  BY DEF Reap, device, bounds, Inside
<1>2. Copies'
  BY <1>1, StillCopies
<1>3. Files'
  BY <1>1 DEF SyncInv, Files
<1>4. Locked'
  BY <1>1 DEF SyncInv, Locked
<1>5. ASSUME NEW e \in Devices PROVE Knows(e)'
  BY <1>1 DEF SyncInv, Knows, Taken
<1>6. AckedIsStored'
  BY <1>1 DEF SyncInv, AckedIsStored
<1>7. QED BY <1>2, <1>3, <1>4, <1>5, <1>6 DEF SyncInv

(* Every step keeps the invariant, and no step forgets a taken event.         *)
LEMMA NextKeeps ==
  ASSUME SyncInv, [Next]_vars
  PROVE  SyncInv' /\ Taken(state) \subseteq Taken(state')
<1>1. ASSUME NEW d \in Devices, Save(d) PROVE SyncInv' /\ Taken(state) \subseteq Taken(state')
  BY <1>1, SaveKeeps
<1>2. ASSUME NEW d \in Devices, Edit(d) \/ Export(d) \/ Import(d)
      PROVE  SyncInv' /\ state' = state
  BY <1>2, AuthorKeeps DEF Edit, Export, Import, backend
<1>3. ASSUME NEW d \in Devices, Pull(d) \/ PullAtEnd(d) PROVE SyncInv' /\ state' = state
  BY <1>3, PullKeeps DEF Pull, PullAtEnd, backend
<1>4. ASSUME NEW d \in Devices, Push(d) \/ Take(d) PROVE SyncInv' /\ state' = state
  BY <1>4, PushKeeps, TakeKeeps DEF Push, Take, backend
<1>5. ASSUME NEW d \in Devices, List(d) \/ RecordResolution(d)
      PROVE  SyncInv' /\ state' = state
  BY <1>5, ListKeeps DEF List, RecordResolution
<1>6. ASSUME NEW d \in Devices, Unlock(d) \/ Acknowledge(d)
      PROVE  SyncInv' /\ state' = state
  BY <1>6, UnlockKeeps, AcknowledgeKeeps DEF Unlock, Acknowledge, backend
<1>7. ASSUME NEW d \in Devices, Resolve(d) \/ Reap(d) PROVE SyncInv' /\ state' = state
  BY <1>7, ResolveKeeps, ReapKeeps DEF Resolve, Reap
<1>8. ASSUME NEW d \in Devices, Fail(d) \/ Die(d) PROVE SyncInv' /\ state' = state
  BY <1>8, StopKeeps DEF Fail, Die, backend
<1>9. CASE UNCHANGED vars
  BY <1>9 DEF vars, SyncInv, Files, Copies, Locked, Knows, AckedIsStored, Taken
<1>10. QED
  BY <1>1, <1>2, <1>3, <1>4, <1>5, <1>6, <1>7, <1>8, <1>9 DEF Next
-----------------------------------------------------------------------------
(* The invariant: files, copies, the lock, and what each command knows.       *)
THEOREM SyncIsSound == Spec => []SyncInv
<1>1. SyncInv /\ [Next]_vars => SyncInv'
  BY NextKeeps
<1>2. QED BY InitHolds, <1>1, PTL DEF Spec

(* What a device has acknowledged, and never sends again, is in the backend's *)
(* state: a death between the ledger, the state and the acknowledgement, or a *)
(* reaped lock, loses nothing.                                                *)
THEOREM AcksAreStored == Spec => []AckedIsStored
<1>1. SyncInv => AckedIsStored
  BY DEF SyncInv
<1>2. QED BY SyncIsSound, <1>1, PTL

(* Every event that the backend applied is an ancestor of its record or of a  *)
(* candidate of its conflict.                                                 *)
THEOREM EventsAreAccounted == Spec => []Accounted
<1>1. SyncInv => Accounted
  BY DEF SyncInv, Copies, Accounts, Traced, Accounted
<1>2. QED BY SyncIsSound, <1>1, PTL

(* The backend's state is replaced as a whole, and yet never loses an event   *)
(* that it had taken.                                                         *)
THEOREM NothingIsForgotten == Spec => [][Taken(state) \subseteq Taken(state')]_vars
<1>1. SyncInv /\ [Next]_vars => [Taken(state) \subseteq Taken(state')]_vars
  BY NextKeeps
<1>2. QED BY SyncIsSound, <1>1, PTL DEF Spec
-----------------------------------------------------------------------------
(* What the backend's state may become.  A record is replaced only by an      *)
(* event that names it as a parent; an open conflict is closed only by a      *)
(* resolution that names every candidate.                                     *)
Succeeds(s, t) ==
  /\ Taken(s) \subseteq Taken(t)
  /\ Revision(s.record) <= Revision(t.record)
  /\ s.record # NoRecord /\ t.record # s.record => s.record.id \in t.record.parents
  /\ s.conflict = "open" =>
        \/ /\ t.record = s.record /\ t.conflict = "open"
           /\ s.candidates \subseteq t.candidates
        \/ /\ t.record.op = "resolve"
           /\ {c.id : c \in s.candidates} \subseteq t.record.parents

(* The events that do not run ahead of the backend's record.                  *)
Reached == {e \in Event : e.base <= Revision(state.record)}

(* No device is ahead of the backend, and the state that one is about to      *)
(* write succeeds the one it found.                                           *)
Behind(d) ==
  /\ next[d].pending = {}
  /\ Revision(local[d].record) <= Revision(state.record)
  /\ outbox[d] \in Seq(Reached) /\ todo[d] \in Seq(Reached)
  /\ pc[d] \in {"append", "record", "save"} => Succeeds(state, next[d])

SuccessionInv == /\ SyncInv
                 /\ state.pending = {}
                 /\ \A d \in Devices : Behind(d)

(* An open conflict leaves the record, and adds to the candidates.            *)
LEMMA OpenedSucceeds ==
  ASSUME NEW s \in Record, NEW e \in Event, s.record # NoRecord
  PROVE  Succeeds(s, Opened(s, e)) /\ Opened(s, e).pending = s.pending
<1> DEFINE t == Opened(s, e)
<1>1. /\ t.record = s.record /\ t.conflict = "open" /\ t.pending = s.pending
      /\ t.candidates = (s.candidates \union {s.record, e}) \ {NoRecord}
      /\ t.applied = s.applied \union {e.id}
  BY DEF Opened, Record
<1>2. s.candidates \subseteq t.candidates /\ Taken(s) \subseteq Taken(t)
  BY <1>1, RecordTypes DEF Taken, Record
<1>3. Revision(s.record) \in Nat
  BY RecordTypes DEF Record
<1> HIDE DEF t
<1>4. Succeeds(s, t)
  BY <1>1, <1>2, <1>3 DEF Succeeds
<1>5. QED BY <1>1, <1>4 DEF t

(* applySyncEvent of an event that does not run ahead of the record.          *)
LEMMA ApplySucceeds ==
  ASSUME NEW M \in SUBSET Event, Rooted(M), IsFiniteSet(M), NEW s, Accounts(s, M),
         NEW e \in M, s.pending = {}, e.base <= Revision(s.record)
  PROVE  /\ Succeeds(s, applySyncEvent(s, e))
         /\ applySyncEvent(s, e).pending = {}
<1>0. /\ s \in Record /\ e \in Event /\ e # NoRecord /\ e.base \in Nat
      /\ Revision(e) = e.base + 1
      /\ s.record \in Event \union {NoRecord} /\ Revision(s.record) \in Nat
  BY RecordTypes DEF Accounts, Record
<1>1. CASE e.id \in s.applied \/ e \in s.pending
  <2>1. applySyncEvent(s, e) = s
    BY <1>1 DEF applySyncEvent
  <2>2. Succeeds(s, s)
    BY <1>0 DEF Succeeds
  <2>3. QED BY <2>1, <2>2
<1>2. CASE ~(e.id \in s.applied \/ e \in s.pending)
  <2>1. PICK t : t = Admit(s, e)
    OBVIOUS
  <2>2. Accounts(t, M) /\ t.pending = {} /\ Taken(s) \subseteq Taken(t)
    BY <2>1, AdmitAccounts
  <2>3. applySyncEvent(s, e) = t
    <3>1. applySyncEvent(s, e) = IF t.record # s.record THEN ReplayPending(t) ELSE t
      BY <1>2, <2>1 DEF applySyncEvent
    <3>2. ReplayPending(t) = t
      <4>1. PICK f : f[0] = t /\ ReplayPending(t) = f[Cardinality(t.pending)]
        BY <2>2, ReplayIsTurns
      <4>2. Cardinality(t.pending) = 0
        BY <2>2, FS_EmptySet
      <4>3. QED BY <4>1, <4>2
    <3>3. QED BY <3>1, <3>2
  <2>4. CASE s.conflict = "open" \/ e.base # Revision(s.record)
    <3>1. s.record # NoRecord
      BY <1>0, <2>4, RecordTypes DEF Accounts
    <3>2. t = Opened(s, e)
      BY <1>0, <2>1, <2>4 DEF Admit
    <3>3. QED BY <1>0, <2>2, <2>3, <3>1, <3>2, OpenedSucceeds
  <2>5. CASE s.conflict # "open" /\ e.base = Revision(s.record)
    <3>1. CASE e.parents # {} /\ s.record # NoRecord /\ s.record.id \notin e.parents
      <4>1. t = Opened(s, e)
        BY <1>0, <2>1, <2>5, <3>1 DEF Admit
      <4>2. QED BY <1>0, <2>2, <2>3, <3>1, <4>1, OpenedSucceeds
    <3>2. CASE ~(e.parents # {} /\ s.record # NoRecord /\ s.record.id \notin e.parents)
      <4>1. t = [s EXCEPT !.record = e, !.applied = @ \union {e.id}]
        BY <1>0, <2>1, <2>5, <3>2 DEF Admit
      <4>2. t.record = e
        BY <1>0, <4>1 DEF Record
      <4>3. Revision(s.record) <= Revision(t.record)
        BY <1>0, <2>5, <4>2
      <4>4. s.record # NoRecord => s.record.id \in e.parents
        <5>1. s.record # NoRecord => e.base # 0
          BY <1>0, <2>5, RecordTypes
        <5>2. QED BY <5>1, <3>2 DEF Rooted
      <4>5. Succeeds(s, t)
        BY <2>2, <2>5, <4>2, <4>3, <4>4 DEF Succeeds
      <4>6. QED BY <4>5, <2>2, <2>3
    <3>3. QED BY <3>1, <3>2
  <2>6. QED BY <2>4, <2>5
<1>3. QED BY <1>1, <1>2

(* Before the first sync no device is ahead.                                  *)
LEMMA SuccessionStarts == Init => SuccessionInv
<1> SUFFICES ASSUME Init PROVE SuccessionInv
  OBVIOUS
<1>1. Empty.pending = {} /\ Empty.record = NoRecord /\ Revision(NoRecord) = 0
  BY RecordTypes DEF Empty
<1>2. \A d \in Devices : Behind(d)
  BY <1>1 DEF Init, Behind
<1>3. QED BY <1>1, <1>2, InitHolds DEF SuccessionInv, Init

(* A step of one device that leaves the backend's state alone.                *)
LEMMA BehindStep ==
  ASSUME SuccessionInv, SyncInv', NEW d \in Devices, state' = state, Behind(d)',
         \A e \in Devices : e # d =>
            /\ local'[e] = local[e] /\ outbox'[e] = outbox[e] /\ todo'[e] = todo[e]
            /\ next'[e] = next[e] /\ pc'[e] = pc[e]
  PROVE  SuccessionInv'
<1>1. ASSUME NEW e \in Devices PROVE Behind(e)'
  <2>1. CASE e = d
    BY <2>1
  <2>2. CASE e # d
    <3>1. Behind(e)
      BY DEF SuccessionInv
    <3>2. Reached' = Reached
      BY DEF Reached
    <3>3. QED BY <2>2, <3>1, <3>2 DEF Behind
  <2>3. QED BY <2>1, <2>2
<1>2. QED BY <1>1 DEF SuccessionInv

(* A step after which the device is in no critical section it has to finish,  *)
(* and that leaves the backend's state alone.                                 *)
LEMMA SuccessionAside ==
  ASSUME SuccessionInv, NEW d \in Devices, state' = state, SyncInv',
         \/ Edit(d) \/ Export(d) \/ Import(d) \/ Pull(d) \/ PullAtEnd(d)
         \/ Unlock(d) \/ Acknowledge(d) \/ Fail(d) \/ Die(d) \/ Reap(d)
  PROVE  SuccessionInv'
<1>1. Behind(d) /\ Reached' = Reached /\ Empty.pending = {} /\ <<>> \in Seq(Reached)
  BY DEF SuccessionInv, Reached, Empty
<1>2. /\ outbox'[d] = outbox[d]
      /\ todo'[d] = todo[d] \/ (todo'[d] = Tail(todo[d]) /\ todo[d] # <<>>) \/ todo'[d] = <<>>
      /\ next'[d] = next[d] \/ next'[d] = Empty
      /\ local'[d] = local[d] \/ local'[d] = state
      /\ (pc'[d] = pc[d] /\ next'[d] = next[d]) \/ pc'[d] \in {"idle", "import", "send", "ack"}
  <2>1. CASE Edit(d) \/ Export(d) \/ Import(d)
    BY <2>1 DEF Edit, Export, Import, SuccessionInv, SyncInv, Files
  <2>2. CASE Pull(d) \/ PullAtEnd(d)
    BY <2>2 DEF Pull, PullAtEnd, Reads, SuccessionInv, SyncInv, Files
  <2>3. CASE Unlock(d)
    BY <2>3 DEF Unlock, device, SuccessionInv, SyncInv, Files
  <2>4. CASE Acknowledge(d)
    BY <2>4 DEF Acknowledge, SuccessionInv, SyncInv, Files, Knows
  <2>5. CASE Fail(d) \/ Die(d)
    BY <2>5 DEF Fail, Die, Stop, device, SuccessionInv, SyncInv, Files
  <2>6. CASE Reap(d)
    BY <2>6 DEF Reap, device
  <2>7. QED BY <2>1, <2>2, <2>3, <2>4, <2>5, <2>6
<1>3. todo'[d] \in Seq(Reached)
  <2>1. todo[d] \in Seq(Reached)
    BY <1>1 DEF Behind
  <2>2. todo[d] # <<>> => Tail(todo[d]) \in Seq(Reached)
    BY <2>1
  <2>3. QED BY <1>1, <1>2, <2>1, <2>2
<1>4. Revision(state.record) \in Nat
  BY RecordTypes DEF SuccessionInv, SyncInv, Copies, Accounts, Record
<1>5. Behind(d)'
  BY <1>1, <1>2, <1>3, <1>4 DEF Behind
<1>6. \A e \in Devices : e # d =>
            /\ local'[e] = local[e] /\ outbox'[e] = outbox[e] /\ todo'[e] = todo[e]
            /\ next'[e] = next[e] /\ pc'[e] = pc[e]
  BY DEF Edit, Export, Import, Pull, PullAtEnd, Reads, Unlock, Acknowledge, Fail, Die, Stop,
         Reap, device, SuccessionInv, SyncInv, Files
<1>7. QED BY <1>5, <1>6, BehindStep

(* push: a fresh event follows a record that the backend has reached.         *)
LEMMA SuccessionPush ==
  ASSUME SuccessionInv, NEW d \in Devices, Push(d), SyncInv'
  PROVE  SuccessionInv'
<1>1. /\ UNCHANGED <<acks, local, state, next>> /\ pc' = [pc EXCEPT ![d] = "send"]
      /\ todo' = [todo EXCEPT ![d] = Pending(d)] /\ portable[d] # 0
  BY DEF Push, backend
<1>2. Behind(d) /\ Reached' = Reached
  BY <1>1 DEF SuccessionInv, Reached
<1>3. outbox'[d] \in Seq(Reached) /\ \A e \in Devices : e # d => outbox'[e] = outbox[e]
  <2>1. CASE Desired(d)
    <3>1. PICK e : e = FreshEvent(d)
      OBVIOUS
    <3>2. outbox' = [outbox EXCEPT ![d] = Append(@, e)] /\ Fresh <= MaxEvents
      BY <2>1, <3>1 DEF Push
    <3>3. e \in Event
      BY <1>1, <3>1, <3>2, FreshEventIsOne DEF SuccessionInv
    <3>4. e.base = Revision(local[d].record)
      BY <3>1 DEF FreshEvent
    <3>5. e \in Reached
      BY <1>2, <3>3, <3>4 DEF Reached, Behind
    <3>6. QED BY <1>2, <3>2, <3>5 DEF Behind, SuccessionInv, SyncInv, Files
  <2>2. CASE ~Desired(d)
    BY <1>2, <2>2 DEF Push, Behind
  <2>3. QED BY <2>1, <2>2
<1>4. Pending(d) \in Seq(Reached)
  BY <1>3, PendingIsOne
<1>5. Behind(d)'
  <2>1. todo'[d] = Pending(d) /\ pc'[d] = "send"
    BY <1>1 DEF SuccessionInv, SyncInv, Files
  <2>2. QED BY <1>1, <1>2, <1>3, <1>4, <2>1 DEF Behind
<1>6. QED
  <2>1. \A e \in Devices : e # d => todo'[e] = todo[e] /\ pc'[e] = pc[e]
    BY <1>1 DEF SuccessionInv, SyncInv, Files
  <2>2. QED BY <1>1, <1>3, <1>5, <2>1, BehindStep

(* What a device is about to write succeeds the state it read under the lock. *)
LEMMA SuccessionTake ==
  ASSUME SuccessionInv, NEW d \in Devices, Take(d), SyncInv'
  PROVE  SuccessionInv'
<1>1. /\ UNCHANGED <<outbox, local, state, todo>> /\ todo[d] # <<>>
      /\ pc' = [pc EXCEPT ![d] = "append"]
  BY DEF Take, device
<1>2. Behind(d) /\ Reached' = Reached
  BY <1>1 DEF SuccessionInv, Reached
<1>3. PICK e : e = Head(todo[d])
  OBVIOUS
<1>4. PICK t : t = applySyncEvent(state, e)
  OBVIOUS
<1>5. next' = [next EXCEPT ![d] = t]
  BY <1>3, <1>4 DEF Take
<1>6. e \in made /\ e \in Reached
  BY <1>1, <1>2, <1>3 DEF SuccessionInv, SyncInv, Files, Behind
<1>7. Succeeds(state, t) /\ t.pending = {}
  BY <1>4, <1>6, ApplySucceeds DEF SuccessionInv, SyncInv, Copies, MadeWell, Reached
<1>8. next'[d] = t
  BY <1>5 DEF SuccessionInv, SyncInv, Files
<1>9. Behind(d)'
  BY <1>1, <1>2, <1>7, <1>8 DEF Behind
<1>10. QED
  <2>1. \A x \in Devices : x # d => next'[x] = next[x] /\ pc'[x] = pc[x]
    BY <1>1, <1>5 DEF SuccessionInv, SyncInv, Files
  <2>2. QED BY <1>1, <1>9, <2>1, BehindStep

(* The ledger is written before the state, which stays as it was.             *)
LEMMA SuccessionList ==
  ASSUME SuccessionInv, NEW d \in Devices, List(d) \/ RecordResolution(d), SyncInv'
  PROVE  SuccessionInv'
<1>1. /\ UNCHANGED <<outbox, local, state, todo, next>> /\ pc[d] \in {"append", "record"}
      /\ pc' = [pc EXCEPT ![d] = "save"]
  BY DEF List, RecordResolution, device
<1>2. Behind(d) /\ Reached' = Reached
  BY <1>1 DEF SuccessionInv, Reached
<1>3. Behind(d)'
  BY <1>1, <1>2 DEF Behind
<1>4. \A x \in Devices : x # d => pc'[x] = pc[x]
  BY <1>1 DEF SuccessionInv, SyncInv, Files
<1>5. QED BY <1>1, <1>3, <1>4, BehindStep

(* resolve: the resolution's revision is above the record's, and it names the *)
(* record, which is a candidate.                                              *)
LEMMA SuccessionResolve ==
  ASSUME SuccessionInv, NEW d \in Devices, Resolve(d), SyncInv'
  PROVE  SuccessionInv'
<1>1. /\ UNCHANGED <<outbox, local, state, todo>> /\ state.conflict = "open"
      /\ pc' = [pc EXCEPT ![d] = "record"] /\ Fresh <= MaxEvents
  BY DEF Resolve, device
<1>2. Behind(d) /\ Reached' = Reached
  BY <1>1 DEF SuccessionInv, Reached
<1>3. PICK c \in state.candidates :
         next' = [next EXCEPT ![d] = resolveSyncConflict(state, c, Fresh)]
  BY DEF Resolve
<1>4. PICK e, t : e = Resolution(state, c, Fresh) /\ t = resolveSyncConflict(state, c, Fresh)
  OBVIOUS
<1>5. /\ e \in Event /\ Taken(state) \subseteq Taken(t)
      /\ t.record = e /\ t.pending = state.pending
      /\ Revision(state.record) <= e.base /\ e.op = "resolve"
      /\ e.parents = {f.id : f \in state.candidates}
  BY <1>1, <1>4, ResolutionIsOne DEF SuccessionInv
<1>6. state.record \in state.candidates
  BY <1>1 DEF SuccessionInv, SyncInv, Copies, Accounts
<1>7. Revision(state.record) <= Revision(e)
  <2>1. Revision(e) = e.base + 1 /\ e.base \in Nat /\ Revision(state.record) \in Nat
    BY <1>5, RecordTypes DEF SuccessionInv, SyncInv, Copies, Accounts, Record
  <2>2. QED BY <2>1, <1>5
<1>8. Succeeds(state, t)
  <2>1. state.record.id \in t.record.parents /\ {f.id : f \in state.candidates} \subseteq t.record.parents
    BY <1>5, <1>6
  <2>2. QED BY <1>5, <1>7, <2>1 DEF Succeeds
<1>9. next' = [next EXCEPT ![d] = t] /\ next'[d] = t
  BY <1>3, <1>4 DEF SuccessionInv, SyncInv, Files
<1>10. Behind(d)'
  BY <1>1, <1>2, <1>5, <1>8, <1>9 DEF Behind, SuccessionInv
<1>11. QED
  <2>1. \A x \in Devices : x # d => next'[x] = next[x] /\ pc'[x] = pc[x]
    BY <1>1, <1>9 DEF SuccessionInv, SyncInv, Files
  <2>2. QED BY <1>1, <1>10, <2>1, BehindStep

(* The lock is still the device's, so what it writes succeeds what is there.  *)
LEMMA SuccessionSave ==
  ASSUME SuccessionInv, NEW d \in Devices, Save(d), SyncInv'
  PROVE  SuccessionInv' /\ Succeeds(state, state')
<1>1. /\ UNCHANGED <<outbox, local, todo, next>> /\ pc[d] = "save" /\ state' = next[d]
      /\ pc' = [pc EXCEPT ![d] = "unlock"]
  BY DEF Save, device
<1>2. Succeeds(state, state') /\ state'.pending = {}
  BY <1>1 DEF SuccessionInv, Behind
<1>3. /\ Revision(state.record) \in Nat /\ Revision(state'.record) \in Nat
      /\ \A e \in Devices : Revision(local[e].record) \in Nat
  BY <1>1, RecordTypes DEF SuccessionInv, SyncInv, Copies, Accounts, Record
<1>4. Reached \subseteq Reached'
  <2>1. Revision(state.record) <= Revision(state'.record)
    BY <1>2 DEF Succeeds
  <2>2. \A e \in Event : e.base \in Nat
    BY RecordTypes
  <2>3. QED BY <1>3, <2>1, <2>2 DEF Reached
<1>5. ASSUME NEW e \in Devices PROVE Behind(e)'
  <2>1. Behind(e)
    BY DEF SuccessionInv
  <2>2. pc'[e] \notin {"append", "record", "save"}
    BY <1>1 DEF SuccessionInv, SyncInv, Files, Locked, Inside
  <2>3. outbox[e] \in Seq(Reached') /\ todo[e] \in Seq(Reached')
    BY <1>4, <2>1, SequenceGrows DEF Behind
  <2>4. Revision(local[e].record) <= Revision(state'.record)
    BY <1>2, <1>3, <2>1 DEF Behind, Succeeds
  <2>5. QED BY <1>1, <2>1, <2>2, <2>3, <2>4 DEF Behind
<1>6. QED BY <1>2, <1>5 DEF SuccessionInv

(* The state changes only into one that succeeds it.                          *)
LEMMA SuccessionKeeps ==
  ASSUME SuccessionInv, [Next]_vars
  PROVE  SuccessionInv' /\ (state' = state \/ Succeeds(state, state'))
<1>1. SyncInv'
  BY NextKeeps DEF SuccessionInv
<1>2. ASSUME NEW d \in Devices,
             \/ Edit(d) \/ Export(d) \/ Import(d) \/ Pull(d) \/ PullAtEnd(d)
             \/ Unlock(d) \/ Acknowledge(d) \/ Fail(d) \/ Die(d) \/ Reap(d)
      PROVE  SuccessionInv' /\ state' = state
  <2>1. state' = state
    BY <1>2 DEF Edit, Export, Import, Pull, PullAtEnd, Unlock, Acknowledge, Fail, Die, Reap,
                backend
  <2>2. QED BY <1>1, <1>2, <2>1, SuccessionAside
<1>3. ASSUME NEW d \in Devices, Push(d) \/ Take(d) PROVE SuccessionInv' /\ state' = state
  BY <1>1, <1>3, SuccessionPush, SuccessionTake DEF Push, Take, backend
<1>4. ASSUME NEW d \in Devices, List(d) \/ RecordResolution(d) \/ Resolve(d)
      PROVE  SuccessionInv' /\ state' = state
  BY <1>1, <1>4, SuccessionList, SuccessionResolve DEF List, RecordResolution, Resolve
<1>5. ASSUME NEW d \in Devices, Save(d) PROVE SuccessionInv' /\ Succeeds(state, state')
  BY <1>1, <1>5, SuccessionSave
<1>6. CASE UNCHANGED vars
  BY <1>1, <1>6 DEF vars, SuccessionInv, Behind, Reached
<1>7. QED BY <1>2, <1>3, <1>4, <1>5, <1>6 DEF Next
-----------------------------------------------------------------------------
(* Compare-and-swap, over every interleaving and death: the record is only    *)
(* replaced by an event that names it as a parent, and an open conflict only  *)
(* ends by a resolution that names every candidate.                           *)
THEOREM RecordsSucceed == Spec => [][Succeeds(state, state')]_vars
<1>1. SuccessionInv /\ [Next]_vars => SuccessionInv' /\ [Succeeds(state, state')]_vars
  <2> SUFFICES ASSUME SuccessionInv, [Next]_vars
               PROVE  SuccessionInv' /\ Succeeds(state, state')
    OBVIOUS
  <2>1. Revision(state.record) \in Nat
    BY RecordTypes DEF SuccessionInv, SyncInv, Copies, Accounts, Record
  <2>2. Succeeds(state, state)
    BY <2>1 DEF Succeeds
  <2>3. QED BY <2>2, SuccessionKeeps
<1>2. QED BY SuccessionStarts, <1>1, PTL DEF Spec

(* With this backend no event ever waits for an earlier one, so what a device *)
(* has acknowledged is applied.                                               *)
THEOREM NothingWaits == Spec => [](/\ state.pending = {}
                                   /\ \A d \in Devices : acks[d] \subseteq state.applied)
<1>1. SuccessionInv => state.pending = {} /\ \A d \in Devices : acks[d] \subseteq state.applied
  BY DEF SuccessionInv, SyncInv, AckedIsStored
<1>2. SuccessionInv /\ [Next]_vars => SuccessionInv'
  BY SuccessionKeeps
<1>3. QED BY SuccessionStarts, <1>1, <1>2, PTL DEF Spec

(* Every variable of the model keeps its type.                                *)
THEOREM SyncTyped == Spec => []TypeOK
<1>1. SyncInv => TypeOK
  <2> SUFFICES ASSUME SyncInv PROVE TypeOK
    OBVIOUS
  <2>1. ASSUME NEW s \in Record PROVE StateOK(s)
    BY DEF Record, StateOK
  <2>2. StateOK(state) /\ \A d \in Devices : StateOK(local[d]) /\ StateOK(next[d])
    BY <2>1 DEF SyncInv, Copies, Accounts
  <2>3. ASSUME NEW d \in Devices PROVE Range(outbox[d]) \subseteq Event
    <3>1. outbox[d] \in Seq(Event)
      BY SequenceGrows DEF SyncInv, Files, Copies, MadeWell
    <3>2. QED BY <3>1 DEF Range
  <2>4. Range(log) \subseteq Ids
    BY DEF SyncInv, Files, Range
  <2>5. QED BY <2>2, <2>3, <2>4 DEF SyncInv, Files, TypeOK
<1>2. QED BY SyncIsSound, <1>1, PTL
-----------------------------------------------------------------------------
(* The value of one record of the shared memory (MemoryReducer). First, that   *)
(* what is defined by recursion on the numbers exists: the replay of a ledger, *)
(* a pass over its conflicts, the course of the incremental path.              *)

(* f follows g from x, up to N: each value from its place and the one before.  *)
Follows(f, x, g, N) == f[0] = x /\ \A n \in 1..N : f[n] = g[<<n, f[n - 1]>>]

LEMMA FollowsOneWay ==
  ASSUME NEW x, NEW g, NEW f, NEW h, NEW N \in Nat, Follows(f, x, g, N), Follows(h, x, g, N)
  PROVE  \A n \in 0..N : f[n] = h[n]
<1> DEFINE T == {n \in Nat : n <= N => f[n] = h[n]}
<1>1. 0 \in T
  BY DEF Follows
<1>2. ASSUME NEW n \in Nat, n \in T PROVE n + 1 \in T
  <2>1. CASE n + 1 <= N
    <3>1. n + 1 \in 1..N /\ n + 1 - 1 = n /\ f[n] = h[n]
      BY <2>1, <1>2
    <3>2. PICK m : m = n + 1
      OBVIOUS
    <3>3. f[m] = g[<<m, f[n]>>] /\ h[m] = g[<<m, h[n]>>]
      BY <3>1, <3>2 DEF Follows
    <3>4. QED BY <3>1, <3>2, <3>3
  <2>2. QED BY <2>1
<1>3. Nat \subseteq T
  <2> HIDE DEF T
  <2> QED BY <1>1, <1>2, Induction
<1>4. QED BY <1>3

LEMMA FollowsSome ==
  ASSUME NEW x, NEW g, NEW N \in Nat
  PROVE  \E f : Follows(f, x, g, N)
<1> DEFINE T == {n \in Nat : \E f : Follows(f, x, g, n)}
<1>1. 0 \in T
  <2>1. [i \in {0} |-> x][0] = x
    OBVIOUS
  <2>2. Follows([i \in {0} |-> x], x, g, 0)
    BY <2>1 DEF Follows
  <2>3. QED BY <2>2
<1>2. ASSUME NEW n \in Nat, n \in T PROVE n + 1 \in T
  <2>1. PICK f : Follows(f, x, g, n)
    BY <1>2
  <2>2. PICK last : last = g[<<n + 1, f[n]>>]
    OBVIOUS
  <2> DEFINE h == [i \in 0 .. n + 1 |-> IF i <= n THEN f[i] ELSE last]
  <2>3. h[0] = x
    BY <2>1 DEF Follows
  <2>4. ASSUME NEW i \in 1 .. n + 1 PROVE h[i] = g[<<i, h[i - 1]>>]
    <3>1. i - 1 \in 0 .. n + 1 /\ i - 1 <= n /\ h[i - 1] = f[i - 1]
      OBVIOUS
    <3>2. CASE i <= n
      <4>1. h[i] = f[i] /\ i \in 1..n
        BY <3>2
      <4>2. f[i] = g[<<i, f[i - 1]>>]
        BY <4>1, <2>1 DEF Follows
      <4> HIDE DEF h
      <4>3. QED BY <3>1, <4>1, <4>2
    <3>3. CASE ~(i <= n)
      <4>1. i = n + 1 /\ i - 1 = n /\ h[i] = last
        BY <3>3
      <4> HIDE DEF h
      <4>2. QED BY <3>1, <4>1, <2>2
    <3>4. QED BY <3>2, <3>3
  <2>5. Follows(h, x, g, n + 1)
    <3> HIDE DEF h
    <3> QED BY <2>3, <2>4 DEF Follows
  <2>6. \E k : Follows(k, x, g, n + 1)
    BY <2>5
  <2>7. QED BY <2>6
<1>3. Nat \subseteq T
  <2> HIDE DEF T
  <2> QED BY <1>1, <1>2, Induction
<1>4. QED BY <1>3

LEMMA FollowsShorter ==
  ASSUME NEW x, NEW g, NEW f, NEW N \in Nat, NEW n \in 0..N, Follows(f, x, g, N)
  PROVE  Follows(f, x, g, n)
<1>1. 1..n \subseteq 1..N
  OBVIOUS
<1>2. QED BY <1>1 DEF Follows

(* A function may be defined by recursion on the numbers.                      *)
Recurs(f, x, g) == f = [t \in Nat |-> IF t = 0 THEN x ELSE g[<<t, f[t - 1]>>]]

LEMMA Recursion ==
  ASSUME NEW x, NEW g
  PROVE  \E f : Recurs(f, x, g)
<1> DEFINE run(n) == CHOOSE f : Follows(f, x, g, n)
           F == [n \in Nat |-> run(n)[n]]
<1>1. ASSUME NEW n \in Nat PROVE Follows(run(n), x, g, n)
  BY FollowsSome
<1>2. ASSUME NEW n \in Nat, NEW r, r = run(n)
      PROVE  F[n] = r[n] /\ (n # 0 => F[n - 1] = r[n - 1])
  <2>1. Follows(r, x, g, n)
    BY <1>1, <1>2
  <2>2. F[n] = r[n]
    <3> HIDE DEF run
    <3> QED BY <1>2
  <2>3. ASSUME n # 0 PROVE F[n - 1] = r[n - 1]
    <3>1. PICK m \in Nat : m = n - 1
      BY <2>3
    <3>2. PICK q : q = run(m)
      OBVIOUS
    <3>3. Follows(q, x, g, m)
      BY <1>1, <3>2
    <3>4. Follows(r, x, g, m)
      BY <2>1, <3>1, FollowsShorter
    <3>5. \A i \in 0..m : q[i] = r[i]
      BY <3>3, <3>4, FollowsOneWay
    <3>6. q[m] = r[m]
      BY <3>5
    <3>7. F[m] = q[m]
      <4> HIDE DEF run
      <4> QED BY <3>2
    <3> HIDE DEF F
    <3>8. QED BY <3>1, <3>6, <3>7
  <2>4. QED BY <2>2, <2>3
<1>3. ASSUME NEW n \in Nat
      PROVE  F[n] = IF n = 0 THEN x ELSE g[<<n, F[n - 1]>>]
  <2>1. PICK r : r = run(n)
    OBVIOUS
  <2>2. Follows(r, x, g, n)
    BY <1>1, <2>1
  <2>3. F[n] = r[n] /\ (n # 0 => F[n - 1] = r[n - 1])
    BY <1>2, <2>1
  <2> HIDE DEF F, run
  <2>4. n # 0 => r[n] = g[<<n, r[n - 1]>>]
    BY <2>2 DEF Follows
  <2>5. n = 0 => r[n] = x
    BY <2>2 DEF Follows
  <2>6. QED BY <2>3, <2>4, <2>5
<1>4. F = [t \in Nat |-> IF t = 0 THEN x ELSE g[<<t, F[t - 1]>>]]
  <2>1. PICK G : G = [t \in Nat |-> IF t = 0 THEN x ELSE g[<<t, F[t - 1]>>]]
    OBVIOUS
  <2>2. ASSUME NEW n \in Nat PROVE F[n] = G[n]
    <3> HIDE DEF F
    <3> QED BY <1>3, <2>1
  <2>3. F = [n \in Nat |-> F[n]] /\ G = [n \in Nat |-> G[n]]
    BY <2>1
  <2>4. QED BY <2>1, <2>2, <2>3
<1>5. Recurs(F, x, g)
  <2> HIDE DEF F
  <2> QED BY <1>4 DEF Recurs
<1>6. QED BY <1>5
-----------------------------------------------------------------------------
(* What a replay of the events in E goes through.                              *)
Words(E) == E \union {NoEvent}
Instants(E) == {e.at : e \in Words(E)}
Conflicts(E) == [cand : SUBSET Instants(E), event : E, rival : Words(E)]
Accs(E) == [record : Words(E), cands : SUBSET (SUBSET Instants(E)),
            pending : SUBSET Conflicts(E), resolved : SUBSET (SUBSET Instants(E)),
            over : SUBSET (Instants(E) \X Instants(E))]

LEMMA StartTyped ==
  ASSUME NEW E
  PROVE  Start \in Accs(E)
BY DEF Start, Accs, Words

LEMMA ReplaceTyped ==
  ASSUME NEW E, NEW acc \in Accs(E), NEW e \in E
  PROVE  /\ Replace(acc, e) \in Accs(E) /\ Replace(acc, e).record = e
         /\ Replace(acc, e).pending = acc.pending
         /\ Superseded(acc, e) \in Accs(E) /\ Superseded(acc, e).record = acc.record
         /\ Superseded(acc, e).pending = acc.pending
<1>1. acc.record.at \in Instants(E) /\ e.at \in Instants(E)
  BY DEF Accs, Words, Instants
<1>2. <<acc.record.at, e.at>> \in Instants(E) \X Instants(E)
      /\ <<e.at, acc.record.at>> \in Instants(E) \X Instants(E)
  BY <1>1
<1>3. PICK a, b : a = <<acc.record.at, e.at>> /\ b = <<e.at, acc.record.at>>
  OBVIOUS
<1>4. acc.over \union {a} \in SUBSET (Instants(E) \X Instants(E))
      /\ acc.over \union {b} \in SUBSET (Instants(E) \X Instants(E))
  BY <1>2, <1>3 DEF Accs
<1>5. Replace(acc, e) = [acc EXCEPT !.record = e, !.over = acc.over \union {a}]
      /\ Superseded(acc, e) = [acc EXCEPT !.over = acc.over \union {b}]
  BY <1>3 DEF Replace, Superseded, Accs
<1>6. e \in Words(E)
  BY DEF Words
<1>7. QED BY <1>4, <1>5, <1>6 DEF Accs

LEMMA ContestTyped ==
  ASSUME NEW E, NEW acc \in Accs(E), NEW e \in E
  PROVE  /\ Contest(acc, e) \in Accs(E) /\ Contest(acc, e).record = acc.record
         /\ \A p \in Contest(acc, e).pending : p \in acc.pending \/ (p.event = e /\ e.kind = "assert")
<1>1. PICK cand : cand = {acc.record.at, e.at} \ {0}
  OBVIOUS
<1>2. cand \in SUBSET Instants(E)
  BY <1>1 DEF Accs, Words, Instants
<1>3. PICK p : p = [cand |-> cand, event |-> e, rival |-> acc.record]
  OBVIOUS
<1>4. p \in Conflicts(E)
  BY <1>2, <1>3 DEF Conflicts, Accs
<1>5. PICK ps : ps = IF e.kind = "assert" THEN acc.pending \union {p} ELSE acc.pending
  OBVIOUS
<1>6. Contest(acc, e) = [acc EXCEPT !.cands = acc.cands \union {cand}, !.pending = ps]
  BY <1>1, <1>3, <1>5 DEF Contest, Accs
<1>7. ps \in SUBSET Conflicts(E) /\ acc.cands \union {cand} \in SUBSET (SUBSET Instants(E))
  BY <1>2, <1>4, <1>5 DEF Accs
<1>8. ASSUME NEW q \in ps PROVE q \in acc.pending \/ (q.event = e /\ e.kind = "assert")
  BY <1>3, <1>5
<1>9. Contest(acc, e) \in Accs(E) /\ Contest(acc, e).record = acc.record /\ Contest(acc, e).pending = ps
  BY <1>6, <1>7 DEF Accs
<1>10. QED BY <1>8, <1>9

LEMMA PromotionTyped ==
  ASSUME NEW E, NEW acc \in Accs(E), NEW e \in E
  PROVE  /\ Promotion(acc, e) \in Accs(E) /\ Promotion(acc, e).record = e
         /\ Promotion(acc, e).pending = acc.pending
<1>1. PICK cs : cs = {c \in acc.cands : c \subseteq e.supersedes}
  OBVIOUS
<1>2. PICK qs : qs = {q \in acc.pending : q.event.at \in e.supersedes}
  OBVIOUS
<1>3. {p.cand : p \in qs} \in SUBSET (SUBSET Instants(E))
  BY <1>2 DEF Accs, Conflicts
<1>4. cs \in SUBSET (SUBSET Instants(E))
  BY <1>1 DEF Accs
<1>5. PICK ps : ps = {p.cand : p \in qs}
  OBVIOUS
<1>6. acc.resolved \union cs \union ps \in SUBSET (SUBSET Instants(E))
  BY <1>3, <1>4, <1>5 DEF Accs
<1>7. Promotion(acc, e) = [acc EXCEPT !.record = e, !.resolved = acc.resolved \union cs \union ps]
  BY <1>1, <1>2, <1>5 DEF Promotion, Accs
<1>8. e \in Words(E)
  BY DEF Words
<1>9. QED BY <1>6, <1>7, <1>8 DEF Accs

LEMMA ApplyTyped ==
  ASSUME NEW E, NEW acc \in Accs(E), NEW e \in E
  PROVE  Apply(acc, e) \in Accs(E)
<1>1. [acc EXCEPT !.record = e] \in Accs(E)
  BY DEF Accs, Words
<1>2. QED BY <1>1, ReplaceTyped, ContestTyped, PromotionTyped DEF Apply

LEMMA SettleTyped ==
  ASSUME NEW E, NEW acc \in Accs(E), NEW p \in Conflicts(E)
  PROVE  /\ Settle(acc, p) \in Accs(E)
         /\ ~Later(p.event, acc.record) => Settle(acc, p).record = acc.record
<1>1. PICK e \in E : e = p.event
  BY DEF Conflicts
<1>2. ASSUME NEW a \in Accs(E)
      PROVE  /\ [a EXCEPT !.resolved = @ \union {p.cand}] \in Accs(E)
             /\ [a EXCEPT !.resolved = @ \union {p.cand}].record = a.record
  BY DEF Accs, Conflicts
<1>3. CASE p.cand \in acc.resolved \/ ~SameLineage(p.event, acc.record) \/ p.event.n = acc.record.n
  BY <1>3 DEF Settle
<1>4. CASE ~(p.cand \in acc.resolved \/ ~SameLineage(p.event, acc.record) \/ p.event.n = acc.record.n)
  <2>1. PICK a : a = IF e.n > acc.record.n THEN Replace(acc, e) ELSE Superseded(acc, e)
    OBVIOUS
  <2>2. a \in Accs(E) /\ (~(e.n > acc.record.n) => a.record = acc.record)
    BY <2>1, ReplaceTyped
  <2>3. Settle(acc, p) = [a EXCEPT !.resolved = @ \union {p.cand}]
    BY <1>1, <1>4, <2>1 DEF Settle
  <2>4. ~Later(p.event, acc.record) => ~(e.n > acc.record.n)
    BY <1>1, <1>4 DEF Later
  <2>5. QED BY <1>2, <2>2, <2>3, <2>4
<1>5. QED BY <1>3, <1>4
-----------------------------------------------------------------------------
(* One instant of a replay: nobody spoke then, or what was said is applied.    *)
SaidAt(E, t) == {e \in E : e.at = t}
Heard(x, said) == IF said = {} THEN x ELSE Apply(x, CHOOSE e \in said : TRUE)

(* f is the replay of E, instant by instant.                                   *)
Replays(E, f) == /\ f \in [Nat -> Accs(E)] /\ f[0] = Start
                 /\ \A n \in Nat : f[n + 1] = Heard(f[n], SaidAt(E, n + 1))

LEMMA HeardTyped ==
  ASSUME NEW E, NEW x \in Accs(E), NEW t
  PROVE  Heard(x, SaidAt(E, t)) \in Accs(E)
<1>1. CASE SaidAt(E, t) = {}
  BY <1>1 DEF Heard
<1>2. CASE SaidAt(E, t) # {}
  <2>1. PICK e : e = CHOOSE d \in SaidAt(E, t) : TRUE
    OBVIOUS
  <2>2. e \in SaidAt(E, t)
    BY <1>2, <2>1
  <2>3. e \in E
    BY <2>2 DEF SaidAt
  <2>4. Heard(x, SaidAt(E, t)) = Apply(x, e)
    BY <1>2, <2>1 DEF Heard
  <2>5. QED BY <2>3, <2>4, ApplyTyped
<1>3. QED BY <1>1, <1>2

LEMMA ReducedReplays == \A E : \E f : Replays(E, f) /\ Reduced(E) = f[clock]
<1>1. SUFFICES ASSUME NEW E PROVE \E f : Replays(E, f) /\ Reduced(E) = f[clock]
  OBVIOUS
<1> DEFINE Course(k) == k = [t \in Nat |-> IF t = 0 THEN Start ELSE Heard(k[t - 1], SaidAt(E, t))]
<1>2. \E k : Course(k)
  <2>1. PICK g : g = [y \in Nat \X Accs(E) |-> Heard(y[2], SaidAt(E, y[1]))]
    OBVIOUS
  <2>2. PICK f : Recurs(f, Start, g)
    BY Recursion
  <2>3. ASSUME NEW n \in Nat, NEW x \in Accs(E) PROVE g[<<n, x>>] = Heard(x, SaidAt(E, n))
    <3>1. PICK y : y = <<n, x>>
      OBVIOUS
    <3>2. y \in Nat \X Accs(E) /\ y[1] = n /\ y[2] = x
      BY <3>1
    <3>3. QED BY <2>1, <3>1, <3>2
  <2> DEFINE T == {n \in Nat : f[n] \in Accs(E)}
  <2>4. PICK h : h = f
    OBVIOUS
  <2>5. f = [t \in Nat |-> IF t = 0 THEN Start ELSE g[<<t, h[t - 1]>>]]
    BY <2>2, <2>4 DEF Recurs
  <2>6. 0 \in T
    BY <2>5, StartTyped
  <2>7. ASSUME NEW n \in Nat, n \in T PROVE n + 1 \in T
    <3>1. PICK m \in Nat : m = n + 1 /\ m # 0 /\ m - 1 = n
      OBVIOUS
    <3>2. f[m] = g[<<m, h[n]>>]
      BY <2>5, <3>1
    <3>3. f[m] = Heard(f[n], SaidAt(E, m))
      BY <3>2, <2>3, <2>4, <2>7
    <3>4. QED BY <3>1, <3>3, <2>7, HeardTyped
  <2>8. Nat \subseteq T
    <3> HIDE DEF T
    <3> QED BY <2>6, <2>7, Induction
  <2>9. ASSUME NEW t \in Nat, t # 0 PROVE g[<<t, h[t - 1]>>] = Heard(h[t - 1], SaidAt(E, t))
    <3>1. PICK m \in Nat : m = t - 1
      BY <2>9
    <3>2. h[m] \in Accs(E)
      BY <2>8, <2>4
    <3>3. QED BY <3>1, <3>2, <2>3
  <2>10. f = [t \in Nat |-> IF t = 0 THEN Start ELSE Heard(h[t - 1], SaidAt(E, t))]
    BY <2>5, <2>9
  <2>11. QED BY <2>10, <2>4
<1>3. PICK F : F = CHOOSE k : Course(k)
  OBVIOUS
<1>4. Course(F)
  BY <1>2, <1>3
<1>5. Reduced(E) = F[clock]
  BY <1>3 DEF Reduced, Heard, SaidAt
<1>6. PICK h : h = F
  OBVIOUS
<1>7. F = [t \in Nat |-> IF t = 0 THEN Start ELSE Heard(h[t - 1], SaidAt(E, t))]
  BY <1>4, <1>6
<1>8. F[0] = Start
  BY <1>7
<1>9. ASSUME NEW n \in Nat PROVE F[n + 1] = Heard(F[n], SaidAt(E, n + 1))
  <2>1. PICK m \in Nat : m = n + 1 /\ m # 0 /\ m - 1 = n
    OBVIOUS
  <2>2. F[m] = Heard(h[n], SaidAt(E, m))
    BY <1>7, <2>1
  <2>3. QED BY <2>1, <2>2, <1>6
<1>10. F \in [Nat -> Accs(E)]
  <2> DEFINE T == {n \in Nat : F[n] \in Accs(E)}
  <2>1. 0 \in T
    BY <1>8, StartTyped
  <2>2. ASSUME NEW n \in Nat, n \in T PROVE n + 1 \in T
    BY <2>2, <1>9, HeardTyped
  <2>3. Nat \subseteq T
    <3> HIDE DEF T
    <3> QED BY <2>1, <2>2, Induction
  <2>4. \A n \in Nat : F[n] \in Accs(E)
    BY <2>3
  <2>5. QED BY <1>7, <2>4
<1>11. QED BY <1>5, <1>8, <1>9, <1>10 DEF Replays

(* Replays of what is the same up to some instant agree up to there.           *)
LEMMA Agree ==
  ASSUME NEW E, NEW F, NEW f, NEW g, NEW N \in Nat, Replays(E, f), Replays(F, g),
         \A n \in 1..N : SaidAt(E, n) = SaidAt(F, n)
  PROVE  f[N] = g[N]
<1> DEFINE T == {n \in Nat : n <= N => f[n] = g[n]}
<1>1. 0 \in T
  BY DEF Replays
<1>2. ASSUME NEW n \in Nat, n \in T PROVE n + 1 \in T
  <2>1. CASE n + 1 <= N
    <3>1. PICK m \in 1..N : m = n + 1
      BY <2>1
    <3>2. f[n] = g[n]
      BY <2>1, <1>2
    <3>3. f[m] = Heard(f[n], SaidAt(E, m)) /\ g[m] = Heard(g[n], SaidAt(F, m))
      BY <3>1 DEF Replays
    <3>4. QED BY <3>1, <3>2, <3>3
  <2>2. QED BY <2>1
<1>3. Nat \subseteq T
  <2> HIDE DEF T
  <2> QED BY <1>1, <1>2, Induction
<1>4. QED BY <1>3

(* Nothing changes while nobody speaks.                                        *)
LEMMA Still ==
  ASSUME NEW E, NEW f, NEW M \in Nat, NEW N \in Nat, Replays(E, f), M <= N,
         \A n \in Nat : M < n => SaidAt(E, n) = {}
  PROVE  f[N] = f[M]
<1> DEFINE T == {n \in Nat : M <= n => f[n] = f[M]}
<1>1. 0 \in T
  OBVIOUS
<1>2. ASSUME NEW n \in Nat, n \in T PROVE n + 1 \in T
  <2>1. CASE M <= n
    <3>1. f[n + 1] = Heard(f[n], SaidAt(E, n + 1)) /\ SaidAt(E, n + 1) = {}
      BY <2>1 DEF Replays
    <3>2. QED BY <3>1, <2>1, <1>2 DEF Heard
  <2>2. QED BY <2>1
<1>3. Nat \subseteq T
  <2> HIDE DEF T
  <2> QED BY <1>1, <1>2, Induction
<1>4. QED BY <1>3

(* What is said after all of E is applied to what E gives.                     *)
LEMMA SaidLast ==
  \A E, e : /\ clock \in Nat /\ e.at \in 1..clock
            /\ \A d \in E : d.at \in 1..clock /\ d.at < e.at
            => Reduced(E \union {e}) = Apply(Reduced(E), e)
<1> SUFFICES ASSUME NEW E, NEW e, clock \in Nat, e.at \in 1..clock,
                    \A d \in E : d.at \in 1..clock /\ d.at < e.at
             PROVE  Reduced(E \union {e}) = Apply(Reduced(E), e)
  OBVIOUS
<1>1. PICK F : F = E \union {e}
  OBVIOUS
<1>2. PICK f : Replays(E, f) /\ Reduced(E) = f[clock]
  BY ReducedReplays
<1>3. PICK g : Replays(F, g) /\ Reduced(F) = g[clock]
  BY ReducedReplays
<1>4. PICK t \in Nat : t = e.at - 1 /\ t + 1 = e.at /\ t < clock
  OBVIOUS
<1>5. \A n \in 1..t : SaidAt(E, n) = SaidAt(F, n)
  BY <1>1, <1>4 DEF SaidAt
<1>6. f[t] = g[t]
  BY <1>2, <1>3, <1>5, Agree
<1>7. \A n \in Nat : t < n => SaidAt(E, n) = {}
  BY <1>4 DEF SaidAt
<1>8. f[clock] = f[t]
  <2>1. PICK c \in Nat : c = clock /\ t <= c
    BY <1>4
  <2>2. f[c] = f[t]
    BY <2>1, <1>2, <1>7, Still
  <2>3. QED BY <2>1, <2>2
<1>9. SaidAt(F, t + 1) = {e}
  BY <1>1, <1>4 DEF SaidAt
<1>10. g[t + 1] = Apply(g[t], e)
  <2>1. (CHOOSE x \in {e} : TRUE) = e
    OBVIOUS
  <2>2. Heard(g[t], {e}) = Apply(g[t], e)
    BY <2>1 DEF Heard
  <2>3. g[t + 1] = Heard(g[t], SaidAt(F, t + 1))
    BY <1>3 DEF Replays
  <2>4. QED BY <2>2, <2>3, <1>9
<1>11. \A n \in Nat : t + 1 < n => SaidAt(F, n) = {}
  BY <1>1, <1>4 DEF SaidAt
<1>12. g[clock] = g[t + 1]
  <2>1. PICK c \in Nat, u \in Nat : c = clock /\ u = t + 1 /\ u <= c
    BY <1>4
  <2>2. \A n \in Nat : u < n => SaidAt(F, n) = {}
    BY <2>1, <1>11
  <2>3. g[c] = g[u]
    BY <2>1, <2>2, <1>3, Still
  <2>4. QED BY <2>1, <2>3
<1>13. QED BY <1>1, <1>2, <1>3, <1>6, <1>8, <1>10, <1>12
-----------------------------------------------------------------------------
(* What the sessions and the operators write: what a session asserts never     *)
(* goes back in its turns. And no turn was promoted that was overtaken.        *)
Orderly(E) ==
  /\ \A e \in E : e.at \in Nat /\ e.kind \in {"assert", "promote", "reject"}
  /\ \A d, e \in E : d.kind = "assert" /\ e.kind = "assert" /\ d.at < e.at => ~Later(d, e)
Beyond(E) ==
  \E d, e \in E : d.kind = "promote" /\ e.kind = "assert" /\ Later(e, d) /\ e.at < d.at

(* No conflict holds a turn that is later than the record's.                   *)
Calm(x, n) == \A p \in x.pending : /\ x.record # NoEvent /\ ~Later(p.event, x.record)
                                   /\ p.event.kind = "assert" /\ p.event.at <= n

LEMMA ApplyCalm ==
  ASSUME NEW E, Orderly(E), ~Beyond(E), NEW x \in Accs(E), NEW n \in Nat, Calm(x, n),
         NEW e \in E, n < e.at
  PROVE  Calm(Apply(x, e), e.at)
<1>1. e.at \in Nat /\ e.kind \in {"assert", "promote", "reject"} /\ e \in Words(E) /\ e # NoEvent
  BY DEF Orderly, Words, NoEvent
<1>2. \A p \in x.pending : p.event \in E /\ p.event.at \in Nat
  BY DEF Accs, Conflicts, Orderly
<1>3. Calm(x, e.at)
  BY <1>1, <1>2 DEF Calm
<1>4. \A p \in x.pending : p.event.at < e.at
  BY <1>1, <1>2 DEF Calm
<1>5. ASSUME NEW y, y.record = x.record, y.pending = x.pending PROVE Calm(y, e.at)
  BY <1>3, <1>5 DEF Calm
<1>6. ASSUME NEW y, y.record = e, y.pending = x.pending, e.kind # "reject" PROVE Calm(y, e.at)
  <2>1. ASSUME NEW p \in x.pending PROVE ~Later(p.event, e)
    <3>1. p.event \in E /\ p.event.kind = "assert" /\ p.event.at < e.at
      BY <1>2, <1>4 DEF Calm
    <3>2. CASE e.kind = "assert"
      BY <3>1, <3>2 DEF Orderly
    <3>3. CASE e.kind = "promote"
      BY <3>1, <3>3 DEF Beyond
    <3>4. QED BY <3>2, <3>3, <1>1, <1>6
  <2>2. QED BY <2>1, <1>1, <1>3, <1>6 DEF Calm
<1>7. CASE e.kind = "reject" \/ (x.record # NoEvent /\ Older(e, x.record))
  <2>1. Apply(x, e).record = x.record /\ Apply(x, e).pending = x.pending
    BY <1>7, ReplaceTyped DEF Apply
  <2>2. QED BY <2>1, <1>5
<1>8. CASE e.kind = "promote" /\ ~(x.record # NoEvent /\ Older(e, x.record))
  <2>1. CASE x.record.at \in e.supersedes
    <3>1. Apply(x, e) = Promotion(x, e)
      BY <1>8, <2>1 DEF Apply
    <3>2. QED BY <3>1, <1>6, <1>8, PromotionTyped
  <2>2. CASE x.record.at \notin e.supersedes
    <3>1. Apply(x, e) = Contest(x, e)
      BY <1>8, <2>2 DEF Apply
    <3>2. PICK y : y = Contest(x, e)
      OBVIOUS
    <3>3. y.record = x.record /\ \A p \in y.pending : p \in x.pending
      BY <3>2, <1>8, ContestTyped
    <3>4. QED BY <3>1, <3>2, <3>3, <1>3 DEF Calm
  <2>3. QED BY <2>1, <2>2
<1>9. CASE e.kind = "assert" /\ ~(x.record # NoEvent /\ Older(e, x.record))
  <2>1. CASE x.record = NoEvent
    <3>1. Apply(x, e) = [x EXCEPT !.record = e]
      BY <1>9, <2>1 DEF Apply
    <3>2. Apply(x, e).record = e /\ Apply(x, e).pending = x.pending
      BY <3>1 DEF Accs
    <3>3. QED BY <3>2, <1>6, <1>9
  <2>2. CASE x.record # NoEvent /\ e.value = x.record.value
    <3>1. Apply(x, e) = x
      BY <1>9, <2>2 DEF Apply
    <3>2. QED BY <3>1, <1>3
  <2>3. CASE x.record # NoEvent /\ e.value # x.record.value /\ Prevails(e, x.record)
    <3>1. Apply(x, e) = Replace(x, e)
      BY <1>9, <2>3 DEF Apply
    <3>2. QED BY <3>1, <1>6, <1>9, ReplaceTyped
  <2>4. CASE x.record # NoEvent /\ e.value # x.record.value /\ ~Prevails(e, x.record)
    <3>1. Apply(x, e) = Contest(x, e)
      BY <1>9, <2>4 DEF Apply
    <3>2. PICK y : y = Contest(x, e)
      OBVIOUS
    <3>3. y.record = x.record
          /\ \A p \in y.pending : p \in x.pending \/ (p.event = e /\ e.kind = "assert")
      BY <3>2, ContestTyped
    <3>4. ~Later(e, x.record)
      BY <2>4 DEF Prevails
    <3>5. ASSUME NEW p \in y.pending
          PROVE  ~Later(p.event, x.record) /\ p.event.kind = "assert" /\ p.event.at <= e.at
      BY <3>3, <3>4, <1>1, <1>3 DEF Calm
    <3>6. QED BY <3>1, <3>2, <3>3, <3>5, <2>4 DEF Calm
  <2>5. QED BY <2>1, <2>2, <2>3, <2>4
<1>10. QED BY <1>1, <1>7, <1>8, <1>9

LEMMA ReplayCalm ==
  ASSUME NEW E, Orderly(E), ~Beyond(E), NEW f, Replays(E, f), NEW N \in Nat
  PROVE  Calm(f[N], N)
<1> DEFINE T == {n \in Nat : Calm(f[n], n)}
<1>1. 0 \in T
  BY DEF Replays, Calm, Start
<1>2. ASSUME NEW n \in Nat, n \in T PROVE n + 1 \in T
  <2>1. PICK m \in Nat : m = n + 1
    OBVIOUS
  <2>2. PICK said : said = SaidAt(E, m)
    OBVIOUS
  <2>3. f[m] = Heard(f[n], said) /\ f[n] \in Accs(E) /\ Calm(f[n], n)
    BY <2>1, <2>2, <1>2 DEF Replays
  <2>4. CASE said = {}
    <3>1. f[m] = f[n]
      BY <2>3, <2>4 DEF Heard
    <3>2. \A p \in f[n].pending : p.event.at \in Nat
      BY <2>3 DEF Accs, Conflicts, Orderly
    <3>3. QED BY <2>1, <2>3, <3>1, <3>2 DEF Calm
  <2>5. CASE said # {}
    <3>1. PICK e : e = CHOOSE d \in said : TRUE
      OBVIOUS
    <3>2. e \in E /\ e.at = m
      BY <2>2, <2>5, <3>1 DEF SaidAt
    <3>3. f[m] = Apply(f[n], e)
      BY <2>3, <2>5, <3>1 DEF Heard
    <3>4. n < e.at
      BY <2>1, <3>2
    <3>5. Calm(Apply(f[n], e), e.at)
      BY <2>3, <3>2, <3>4, ApplyCalm
    <3>6. QED BY <2>1, <3>2, <3>3, <3>5
  <2>6. QED BY <2>4, <2>5
<1>3. Nat \subseteq T
  <2> HIDE DEF T
  <2> QED BY <1>1, <1>2, Induction
<1>4. QED BY <1>3

(* A pass over conflicts that hold no later turn leaves the record alone.      *)
Early(deferred, x) == \A p \in deferred : ~Later(p.event, x.record)

LEMMA PassKeeps ==
  ASSUME NEW E, NEW acc \in Accs(E), NEW deferred \in SUBSET Conflicts(E), clock \in Nat
  PROVE  /\ Pass(acc, deferred) \in Accs(E)
         /\ Early(deferred, acc) => Pass(acc, deferred).record = acc.record
<1> DEFINE X == {x \in Accs(E) : Early(deferred, acc) => x.record = acc.record}
           At(t) == {p \in deferred : p.event.at = t}
           Turned(x, ps) == IF ps = {} THEN x ELSE Settle(x, CHOOSE p \in ps : TRUE)
           Course(k) == k = [t \in Nat |-> IF t = 0 THEN acc ELSE Turned(k[t - 1], At(t))]
<1>1. ASSUME NEW x \in X, NEW t \in Nat PROVE Turned(x, At(t)) \in X
  <2>1. CASE At(t) = {}
    BY <2>1
  <2>2. CASE At(t) # {}
    <3>1. PICK p : p = CHOOSE q \in At(t) : TRUE
      OBVIOUS
    <3>2. p \in deferred
      BY <2>2, <3>1
    <3>3. Turned(x, At(t)) = Settle(x, p)
      BY <2>2, <3>1
    <3>4. Settle(x, p) \in X
      BY <3>2, SettleTyped DEF Early
    <3>5. QED BY <3>3, <3>4
  <2>3. QED BY <2>1, <2>2
<1>2. \E k : Course(k) /\ k \in [Nat -> X]
  <2> HIDE DEF At, Turned
  <2>1. PICK g : g = [y \in Nat \X X |-> Turned(y[2], At(y[1]))]
    OBVIOUS
  <2>2. PICK f : Recurs(f, acc, g)
    BY Recursion
  <2>3. ASSUME NEW n \in Nat, NEW x \in X PROVE g[<<n, x>>] = Turned(x, At(n))
    <3> HIDE DEF X
    <3>1. PICK y : y = <<n, x>>
      OBVIOUS
    <3>2. y \in Nat \X X /\ y[1] = n /\ y[2] = x
      BY <3>1
    <3>3. QED BY <2>1, <3>1, <3>2
  <2> DEFINE T == {n \in Nat : f[n] \in X}
  <2>4. PICK h : h = f
    OBVIOUS
  <2>5. f = [t \in Nat |-> IF t = 0 THEN acc ELSE g[<<t, h[t - 1]>>]]
    BY <2>2, <2>4 DEF Recurs
  <2>6. 0 \in T
    BY <2>5
  <2>7. ASSUME NEW n \in Nat, n \in T PROVE n + 1 \in T
    <3>1. PICK m \in Nat : m = n + 1 /\ m # 0 /\ m - 1 = n
      OBVIOUS
    <3>2. f[m] = g[<<m, h[n]>>]
      BY <2>5, <3>1
    <3> HIDE DEF X
    <3>3. f[m] = Turned(f[n], At(m))
      BY <3>2, <2>3, <2>4, <2>7
    <3>4. QED BY <3>1, <3>3, <2>7, <1>1
  <2>8. Nat \subseteq T
    <3> HIDE DEF T
    <3> QED BY <2>6, <2>7, Induction
  <2> HIDE DEF X
  <2>9. ASSUME NEW t \in Nat, t # 0 PROVE g[<<t, h[t - 1]>>] = Turned(h[t - 1], At(t))
    <3>1. PICK m \in Nat : m = t - 1
      BY <2>9
    <3>2. h[m] \in X
      BY <2>8, <2>4
    <3>3. QED BY <3>1, <3>2, <2>3
  <2>10. f = [t \in Nat |-> IF t = 0 THEN acc ELSE Turned(h[t - 1], At(t))]
    BY <2>5, <2>9
  <2>11. \A n \in Nat : f[n] \in X
    BY <2>8
  <2>12. f \in [Nat -> X]
    BY <2>10, <2>11
  <2>13. Course(f)
    BY <2>10, <2>4
  <2>14. QED BY <2>12, <2>13
<1>3. PICK F : F = CHOOSE k : Course(k)
  OBVIOUS
<1>4. Course(F)
  <2> HIDE DEF Course, X
  <2> QED BY <1>2, <1>3
<1>5. Pass(acc, deferred) = F[clock]
  BY <1>3 DEF Pass
<1>6. F \in [Nat -> X]
  <2> HIDE DEF At, Turned
  <2>1. PICK h : h = F
    OBVIOUS
  <2>2. F = [t \in Nat |-> IF t = 0 THEN acc ELSE Turned(h[t - 1], At(t))]
    BY <1>4, <2>1
  <2> DEFINE T == {n \in Nat : F[n] \in X}
  <2>3. 0 \in T
    BY <2>2
  <2>4. ASSUME NEW n \in Nat, n \in T PROVE n + 1 \in T
    <3>1. PICK m \in Nat : m = n + 1 /\ m # 0 /\ m - 1 = n
      OBVIOUS
    <3>2. F[m] = Turned(F[n], At(m))
      BY <2>1, <2>2, <3>1
    <3> HIDE DEF X
    <3>3. QED BY <3>1, <3>2, <2>4, <1>1
  <2>5. Nat \subseteq T
    <3> HIDE DEF T
    <3> QED BY <2>3, <2>4, Induction
  <2> HIDE DEF X
  <2>6. \A n \in Nat : F[n] \in X
    BY <2>5
  <2>7. QED BY <2>2, <2>6
<1>7. F[clock] \in X
  <2> HIDE DEF X
  <2> QED BY <1>6
<1>8. QED BY <1>5, <1>7

LEMMA FullTyped == \A E : clock \in Nat => Full(E).record \in Words(E)
<1> SUFFICES ASSUME NEW E, clock \in Nat PROVE Full(E).record \in Words(E)
  OBVIOUS
<1>1. PICK f : Replays(E, f) /\ Reduced(E) = f[clock]
  BY ReducedReplays
<1>2. PICK acc \in Accs(E) : acc = Reduced(E)
  BY <1>1 DEF Replays
<1>3. PICK deferred : deferred = {p \in acc.pending : p.cand \notin Decided(E)}
  OBVIOUS
<1>4. deferred \in SUBSET Conflicts(E)
  BY <1>3 DEF Accs
<1>5. PICK first \in Accs(E) : first = Pass(acc, deferred)
  BY <1>4, PassKeeps
<1>6. PICK second \in Accs(E) : second = Pass(first, deferred)
  BY <1>4, PassKeeps
<1>7. Replayed(E) = second
  BY <1>2, <1>3, <1>5, <1>6 DEF Replayed, Settled
<1>8. QED BY <1>7 DEF Full, Accs

(* Without an overtaken promotion the deferred conflicts change no value.      *)
LEMMA NothingSettled ==
  \A E : clock \in Nat /\ Orderly(E) /\ ~Beyond(E) => Full(E).record = Reduced(E).record
<1> SUFFICES ASSUME NEW E, clock \in Nat, Orderly(E), ~Beyond(E)
             PROVE  Full(E).record = Reduced(E).record
  OBVIOUS
<1>1. PICK f : Replays(E, f) /\ Reduced(E) = f[clock]
  BY ReducedReplays
<1>2. PICK acc : acc = Reduced(E)
  OBVIOUS
<1>3. acc \in Accs(E) /\ Calm(acc, clock)
  <2>1. PICK c \in Nat : c = clock
    OBVIOUS
  <2>2. f[c] \in Accs(E) /\ Calm(f[c], c)
    BY <1>1, ReplayCalm DEF Replays
  <2>3. QED BY <1>1, <1>2, <2>1, <2>2
<1>4. PICK deferred : deferred = {p \in acc.pending : p.cand \notin Decided(E)}
  OBVIOUS
<1>5. deferred \in SUBSET Conflicts(E) /\ Early(deferred, acc)
  BY <1>3, <1>4 DEF Calm, Accs, Early
<1>6. PICK first : first = Pass(acc, deferred)
  OBVIOUS
<1>7. first \in Accs(E) /\ first.record = acc.record
  BY <1>3, <1>5, <1>6, PassKeeps
<1>8. PICK second : second = Pass(first, deferred)
  OBVIOUS
<1>9. second.record = acc.record
  BY <1>5, <1>7, <1>8, PassKeeps DEF Early
<1>10. Replayed(E) = second
  BY <1>2, <1>4, <1>6, <1>8 DEF Replayed, Settled
<1>11. Full(E).record = Replayed(E).record
  BY DEF Full
<1>12. QED BY <1>2, <1>9, <1>10, <1>11
-----------------------------------------------------------------------------
UpTo(s, n) == {s[i] : i \in 1..n}
Snapshots(E) == [through : Nat, record : Words(E), cursor : Nat, kept : BOOLEAN]

LEMMA ReducedTyped ==
  ASSUME clock \in Nat, NEW E
  PROVE  Reduced(E) \in Accs(E)
<1>1. PICK f : Replays(E, f) /\ Reduced(E) = f[clock]
  BY ReducedReplays
<1>2. QED BY <1>1 DEF Replays

(* Where the incremental path does not fall back it does what a replay does.   *)
LEMMA FastIsApply ==
  ASSUME NEW E, Orderly(E), NEW e \in E, NEW acc \in Snapshots(E)
  PROVE  /\ FastApply(acc, e) \in Snapshots(E)
         /\ FastApply(acc, e).kept =>
              /\ acc.kept /\ acc.cursor <= e.at /\ FastApply(acc, e).cursor = e.at
              /\ \A r \in Accs(E) : r.record = acc.record =>
                                    Apply(r, e).record = FastApply(acc, e).record
<1>1. e.at \in Nat /\ e.kind \in {"assert", "promote", "reject"} /\ e \in Words(E)
  BY DEF Orderly, Words
<1>2. PICK current : current = acc.record
  OBVIOUS
<1>3. PICK same : same = [acc EXCEPT !.cursor = e.at]
  OBVIOUS
<1>4. PICK taken : taken = [acc EXCEPT !.record = e, !.cursor = e.at]
  OBVIOUS
<1>5. PICK gone : gone = [acc EXCEPT !.kept = FALSE]
  OBVIOUS
<1>6. same \in Snapshots(E) /\ same.cursor = e.at /\ same.kept = acc.kept /\ same.record = current
  BY <1>1, <1>2, <1>3 DEF Snapshots
<1>7. taken \in Snapshots(E) /\ taken.cursor = e.at /\ taken.kept = acc.kept /\ taken.record = e
  BY <1>1, <1>4 DEF Snapshots
<1>8. gone \in Snapshots(E) /\ gone.kept = FALSE
  BY <1>5 DEF Snapshots
<1>9. CASE ~acc.kept \/ e.at < acc.cursor \/ IsDecision(e)
  <2>1. FastApply(acc, e) = gone
    BY <1>5, <1>9 DEF FastApply
  <2>2. QED BY <2>1, <1>8
<1>10. CASE ~(~acc.kept \/ e.at < acc.cursor \/ IsDecision(e))
  <2>1. acc.kept /\ acc.cursor <= e.at /\ e.kind = "assert"
    BY <1>1, <1>10 DEF IsDecision, Snapshots
  <2>2. CASE current # NoEvent /\ (Older(e, current) \/ e.value = current.value)
    <3>1. FastApply(acc, e) = same
      BY <1>2, <1>3, <1>10, <2>2 DEF FastApply
    <3>2. ASSUME NEW r \in Accs(E), r.record = current PROVE Apply(r, e).record = current
      <4>1. CASE Older(e, current)
        <5>1. Apply(r, e) = Superseded(r, e)
          BY <4>1, <3>2, <2>1, <2>2 DEF Apply
        <5>2. QED BY <5>1, <3>2, ReplaceTyped
      <4>2. CASE ~Older(e, current)
        <5>1. Apply(r, e) = r
          BY <4>2, <3>2, <2>1, <2>2 DEF Apply
        <5>2. QED BY <5>1, <3>2
      <4>3. QED BY <4>1, <4>2
    <3>3. QED BY <3>1, <3>2, <2>1, <1>2, <1>6
  <2>3. CASE ~(current # NoEvent /\ (Older(e, current) \/ e.value = current.value))
             /\ (current = NoEvent \/ Prevails(e, current))
    <3>1. FastApply(acc, e) = taken
      BY <1>2, <1>4, <1>10, <2>3 DEF FastApply
    <3>2. ASSUME NEW r \in Accs(E), r.record = current PROVE Apply(r, e).record = e
      <4>1. CASE current = NoEvent
        <5>1. Apply(r, e) = [r EXCEPT !.record = e]
          BY <4>1, <3>2, <2>1 DEF Apply
        <5>2. QED BY <5>1 DEF Accs
      <4>2. CASE current # NoEvent
        <5>1. Apply(r, e) = Replace(r, e)
          BY <4>2, <3>2, <2>1, <2>3 DEF Apply
        <5>2. QED BY <5>1, ReplaceTyped
      <4>3. QED BY <4>1, <4>2
    <3>3. QED BY <3>1, <3>2, <2>1, <1>2, <1>7
  <2>4. CASE ~(current # NoEvent /\ (Older(e, current) \/ e.value = current.value))
             /\ ~(current = NoEvent \/ Prevails(e, current))
    <3>1. FastApply(acc, e) = gone
      BY <1>2, <1>5, <1>10, <2>4 DEF FastApply
    <3>2. QED BY <3>1, <1>8
  <2>5. QED BY <2>2, <2>3, <2>4
<1>11. QED BY <1>9, <1>10

(* The incremental path over the tail, event by event.                         *)
FastCourse(s, k) ==
  k = [i \in snapshot.through..Len(s) |->
         IF i = snapshot.through THEN snapshot ELSE FastApply(k[i - 1], s[i])]

LEMMA FastCourseTyped ==
  ASSUME NEW E, Orderly(E), NEW s \in Seq(E), snapshot \in Snapshots(E),
         NEW k, FastCourse(s, k), NEW N \in snapshot.through..Len(s)
  PROVE  k[N] \in Snapshots(E)
<1>1. PICK a \in Nat, L \in Nat : a = snapshot.through /\ L = Len(s)
  BY DEF Snapshots
<1>2. PICK h : h = k
  OBVIOUS
<1>3. k = [i \in a..L |-> IF i = a THEN snapshot ELSE FastApply(h[i - 1], s[i])]
  BY <1>1, <1>2 DEF FastCourse
<1> DEFINE T == {n \in Nat : n \in a..L => k[n] \in Snapshots(E)}
<1>4. 0 \in T
  BY <1>3
<1>5. ASSUME NEW n \in Nat, n \in T PROVE n + 1 \in T
  <2>1. PICK m \in Nat : m = n + 1 /\ m - 1 = n
    OBVIOUS
  <2>2. CASE m \in a..L /\ m # a
    <3>1. n \in a..L /\ m \in 1..L
      BY <2>1, <2>2
    <3>2. k[n] \in Snapshots(E) /\ s[m] \in E
      BY <3>1, <1>1, <1>5
    <3>3. k[m] = FastApply(k[n], s[m])
      BY <2>1, <2>2, <1>2, <1>3
    <3>4. QED BY <2>1, <3>2, <3>3, FastIsApply
  <2>3. CASE m \in a..L /\ m = a
    <3>1. k[m] = snapshot
      BY <1>3, <2>3
    <3>2. QED BY <2>1, <3>1
  <2>4. QED BY <2>1, <2>2, <2>3
<1>6. Nat \subseteq T
  <2> HIDE DEF T
  <2> QED BY <1>4, <1>5, Induction
<1>7. QED BY <1>1, <1>6

LEMMA FastIsCourse ==
  ASSUME NEW E, Orderly(E), NEW s \in Seq(E), snapshot \in Snapshots(E),
         snapshot.through <= Len(s)
  PROVE  \E k : FastCourse(s, k) /\ Fast(s) = k[Len(s)]
<1>1. PICK a \in Nat, L \in Nat : a = snapshot.through /\ L = Len(s) /\ a <= L
  BY DEF Snapshots
<1>2. PICK g : g = [y \in Nat \X Snapshots(E) |->
                      IF y[1] \in 1 .. L - a THEN FastApply(y[2], s[a + y[1]]) ELSE y[2]]
  OBVIOUS
<1>3. PICK f : Recurs(f, snapshot, g)
  BY Recursion
<1>4. ASSUME NEW n \in Nat, NEW x \in Snapshots(E)
      PROVE  g[<<n, x>>] = IF n \in 1 .. L - a THEN FastApply(x, s[a + n]) ELSE x
  <2>1. PICK y : y = <<n, x>>
    OBVIOUS
  <2>2. y \in Nat \X Snapshots(E) /\ y[1] = n /\ y[2] = x
    BY <2>1
  <2>3. QED BY <1>2, <2>1, <2>2
<1>5. ASSUME NEW n \in Nat, NEW x \in Snapshots(E) PROVE g[<<n, x>>] \in Snapshots(E)
  <2>1. CASE n \in 1 .. L - a
    <3>1. PICK m \in 1..L : m = a + n
      BY <2>1
    <3>2. s[m] \in E
      BY <1>1, <3>1
    <3>3. g[<<n, x>>] = FastApply(x, s[m])
      BY <1>4, <2>1, <3>1
    <3>4. QED BY <3>2, <3>3, FastIsApply
  <2>2. CASE n \notin 1 .. L - a
    BY <2>2, <1>4
  <2>3. QED BY <2>1, <2>2
<1>6. PICK h : h = f
  OBVIOUS
<1>7. f = [t \in Nat |-> IF t = 0 THEN snapshot ELSE g[<<t, h[t - 1]>>]]
  BY <1>3, <1>6 DEF Recurs
<1> DEFINE T == {n \in Nat : f[n] \in Snapshots(E)}
<1>8. 0 \in T
  BY <1>7
<1>9. ASSUME NEW n \in Nat, n \in T PROVE n + 1 \in T
  <2>1. PICK m \in Nat : m = n + 1 /\ m # 0 /\ m - 1 = n
    OBVIOUS
  <2>2. f[m] = g[<<m, h[n]>>]
    BY <1>7, <2>1
  <2>3. f[n] \in Snapshots(E)
    BY <1>9
  <2>4. QED BY <2>1, <2>2, <2>3, <1>5, <1>6
<1>10. \A n \in Nat : f[n] \in Snapshots(E)
  <2>1. Nat \subseteq T
    <3> HIDE DEF T
    <3> QED BY <1>8, <1>9, Induction
  <2>2. QED BY <2>1
<1> HIDE DEF T
<1>11. PICK F : F = [i \in a..L |-> f[i - a]]
  OBVIOUS
<1>12. ASSUME NEW i \in a..L
       PROVE  F[i] = IF i = a THEN snapshot ELSE FastApply(F[i - 1], s[i])
  <2>1. CASE i = a
    <3>1. F[i] = f[0]
      BY <1>11, <2>1
    <3>2. QED BY <3>1, <2>1, <1>7
  <2>2. CASE i # a
    <3>1. PICK t \in Nat : t = i - a /\ t # 0 /\ t \in 1 .. L - a /\ a + t = i
      BY <2>2
    <3>2. PICK u \in Nat : u = t - 1 /\ i - 1 \in a..L /\ (i - 1) - a = u
      BY <3>1
    <3>3. F[i] = f[t] /\ F[i - 1] = f[u]
      BY <1>11, <3>1, <3>2
    <3>4. f[t] = g[<<t, h[u]>>]
      BY <1>7, <3>1, <3>2
    <3>5. f[t] = FastApply(f[u], s[i])
      BY <3>4, <3>1, <1>4, <1>6, <1>10
    <3>6. QED BY <3>3, <3>5, <2>2
  <2>3. QED BY <2>1, <2>2
<1>13. PICK G : G = [i \in a..L |-> IF i = a THEN snapshot ELSE FastApply(F[i - 1], s[i])]
  OBVIOUS
<1>14. F = G
  <2>1. \A i \in a..L : F[i] = G[i]
    BY <1>12, <1>13
  <2>2. F = [i \in a..L |-> F[i]] /\ G = [i \in a..L |-> G[i]]
    BY <1>11, <1>13
  <2>3. QED BY <2>1, <2>2
<1>15. FastCourse(s, F)
  BY <1>1, <1>13, <1>14 DEF FastCourse
<1>16. PICK K : K = CHOOSE k : FastCourse(s, k)
  OBVIOUS
<1>17. FastCourse(s, K)
  BY <1>15, <1>16
<1>18. Fast(s) = K[Len(s)]
  BY <1>16 DEF Fast, FastCourse
<1>19. QED BY <1>17, <1>18

(* A tail that is taken up gives the record of a replay, if the snapshot did.  *)
LEMMA FastRight ==
  ASSUME clock \in Nat, NEW E, Orderly(E), NEW s \in Seq(E),
         \A i \in 1..Len(s) : s[i].at \in 1..clock,
         \A i, j \in 1..Len(s) : i # j => s[i].at # s[j].at,
         snapshot \in Snapshots(E), snapshot.through <= Len(s),
         snapshot.kept => \A i \in 1..snapshot.through : s[i].at <= snapshot.cursor
  PROVE  /\ Fast(s) \in Snapshots(E)
         /\ Fast(s).kept =>
              /\ snapshot.kept /\ \A i \in 1..Len(s) : s[i].at <= Fast(s).cursor
              /\ snapshot.record = Reduced(UpTo(s, snapshot.through)).record
                 => Fast(s).record = Reduced(UpTo(s, Len(s))).record
<1>1. PICK a \in Nat, L \in Nat : a = snapshot.through /\ L = Len(s) /\ a <= L
  BY DEF Snapshots
<1>2. PICK k : FastCourse(s, k) /\ Fast(s) = k[Len(s)]
  BY FastIsCourse
<1>3. PICK h : h = k
  OBVIOUS
<1>4. k = [i \in a..L |-> IF i = a THEN snapshot ELSE FastApply(h[i - 1], s[i])]
  BY <1>1, <1>2, <1>3 DEF FastCourse
<1>5. \A n \in a..L : k[n] \in Snapshots(E)
  BY <1>1, <1>2, FastCourseTyped
<1>6. PICK whole : whole = (snapshot.record = Reduced(UpTo(s, a)).record)
  OBVIOUS
<1> DEFINE Right(n) == k[n].kept => /\ snapshot.kept
                                    /\ \A i \in 1..n : s[i].at <= k[n].cursor
                                    /\ whole => k[n].record = Reduced(UpTo(s, n)).record
           T == {n \in Nat : n \in a..L => Right(n)}
<1>7. k[a] = snapshot
  BY <1>1, <1>4
<1>8. Right(a)
  BY <1>1, <1>6, <1>7
<1>9. 0 \in T
  <2>1. 0 \in a..L => a = 0
    BY <1>1
  <2> HIDE DEF Right
  <2>2. QED BY <2>1, <1>8
<1>10. ASSUME NEW n \in Nat, n \in T PROVE n + 1 \in T
  <2>1. PICK m \in Nat : m = n + 1 /\ m - 1 = n
    OBVIOUS
  <2>2. CASE m \in a..L /\ m # a
    <3>1. n \in a..L /\ m \in 1..L
      BY <2>1, <2>2
    <3>2. PICK e \in E : e = s[m]
      BY <1>1, <3>1
    <3>3. PICK x \in Snapshots(E), y \in Snapshots(E) : x = k[n] /\ y = k[m]
      BY <3>1, <2>2, <1>5
    <3>4. y = FastApply(x, e)
      BY <2>1, <2>2, <1>3, <1>4, <3>2, <3>3
    <3>5. SUFFICES ASSUME y.kept PROVE Right(m)
      BY <2>1, <3>3
    <3>6. /\ x.kept /\ x.cursor <= e.at /\ y.cursor = e.at
          /\ \A r \in Accs(E) : r.record = x.record => Apply(r, e).record = y.record
      BY <3>4, <3>5, FastIsApply
    <3>7. /\ snapshot.kept /\ \A i \in 1..n : s[i].at <= x.cursor
          /\ whole => x.record = Reduced(UpTo(s, n)).record
      BY <3>1, <3>3, <3>6, <1>10
    <3>8. x.cursor \in Nat /\ e.at \in 1..clock
      BY <1>1, <3>1, <3>2 DEF Snapshots
    <3>9. ASSUME NEW i \in 1..m PROVE s[i].at <= y.cursor
      <4>1. CASE i = m
        BY <4>1, <3>2, <3>6, <3>8
      <4>2. CASE i # m
        <5>1. i \in 1..n /\ i \in 1..L
          BY <4>2, <2>1, <3>1
        <5>2. s[i].at \in 1..clock /\ s[i].at <= x.cursor
          BY <5>1, <3>7, <1>1
        <5>3. QED BY <5>2, <3>6, <3>8
      <4>3. QED BY <4>1, <4>2
    <3>10. ASSUME whole PROVE y.record = Reduced(UpTo(s, m)).record
      <4>1. PICK B : B = UpTo(s, n)
        OBVIOUS
      <4>2. UpTo(s, m) = B \union {e}
        <5>1. 1..m = 1..n \union {m}
          BY <2>1
        <5>2. QED BY <5>1, <4>1, <3>2 DEF UpTo
      <4>3. ASSUME NEW d \in B PROVE d.at \in 1..clock /\ d.at < e.at
        <5>1. PICK i \in 1..n : d = s[i]
          BY <4>1 DEF UpTo
        <5>2. i \in 1..L /\ i # m
          BY <2>1, <3>1
        <5>3. d.at \in 1..clock /\ d.at # e.at
          BY <5>1, <5>2, <1>1, <3>1, <3>2
        <5>4. d.at <= x.cursor
          BY <5>1, <3>7
        <5>5. QED BY <5>3, <5>4, <3>6, <3>8
      <4>4. Reduced(B \union {e}) = Apply(Reduced(B), e)
        BY <4>3, <3>8, SaidLast
      <4>5. Reduced(B) \in Accs(E)
        <5>1. B \subseteq E
          <6>1. 1..n \subseteq 1..L
            BY <3>1
          <6>2. QED BY <6>1, <1>1, <4>1 DEF UpTo
        <5>2. Accs(B) \subseteq Accs(E)
          <6>1. Words(B) \subseteq Words(E) /\ Instants(B) \subseteq Instants(E)
            BY <5>1 DEF Words, Instants
          <6>2. Conflicts(B) \subseteq Conflicts(E)
            BY <5>1, <6>1 DEF Conflicts
          <6>3. Instants(B) \X Instants(B) \subseteq Instants(E) \X Instants(E)
            BY <6>1
          <6>4. SUBSET Instants(B) \subseteq SUBSET Instants(E)
            BY <6>1
          <6>5. QED
            <7>1. /\ SUBSET (SUBSET Instants(B)) \subseteq SUBSET (SUBSET Instants(E))
                  /\ SUBSET Conflicts(B) \subseteq SUBSET Conflicts(E)
                  /\ SUBSET (Instants(B) \X Instants(B)) \subseteq SUBSET (Instants(E) \X Instants(E))
              BY <6>2, <6>3, <6>4
            <7>2. QED BY <6>1, <7>1 DEF Accs
        <5>3. QED BY <5>2, ReducedTyped
      <4>6. PICK r \in Accs(E) : r = Reduced(B)
        BY <4>5
      <4>7. r.record = x.record
        BY <4>1, <4>6, <3>7, <3>10
      <4>8. Apply(r, e).record = y.record
        BY <4>7, <3>6
      <4>9. QED BY <4>2, <4>4, <4>6, <4>8
    <3>11. QED BY <3>3, <3>7, <3>9, <3>10
  <2>3. CASE m \in a..L /\ m = a
    <3> HIDE DEF Right
    <3>1. QED BY <2>1, <2>3, <1>8
  <2>4. CASE m \notin a..L
    BY <2>1, <2>4
  <2> HIDE DEF Right
  <2>5. QED BY <2>2, <2>3, <2>4, <2>1
<1>11. Nat \subseteq T
  <2> HIDE DEF T
  <2> QED BY <1>9, <1>10, Induction
<1>12. Right(L)
  <2> HIDE DEF Right
  <2>1. L \in a..L
    BY <1>1
  <2>2. QED BY <2>1, <1>11
<1>13. Fast(s) = k[L] /\ k[L] \in Snapshots(E)
  BY <1>1, <1>2, <1>5
<1>14. QED BY <1>1, <1>6, <1>12, <1>13
-----------------------------------------------------------------------------
LEMMA ApplyAgain ==
  ASSUME register' = register
  PROVE  \A x, e : Apply(x, e)' = Apply(x, e)
BY DEF Apply, Prevails, Precedes

LEMMA ReplaysAgain ==
  ASSUME register' = register, NEW E, NEW f
  PROVE  Replays(E, f)' => Replays(E, f)
<1>1. ASSUME NEW x, NEW said PROVE Heard(x, said)' = Heard(x, said)
  BY ApplyAgain DEF Heard
<1>2. ASSUME NEW n \in Nat, Replays(E, f)' PROVE f[n + 1] = Heard(f[n], SaidAt(E, n + 1))
  <2>1. PICK said : said = SaidAt(E, n + 1)
    OBVIOUS
  <2>2. f[n + 1] = Heard(f[n], said)'
    BY <1>2, <2>1 DEF Replays
  <2>3. QED BY <2>1, <2>2, <1>1
<1>3. Replays(E, f)' => f \in [Nat -> Accs(E)] /\ f[0] = Start
  BY DEF Replays
<1>4. QED BY <1>2, <1>3 DEF Replays

LEMMA ReducedReplaysThen == (\A E : \E f : Replays(E, f) /\ Reduced(E) = f[clock])'
  BY ReducedReplays, PTL

(* What was logged is reduced to the same as time goes by.                     *)
LEMMA ReducedAgain ==
  ASSUME clock \in Nat, clock' \in Nat, clock <= clock', register' = register,
         NEW E, \A e \in E : e.at \in 1..clock
  PROVE  Reduced(E)' = Reduced(E)
<1>1. PICK f : Replays(E, f) /\ Reduced(E) = f[clock]
  BY ReducedReplays
<1>2. PICK g : Replays(E, g)' /\ Reduced(E)' = g[clock']
  BY ReducedReplaysThen
<1>3. Replays(E, g)
  BY <1>2, ReplaysAgain
<1>4. PICK c \in Nat, d \in Nat : c = clock /\ d = clock' /\ c <= d
  OBVIOUS
<1>5. f[d] = g[d]
  BY <1>1, <1>3, Agree
<1>6. \A n \in Nat : c < n => SaidAt(E, n) = {}
  BY <1>4 DEF SaidAt
<1>7. f[d] = f[c]
  BY <1>1, <1>4, <1>6, Still
<1>8. QED BY <1>1, <1>2, <1>4, <1>5, <1>7

(* A set of instants has a last one.                                           *)
LEMMA LastInstant ==
  ASSUME NEW N \in Nat, NEW S \in SUBSET (0..N), S # {}
  PROVE  Max(S) \in S /\ \A n \in S : n <= Max(S)
<1>1. PICK T : T = {N - n : n \in S}
  OBVIOUS
<1>2. T \in SUBSET Nat /\ T # {}
  <2>1. \A n \in S : N - n \in Nat
    OBVIOUS
  <2>2. QED BY <1>1, <2>1
<1>3. PICK t \in T : \A u \in T : t <= u
  BY <1>2, LeastNumber
<1>4. PICK m \in S : t = N - m
  BY <1>1, <1>3
<1>5. ASSUME NEW n \in S PROVE m >= n
  <2>1. N - n \in T
    BY <1>1
  <2>2. N - m <= N - n
    BY <2>1, <1>3, <1>4
  <2>3. QED BY <2>2
<1>6. \E x \in S : \A y \in S : x >= y
  BY <1>5
<1>7. Max(S) \in S /\ \A y \in S : Max(S) >= y
  BY <1>6 DEF Max
<1>8. QED BY <1>7

-----------------------------------------------------------------------------
(* The invariant: what is written and where it is, that sessions go forward,   *)
(* and that the snapshot and the published record are those of a replay.       *)
OnDesk == {desk[o] : o \in Operator} \ {NoEvent}
Around == staged \union queue \union Logged \union OnDesk

Lived(e, tr) == /\ e.session \in Session /\ e.epoch \in Nat /\ e.n \in Nat
                  /\ \/ e.epoch < tr[e.session].epoch
                     \/ e.epoch = tr[e.session].epoch /\ e.n <= tr[e.session].n

Known(e, c, tr) == /\ e.at \in 1..c /\ e.kind \in {"assert", "promote", "reject"}
                   /\ e.kind = "assert" => Lived(e, tr)
Apart(A) == \A d, e \in A : d.at = e.at => d = e
Onward(A) ==
  \A d, e \in A : d.kind = "assert" /\ e.kind = "assert" /\ d.at < e.at => ~Later(d, e)
Told(A, c, tr) == (\A e \in A : Known(e, c, tr)) /\ Apart(A) /\ Onward(A)

Turns == [Session -> [epoch : Nat, n : Nat]]
Written == /\ clock \in Nat /\ ledger \in Seq(Logged) /\ IsFiniteSet(queue)
           /\ turn \in Turns /\ desk = [o \in Operator |-> desk[o]]
           /\ Told(Around, clock, turn)

Placed == /\ \A e \in staged : e.kind = "assert" /\ e \notin queue \union Logged
          /\ queue \intersect Logged = {}
          /\ \A o \in Operator : desk[o] # NoEvent =>
               /\ desk[o].kind # "assert" /\ desk[o] \notin queue \union Logged
               /\ \A p \in Operator : o # p => desk[o] # desk[p]
          /\ \A i, j \in 1..Len(ledger) : i # j => ledger[i] # ledger[j]

Trusted == /\ snapshot \in Snapshots(Logged) /\ snapshot.through <= Len(ledger)
           /\ snapshot.kept =>
                /\ \A i \in 1..snapshot.through : ledger[i].at <= snapshot.cursor
                /\ Overtaken \/ snapshot.record = Reduced(UpTo(ledger, snapshot.through)).record

Current == Overtaken \/ published.record = Reduced(Logged).record

ReplayInv == Written /\ Placed /\ Trusted /\ Current

LEMMA ToldOrderly ==
  ASSUME NEW A, NEW c \in Nat, NEW tr, Told(A, c, tr), NEW E \in SUBSET A
  PROVE  Orderly(E) /\ \A e \in E : e.at \in 1..c
<1>1. ASSUME NEW e \in E PROVE e.at \in 1..c /\ e.kind \in {"assert", "promote", "reject"}
  BY DEF Told, Known
<1>2. ASSUME NEW d \in E, NEW e \in E, d.kind = "assert", e.kind = "assert", d.at < e.at
      PROVE  ~Later(d, e)
  BY <1>2 DEF Told, Onward
<1>3. \A e \in E : e.at \in Nat
  BY <1>1
<1>4. QED BY <1>1, <1>2, <1>3 DEF Orderly

LEMMA LoggedOrderly ==
  ASSUME Written
  PROVE  Orderly(Logged) /\ \A e \in Logged : e.at \in 1..clock
<1>1. Logged \in SUBSET Around
  BY DEF Around
<1>2. QED BY <1>1, ToldOrderly DEF Written

LEMMA OvertakenBeyond == Overtaken <=> Beyond(Logged)
BY DEF Overtaken, Beyond

LEMMA InvGivesReplay == ReplayInv => ValueIsReplay
<1> SUFFICES ASSUME ReplayInv PROVE ValueIsReplay
  OBVIOUS
<1>1. CASE Overtaken
  BY <1>1 DEF ValueIsReplay
<1>2. CASE ~Overtaken
  <2>1. Orderly(Logged) /\ clock \in Nat /\ ~Beyond(Logged)
    BY <1>2, LoggedOrderly, OvertakenBeyond DEF ReplayInv, Written
  <2>2. Full(Logged).record = Reduced(Logged).record
    <3>1. PICK E : E = Logged
      OBVIOUS
    <3>2. Full(E).record = Reduced(E).record
      BY <2>1, <3>1, NothingSettled
    <3>3. QED BY <3>1, <3>2
  <2>3. QED BY <1>2, <2>2 DEF ReplayInv, Current, ValueIsReplay
<1>3. QED BY <1>1, <1>2

LEMMA InitReplay == ReducerInit => ReplayInv
<1> SUFFICES ASSUME ReducerInit PROVE ReplayInv
  OBVIOUS
<1>1. Logged = {} /\ staged = {} /\ queue = {} /\ OnDesk = {} /\ Around = {}
  BY DEF ReducerInit, Logged, Range, OnDesk, Around
<1>2. Written
  <2>1. ledger = <<>> /\ ledger \in Seq(Logged)
    BY DEF ReducerInit
  <2>2. IsFiniteSet(queue)
    BY <1>1, FS_EmptySet
  <2>3. turn \in Turns
    BY DEF ReducerInit, Turns
  <2>4. clock \in Nat /\ desk = [o \in Operator |-> desk[o]]
    BY DEF ReducerInit
  <2>5. QED BY <1>1, <2>1, <2>2, <2>3, <2>4 DEF Written, Told, Apart, Onward
<1>3. Placed
  BY <1>1 DEF Placed, ReducerInit
<1>5. Trusted
  BY <1>1 DEF Trusted, ReducerInit, NoSnapshot, Snapshots, Words
<1>6. Current
  <2>1. PICK E : E = Logged
    OBVIOUS
  <2>2. PICK f : Replays(E, f) /\ Reduced(E) = f[clock]
    BY ReducedReplays
  <2>3. Reduced(E) = Start
    BY <2>2 DEF Replays, ReducerInit
  <2>4. Reduced(Logged).record = NoEvent
    BY <2>1, <2>3 DEF Start
  <2>5. published.record = NoEvent
    BY DEF ReducerInit, Nothing
  <2>6. QED BY <2>4, <2>5 DEF Current
<1>7. QED BY <1>2, <1>3, <1>5, <1>6 DEF ReplayInv

-----------------------------------------------------------------------------
LEMMA ToldFewer ==
  ASSUME NEW A, NEW c, NEW tr, Told(A, c, tr), NEW B \in SUBSET A
  PROVE  Told(B, c, tr)
BY DEF Told, Apart, Onward

LEMMA ToldMore ==
  ASSUME NEW A, NEW c \in Nat, NEW tr, Told(A, c, tr), NEW ts,
         \A e : Lived(e, tr) => Lived(e, ts),
         NEW x, x.at = c + 1, x.kind \in {"assert", "promote", "reject"},
         x.kind = "assert" => /\ Lived(x, ts)
                              /\ \A d \in A : d.kind = "assert" => ~Later(d, x)
  PROVE  Told(A \union {x}, c + 1, ts)
<1>1. ASSUME NEW e \in A
      PROVE  /\ e.at \in 1..c /\ e.kind \in {"assert", "promote", "reject"}
             /\ e.kind = "assert" => Lived(e, ts)
             /\ e.at \in 1 .. c + 1 /\ e.at < x.at /\ ~(x.at < e.at)
  <2>1. /\ e.at \in 1..c /\ e.kind \in {"assert", "promote", "reject"}
        /\ e.kind = "assert" => Lived(e, tr)
    BY DEF Told, Known
  <2>2. e.at \in 1 .. c + 1 /\ e.at < x.at /\ ~(x.at < e.at)
    BY <2>1
  <2>3. QED BY <2>1, <2>2
<1>2. x.at \in 1 .. c + 1 /\ ~(x.at < x.at)
  OBVIOUS
<1>3. ASSUME NEW e \in A \union {x}
      PROVE  /\ e.at \in 1 .. c + 1 /\ e.kind \in {"assert", "promote", "reject"}
             /\ e.kind = "assert" => Lived(e, ts)
  <2>1. CASE e = x
    BY <2>1, <1>2
  <2>2. CASE e # x
    BY <2>2, <1>1
  <2>3. QED BY <2>1, <2>2
<1>4. ASSUME NEW d \in A \union {x}, NEW e \in A \union {x}
      PROVE  /\ d.at = e.at => d = e
             /\ d.kind = "assert" /\ e.kind = "assert" /\ d.at < e.at => ~Later(d, e)
  <2>1. CASE d \in A /\ e \in A
    BY <2>1 DEF Told, Apart, Onward
  <2>2. CASE d = x /\ e = x
    BY <2>2, <1>2
  <2>3. CASE d = x /\ e \in A
    BY <2>3, <1>1
  <2>4. CASE d \in A /\ e = x
    BY <2>4, <1>1
  <2>5. QED BY <2>1, <2>2, <2>3, <2>4
<1>5. QED BY <1>3, <1>4 DEF Told, Known, Apart, Onward

(* Where nothing is projected, the snapshot and what is published stay right.  *)
LEMMA SameLedger ==
  ASSUME ReplayInv, ledger' = ledger, snapshot' = snapshot, published' = published,
         register' = register, clock' \in {clock, clock + 1}
  PROVE  Trusted' /\ Current'
<1>1. Logged' = Logged /\ Overtaken' = Overtaken
  BY DEF Logged, Overtaken
<1>2. clock \in Nat /\ clock' \in Nat /\ clock <= clock'
  BY DEF ReplayInv, Written
<1>3. \A e \in Logged : e.at \in 1..clock
  BY LoggedOrderly DEF ReplayInv
<1>4. Reduced(Logged)' = Reduced(Logged)
  <2>1. PICK E : E = Logged
    OBVIOUS
  <2>2. Reduced(E)' = Reduced(E)
    BY <1>2, <1>3, <2>1, ReducedAgain
  <2>3. QED BY <1>1, <2>1, <2>2
<1>5. ASSUME snapshot.kept
      PROVE  Reduced(UpTo(ledger, snapshot.through))' = Reduced(UpTo(ledger, snapshot.through))
  <2>1. PICK E : E = UpTo(ledger, snapshot.through)
    OBVIOUS
  <2>2. E \subseteq Logged
    <3>1. ledger \in Seq(Logged) /\ snapshot.through \in Nat /\ snapshot.through <= Len(ledger)
      BY DEF ReplayInv, Written, Trusted, Snapshots
    <3>2. \A i \in 1..snapshot.through : ledger[i] \in Logged
      BY <3>1
    <3>3. QED BY <2>1, <3>2 DEF UpTo
  <2>3. Reduced(E)' = Reduced(E)
    BY <1>2, <1>3, <2>2, ReducedAgain
  <2>4. UpTo(ledger, snapshot.through)' = E
    BY <2>1 DEF UpTo
  <2>5. QED BY <2>1, <2>3, <2>4
<1>6. Trusted'
  BY <1>1, <1>5 DEF ReplayInv, Trusted
<1>7. Current'
  BY <1>1, <1>4 DEF ReplayInv, Current
<1>8. QED BY <1>6, <1>7

LEMMA ObserveKeeps ==
  ASSUME ReplayInv, NEW s \in Session, NEW v \in Value, Observe(s, v)
  PROVE  ReplayInv'
<1>0. PICK t \in {turn[s], [turn[s] EXCEPT !.n = @ + 1], [epoch |-> turn[s].epoch + 1, n |-> 1]} :
             /\ turn' = [turn EXCEPT ![s] = t]
             /\ staged' = staged \union {[at |-> clock', kind |-> "assert", session |-> s,
                                          epoch |-> t.epoch, n |-> t.n, value |-> v]}
  BY DEF Observe
<1>1. PICK x : /\ x = [at |-> clock', kind |-> "assert", session |-> s,
                        epoch |-> t.epoch, n |-> t.n, value |-> v]
                /\ turn' = [turn EXCEPT ![s] = t] /\ staged' = staged \union {x}
  BY <1>0
<1>2. /\ clock' = clock + 1 /\ register' = register /\ queue' = queue /\ ledger' = ledger
      /\ snapshot' = snapshot /\ published' = published /\ desk' = desk
  BY DEF Observe
<1>3. Trusted' /\ Current'
  BY <1>2, SameLedger
<1>4. Logged' = Logged /\ OnDesk' = OnDesk
  BY <1>2 DEF Logged, OnDesk
<1>5. Around' = Around \union {x}
  BY <1>1, <1>2, <1>4 DEF Around
<1>6. /\ clock \in Nat /\ turn \in Turns /\ Told(Around, clock, turn)
  BY DEF ReplayInv, Written
<1>7. PICK A : A = Around
  OBVIOUS
<1>7a. PICK c \in Nat, tr \in Turns : c = clock /\ tr = turn
  BY <1>6
<1>8. PICK ts : ts = [tr EXCEPT ![s] = t]
  OBVIOUS
<1>9. /\ tr[s] \in [epoch : Nat, n : Nat] /\ t \in [epoch : Nat, n : Nat]
      /\ \/ t.epoch = tr[s].epoch /\ tr[s].n <= t.n
         \/ t.epoch = tr[s].epoch + 1
  <2>1. tr[s] \in [epoch : Nat, n : Nat]
    BY DEF Turns
  <2>2. QED BY <1>1, <1>7, <1>7a, <2>1
<1>10. ts \in Turns /\ ts[s] = t /\ \A u \in Session : u # s => ts[u] = tr[u]
  BY <1>8, <1>9 DEF Turns
<1>11. ASSUME NEW e, Lived(e, tr) PROVE Lived(e, ts)
  <2>1. /\ e.session \in Session /\ e.epoch \in Nat /\ e.n \in Nat
        /\ tr[e.session].epoch \in Nat /\ tr[e.session].n \in Nat
    BY <1>11 DEF Lived, Turns
  <2>2. CASE e.session = s
    BY <1>9, <1>10, <1>11, <2>1, <2>2 DEF Lived
  <2>3. CASE e.session # s
    BY <1>10, <1>11, <2>1, <2>3 DEF Lived
  <2>4. QED BY <2>2, <2>3
<1>12. /\ x.at = c + 1 /\ x.kind = "assert" /\ x.session = s /\ x.epoch = t.epoch /\ x.n = t.n
  BY <1>1, <1>2, <1>7, <1>7a
<1>13. Lived(x, ts)
  BY <1>9, <1>10, <1>12 DEF Lived
<1>14. ASSUME NEW d \in A, d.kind = "assert" PROVE ~Later(d, x)
  <2>1. Lived(d, tr)
    <3>1. d \in Around /\ Told(Around, clock, turn)
      BY <1>6, <1>7
    <3>2. Lived(d, turn)
      BY <3>1, <1>14 DEF Told, Known
    <3>3. QED BY <3>2, <1>7a
  <2>2. SUFFICES ASSUME d.session = s, d.epoch = t.epoch, d.n > t.n PROVE FALSE
    BY <1>12 DEF Later, SameLineage
  <2>3. d.epoch \in Nat /\ d.n \in Nat /\ (d.epoch < tr[s].epoch \/ (d.epoch = tr[s].epoch /\ d.n <= tr[s].n))
    BY <2>1, <2>2 DEF Lived
  <2>4. QED BY <2>2, <2>3, <1>9
<1>15. Told(A \union {x}, c + 1, ts)
  <2>1. Told(A, c, tr)
    BY <1>6, <1>7, <1>7a
  <2>2. x.kind \in {"assert", "promote", "reject"}
    BY <1>12
  <2>3. QED BY <2>1, <2>2, <1>11, <1>12, <1>13, <1>14, ToldMore
<1>16. Written'
  <2>1. turn' = ts /\ Around' = A \union {x} /\ clock' = c + 1
    BY <1>1, <1>2, <1>5, <1>7, <1>7a, <1>8
  <2>2. Told(Around, clock, turn)'
    BY <2>1, <1>15 DEF Told, Known, Lived
  <2>3. turn' \in Turns /\ clock' \in Nat
    BY <2>1, <1>10
  <2>4. ledger' \in Seq(Logged') /\ IsFiniteSet(queue') /\ desk' = [o \in Operator |-> desk'[o]]
    BY <1>2, <1>4 DEF ReplayInv, Written
  <2>5. QED BY <2>2, <2>3, <2>4 DEF Written, Turns
<1>17. Placed'
  <2>1. x \notin Around
    BY <1>6, <1>7a, <1>12 DEF Told, Known
  <2>2. x \notin queue \union Logged
    BY <2>1 DEF Around
  <2>3. ASSUME NEW e \in staged' PROVE e.kind = "assert" /\ e \notin queue \union Logged
    BY <2>2, <1>1, <1>12 DEF ReplayInv, Placed
  <2>4. QED BY <2>3, <1>2, <1>4 DEF ReplayInv, Placed
<1>18. QED BY <1>3, <1>16, <1>17 DEF ReplayInv

LEMMA EnqueueKeeps ==
  ASSUME ReplayInv, NEW x \in staged, Enqueue(x)
  PROVE  ReplayInv'
<1>1. /\ clock' = clock /\ register' = register /\ ledger' = ledger /\ turn' = turn
      /\ snapshot' = snapshot /\ published' = published /\ desk' = desk
      /\ staged' = staged \ {x} /\ queue' = queue \union {x}
  BY DEF Enqueue
<1>2. Trusted' /\ Current'
  BY <1>1, SameLedger
<1>3. Logged' = Logged /\ OnDesk' = OnDesk
  BY <1>1 DEF Logged, OnDesk
<1>4. Around' = Around
  BY <1>1, <1>3 DEF Around
<1>5. Written'
  <2>1. Told(Around, clock, turn)'
    BY <1>1, <1>4 DEF ReplayInv, Written, Told, Lived
  <2>2. IsFiniteSet(queue')
    BY <1>1, FS_AddElement DEF ReplayInv, Written
  <2>3. QED BY <1>1, <1>3, <2>1, <2>2 DEF ReplayInv, Written
<1>6. Placed'
  <2>1. x.kind = "assert" /\ x \notin queue \union Logged
    BY DEF ReplayInv, Placed
  <2>2. ASSUME NEW e \in staged' PROVE e.kind = "assert" /\ e \notin queue' \union Logged
    BY <1>1 DEF ReplayInv, Placed
  <2>3. queue' \intersect Logged = {}
    BY <1>1, <2>1 DEF ReplayInv, Placed
  <2>4. ASSUME NEW o \in Operator, desk[o] # NoEvent
        PROVE  /\ desk[o].kind # "assert" /\ desk[o] \notin queue' \union Logged
               /\ \A p \in Operator : o # p => desk[o] # desk[p]
    BY <1>1, <2>1, <2>4 DEF ReplayInv, Placed
  <2>5. QED BY <2>2, <2>3, <2>4, <1>1, <1>3 DEF ReplayInv, Placed
<1>7. QED BY <1>2, <1>5, <1>6 DEF ReplayInv

LEMMA DecideKeeps ==
  ASSUME ReplayInv, NEW o \in Operator, NEW cand, Decide(o, cand)
  PROVE  ReplayInv'
<1>1. PICK x : /\ desk' = [desk EXCEPT ![o] = x]
                /\ x.at = clock + 1 /\ x.kind \in {"promote", "reject"}
  <2>1. CASE desk' = [desk EXCEPT ![o] = Rejection(cand)]
    <3>1. PICK x : x = Rejection(cand)
      OBVIOUS
    <3>2. x.at = clock + 1 /\ x.kind = "reject"
      BY <3>1 DEF Rejection
    <3>3. QED BY <2>1, <3>1, <3>2
  <2>2. CASE \E t \in cand : desk' = [desk EXCEPT ![o] = Promoted(cand, t)]
    <3>1. PICK t : desk' = [desk EXCEPT ![o] = Promoted(cand, t)]
      BY <2>2
    <3>2. PICK x : x = Promoted(cand, t)
      OBVIOUS
    <3>3. x.at = clock + 1 /\ x.kind = "promote"
      BY <3>2 DEF Promoted
    <3>4. QED BY <3>1, <3>2, <3>3
  <2>3. QED BY <2>1, <2>2 DEF Decide
<1>2. /\ clock' = clock + 1 /\ register' = register /\ ledger' = ledger /\ turn' = turn
      /\ snapshot' = snapshot /\ published' = published
      /\ staged' = staged /\ queue' = queue /\ desk[o] = NoEvent
  BY DEF Decide
<1>3. Trusted' /\ Current'
  BY <1>2, SameLedger
<1>4. Logged' = Logged
  BY <1>2 DEF Logged
<1>5. x # NoEvent /\ x.kind # "assert"
  BY <1>1 DEF NoEvent
<1>6. desk = [p \in Operator |-> desk[p]]
  BY DEF ReplayInv, Written
<1>7. PICK d : d = desk
  OBVIOUS
<1>8. desk' = [p \in Operator |-> IF p = o THEN x ELSE d[p]]
  BY <1>1, <1>6, <1>7
<1>9. OnDesk' = OnDesk \union {x}
  <2>1. \A p \in Operator : desk'[p] = IF p = o THEN x ELSE d[p]
    BY <1>8
  <2>2. QED BY <2>1, <1>2, <1>5, <1>7 DEF OnDesk
<1>10. Around' = Around \union {x}
  BY <1>2, <1>4, <1>9 DEF Around
<1>11. clock \in Nat /\ Told(Around, clock, turn)
  BY DEF ReplayInv, Written
<1>12. Written'
  <2>1. PICK A, tr : A = Around /\ tr = turn
    OBVIOUS
  <2>2. PICK c \in Nat : c = clock
    BY <1>11
  <2>3. Told(A \union {x}, c + 1, tr)
    <3>1. Told(A, c, tr)
      BY <1>11, <2>1, <2>2
    <3>2. x.kind \in {"assert", "promote", "reject"} /\ x.at = c + 1
      BY <1>1, <2>2
    <3>3. QED BY <3>1, <3>2, <1>5, ToldMore
  <2>4. turn' = tr /\ Around' = A \union {x} /\ clock' = c + 1
    BY <1>2, <1>10, <2>1, <2>2
  <2>5. Told(Around, clock, turn)'
    BY <2>3, <2>4 DEF Told, Known, Lived
  <2>6. turn' \in Turns /\ clock' \in Nat /\ ledger' \in Seq(Logged') /\ IsFiniteSet(queue')
    BY <1>2, <1>4, <2>4 DEF ReplayInv, Written
  <2>7. desk' = [p \in Operator |-> desk'[p]]
    BY <1>8
  <2>8. QED BY <2>5, <2>6, <2>7 DEF Written, Turns
<1>13. Placed'
  <2>1. x \notin Around
    BY <1>1, <1>11 DEF Told, Known
  <2>2. x \notin queue \union Logged
    BY <2>1 DEF Around
  <2>3. ASSUME NEW p \in Operator, desk'[p] # NoEvent
        PROVE  desk'[p].kind # "assert" /\ desk'[p] \notin queue \union Logged
    <3>1. CASE p = o
      BY <3>1, <1>5, <1>8, <2>2
    <3>2. CASE p # o
      <4>1. desk'[p] = desk[p]
        BY <3>2, <1>7, <1>8
      <4>2. QED BY <4>1, <2>3 DEF ReplayInv, Placed
    <3>3. QED BY <3>1, <3>2
  <2>4. ASSUME NEW p \in Operator, desk'[p] # NoEvent, NEW q \in Operator, p # q
        PROVE  desk'[p] # desk'[q]
    <3>1. ASSUME NEW r \in Operator, r # o PROVE desk'[r] = desk[r] /\ desk[r] # x
      <4>1. desk'[r] = desk[r]
        BY <3>1, <1>7, <1>8
      <4>2. desk[r] # NoEvent => desk[r] \in Around
        BY DEF OnDesk, Around
      <4>3. QED BY <4>1, <4>2, <2>1, <1>5
    <3>2. desk'[o] = x
      BY <1>8
    <3>3. CASE p = o
      BY <3>1, <3>2, <3>3, <2>4
    <3>4. CASE q = o
      BY <3>1, <3>2, <3>4, <2>4
    <3>5. CASE p # o /\ q # o
      BY <3>1, <3>5, <2>4 DEF ReplayInv, Placed
    <3>6. QED BY <3>3, <3>4, <3>5
  <2>5. QED BY <2>3, <2>4, <1>2, <1>4 DEF ReplayInv, Placed
<1>14. QED BY <1>3, <1>12, <1>13 DEF ReplayInv

LEMMA SubmitKeeps ==
  ASSUME ReplayInv, NEW o \in Operator, Submit(o)
  PROVE  ReplayInv'
<1>1. /\ clock' = clock /\ register' = register /\ ledger' = ledger /\ turn' = turn
      /\ snapshot' = snapshot /\ published' = published /\ staged' = staged
      /\ desk' = [desk EXCEPT ![o] = NoEvent]
      /\ queue' = queue \/ queue' = queue \union {desk[o]}
      /\ desk[o] # NoEvent
  BY DEF Submit
<1>2. Trusted' /\ Current'
  BY <1>1, SameLedger
<1>3. Logged' = Logged
  BY <1>1 DEF Logged
<1>4. PICK d : d = desk
  OBVIOUS
<1>5. desk' = [p \in Operator |-> IF p = o THEN NoEvent ELSE d[p]]
  <2>1. desk = [p \in Operator |-> desk[p]]
    BY DEF ReplayInv, Written
  <2>2. QED BY <1>1, <1>4, <2>1
<1>6. desk[o] \in OnDesk /\ OnDesk' \subseteq OnDesk
  <2>1. \A p \in Operator : desk'[p] = IF p = o THEN NoEvent ELSE d[p]
    BY <1>5
  <2>2. QED BY <2>1, <1>1, <1>4 DEF OnDesk
<1>7. Around' \subseteq Around
  BY <1>1, <1>3, <1>6 DEF Around
<1>8. Written'
  <2>1. PICK A, B : A = Around /\ B = Around'
    OBVIOUS
  <2>2. PICK c, tr : c = clock /\ tr = turn
    OBVIOUS
  <2>3. Told(A, c, tr)
    BY <2>1, <2>2 DEF ReplayInv, Written
  <2>4. Told(B, c, tr)
    BY <1>7, <2>1, <2>3, ToldFewer
  <2>5. Told(Around, clock, turn)'
    BY <1>1, <2>1, <2>2, <2>4 DEF Told, Known, Lived
  <2>6. IsFiniteSet(queue')
    BY <1>1, FS_AddElement DEF ReplayInv, Written
  <2>7. desk' = [p \in Operator |-> desk'[p]]
    BY <1>5
  <2>8. QED BY <1>1, <1>3, <2>5, <2>6, <2>7 DEF ReplayInv, Written, Turns
<1>9. Placed'
  <2>1. desk[o].kind # "assert" /\ desk[o] \notin queue \union Logged
    BY <1>1 DEF ReplayInv, Placed
  <2>2. ASSUME NEW e \in staged PROVE e.kind = "assert" /\ e \notin queue' \union Logged
    BY <1>1, <2>1 DEF ReplayInv, Placed
  <2>3. queue' \intersect Logged = {}
    BY <1>1, <2>1 DEF ReplayInv, Placed
  <2>4. ASSUME NEW p \in Operator, desk'[p] # NoEvent
        PROVE  /\ p # o /\ desk'[p] = desk[p]
               /\ desk'[p].kind # "assert" /\ desk'[p] \notin queue' \union Logged
    <3>1. p # o /\ desk'[p] = desk[p]
      BY <1>4, <1>5, <2>4
    <3>2. desk[p].kind # "assert" /\ desk[p] \notin queue \union Logged /\ desk[p] # desk[o]
      BY <3>1, <2>4 DEF ReplayInv, Placed
    <3>3. QED BY <3>1, <3>2, <1>1
  <2>5. ASSUME NEW p \in Operator, desk'[p] # NoEvent, NEW q \in Operator, p # q
        PROVE  desk'[p] # desk'[q]
    <3>1. CASE q = o
      <4>1. desk'[q] = NoEvent
        BY <3>1, <1>5
      <4>2. QED BY <4>1, <2>5
    <3>2. CASE q # o
      <4>1. desk'[q] = desk[q]
        BY <3>2, <1>4, <1>5
      <4>2. QED BY <4>1, <2>4, <2>5 DEF ReplayInv, Placed
    <3>3. QED BY <3>1, <3>2
  <2>6. QED BY <2>2, <2>3, <2>4, <2>5, <1>1, <1>3 DEF ReplayInv, Placed
<1>10. QED BY <1>2, <1>8, <1>9 DEF ReplayInv

-----------------------------------------------------------------------------
LEMMA Joined ==
  ASSUME NEW U, NEW l \in Seq(U), NEW o \in Seq(U)
  PROVE  /\ l \o o \in Seq(U) /\ Len(l \o o) = Len(l) + Len(o)
         /\ \A i \in 1 .. Len(l) + Len(o) :
              (l \o o)[i] = IF i <= Len(l) THEN l[i] ELSE o[i - Len(l)]
OBVIOUS

(* The ledger with what was queued behind it, in whatever order.               *)
Grown(s, E) == /\ s \in Seq(E) /\ E = UpTo(s, Len(s)) /\ E # {}
               /\ Len(ledger) <= Len(s) /\ \A i \in 1..Len(ledger) : s[i] = ledger[i]
               /\ Logged \subseteq E /\ E \subseteq Logged \union queue
               /\ \A i, j \in 1..Len(s) : i # j => s[i] # s[j]

LEMMA LedgerGrows ==
  ASSUME ReplayInv, queue # {}, NEW order \in SetToSeqs(queue), NEW s, NEW E
  PROVE  s = ledger \o order /\ E = Range(s) => Grown(s, E)
<1>0. SUFFICES ASSUME s = ledger \o order, E = Range(s) PROVE Grown(s, E)
  OBVIOUS
<1>1. PICK c \in Nat : c = Cardinality(queue) /\ c # 0
  <2>1. IsFiniteSet(queue)
    BY DEF ReplayInv, Written
  <2>2. Cardinality(queue) \in Nat /\ Cardinality(queue) # 0
    BY <2>1, FS_CardinalityType, FS_EmptySet
  <2>3. QED BY <2>2
<1>2. order \in [1..c -> queue] /\ \A i, j \in 1..c : i # j => order[i] # order[j]
  BY <1>1 DEF SetToSeqs
<1>3. order \in Seq(queue) /\ Len(order) = c
  BY <1>1, <1>2
<1>4. ledger \in Seq(Logged) /\ Len(ledger) \in Nat
  BY DEF ReplayInv, Written
<1>5. PICK U : U = Logged \union queue
  OBVIOUS
<1>6. order \in Seq(U) /\ ledger \in Seq(U)
  BY <1>3, <1>4, <1>5
<1>7. PICK n \in Nat : n = Len(ledger)
  BY <1>4
<1>8. /\ s \in Seq(U) /\ Len(s) = n + c
      /\ \A i \in 1..n : s[i] = ledger[i]
      /\ \A i \in 1 .. n + c : i > n => s[i] = order[i - n]
  <2>1. PICK l \in Seq(U), o \in Seq(U) : l = ledger /\ o = order
    BY <1>6
  <2>2. s = l \o o /\ Len(l) = n /\ Len(o) = c
    BY <1>0, <1>3, <1>7, <2>1
  <2>2a. /\ l \o o \in Seq(U) /\ Len(l \o o) = Len(l) + Len(o)
         /\ \A i \in 1 .. Len(l) + Len(o) :
              (l \o o)[i] = IF i <= Len(l) THEN l[i] ELSE o[i - Len(l)]
    BY Joined
  <2>2b. PICK q : q = l \o o
    OBVIOUS
  <2>2c. /\ q \in Seq(U) /\ Len(q) = n + c
         /\ \A i \in 1 .. n + c : q[i] = IF i <= n THEN l[i] ELSE o[i - n]
    BY <2>2, <2>2a, <2>2b
  <2>3. s \in Seq(U) /\ Len(s) = n + c
    BY <2>2, <2>2b, <2>2c
  <2>4. \A i \in 1 .. n + c : s[i] = IF i <= n THEN l[i] ELSE o[i - n]
    BY <2>2, <2>2b, <2>2c
  <2>5. ASSUME NEW i \in 1 .. n + c, i > n PROVE s[i] = o[i - n]
    BY <2>4, <2>5
  <2>6. ASSUME NEW i \in 1..n PROVE s[i] = l[i]
    BY <2>4
  <2>7. QED BY <2>1, <2>3, <2>5, <2>6
<1>9. DOMAIN s = 1 .. n + c
  BY <1>8
<1>10. E = UpTo(s, Len(s))
  BY <1>0, <1>8, <1>9 DEF Range, UpTo
<1>11. s \in Seq(E)
  <2>1. \A i \in 1 .. n + c : s[i] \in E
    BY <1>8, <1>10 DEF UpTo
  <2>2. s = [i \in 1 .. n + c |-> s[i]]
    BY <1>8
  <2>3. PICK m \in Nat : m = n + c
    OBVIOUS
  <2>4. s \in [1..m -> E]
    BY <2>1, <2>2, <2>3
  <2>5. QED BY <2>3, <2>4
<1>12. E # {}
  <2>1. 1 \in 1 .. n + c
    BY <1>1
  <2>2. s[1] \in E
    BY <2>1, <1>8, <1>10 DEF UpTo
  <2>3. QED BY <2>2
<1>13. ASSUME NEW i \in 1 .. n + c
       PROVE  (i <= n => s[i] \in Logged) /\ (i > n => s[i] \in queue /\ i - n \in 1..c)
  <2>1. CASE i <= n
    BY <2>1, <1>4, <1>7, <1>8
  <2>2. CASE i > n
    <3>1. i - n \in 1..c
      BY <2>2
    <3>2. order[i - n] \in queue
      BY <3>1, <1>2
    <3>3. QED BY <2>2, <3>1, <3>2, <1>8
  <2>3. QED BY <2>1, <2>2
<1>14. Logged \subseteq E
  <2>1. ASSUME NEW e \in Logged PROVE e \in E
    <3>1. PICK i \in 1..n : e = ledger[i]
      BY <1>4, <1>7 DEF Logged, Range
    <3>2. i \in 1 .. n + c /\ s[i] = e
      BY <3>1, <1>8
    <3>3. QED BY <3>2, <1>8, <1>10 DEF UpTo
  <2>2. QED BY <2>1
<1>15. E \subseteq Logged \union queue
  <2>1. ASSUME NEW e \in E PROVE e \in Logged \union queue
    <3>1. PICK i \in 1 .. n + c : e = s[i]
      BY <1>8, <1>10 DEF UpTo
    <3>2. QED BY <3>1, <1>13
  <2>2. QED BY <2>1
<1>16. ASSUME NEW i \in 1 .. n + c, NEW j \in 1 .. n + c, i # j PROVE s[i] # s[j]
  <2>1. CASE i <= n /\ j <= n
    <3>1. ledger[i] # ledger[j]
      BY <2>1, <1>7, <1>16 DEF ReplayInv, Placed
    <3>2. QED BY <2>1, <3>1, <1>8
  <2>2. CASE i > n /\ j > n
    <3>1. i - n \in 1..c /\ j - n \in 1..c /\ i - n # j - n
      BY <2>2, <1>16
    <3>2. order[i - n] # order[j - n]
      BY <3>1, <1>2
    <3>3. QED BY <2>2, <3>2, <1>8
  <2>3. CASE i <= n /\ j > n
    BY <2>3, <1>13 DEF ReplayInv, Placed
  <2>4. CASE i > n /\ j <= n
    BY <2>4, <1>13 DEF ReplayInv, Placed
  <2>5. QED BY <2>1, <2>2, <2>3, <2>4
<1>17. QED BY <1>7, <1>8, <1>10, <1>11, <1>12, <1>14, <1>15, <1>16 DEF Grown

LEMMA ProjectKeeps ==
  ASSUME ReplayInv, Project
  PROVE  ReplayInv'
<1>1. PICK order \in SetToSeqs(queue) :
        LET s == ledger \o order
        IN  /\ ledger' = s
            /\ IF Fast(s).kept
               THEN /\ published' = [record |-> Fast(s).record, cands |-> {}]
                    /\ snapshot' = IF Len(s) - snapshot.through >= Advance
                                   THEN [Fast(s) EXCEPT !.through = Len(s)] ELSE snapshot
               ELSE /\ published' = Full(Range(s))
                    /\ snapshot' = IF Full(Range(s)).cands # {} THEN snapshot
                                   ELSE [through |-> Len(s), record |-> Full(Range(s)).record,
                                         kept |-> TRUE, cursor |-> Max({e.at : e \in Range(s)})]
  BY DEF Project
<1>2. /\ queue # {} /\ queue' = {} /\ register' = register /\ clock' = clock /\ turn' = turn
      /\ staged' = staged /\ desk' = desk
  BY DEF Project
<1>3. PICK s : s = ledger \o order
  OBVIOUS
<1>4. PICK E : E = Range(s)
  OBVIOUS
<1>5. PICK fast, full : fast = Fast(s) /\ full = Full(E)
  OBVIOUS
<1>6. /\ ledger' = s
      /\ fast.kept => /\ published'.record = fast.record
                      /\ \/ snapshot' = [fast EXCEPT !.through = Len(s)]
                         \/ snapshot' = snapshot
      /\ ~fast.kept => /\ published'.record = full.record
                       /\ \/ snapshot' = [through |-> Len(s), record |-> full.record, kept |-> TRUE,
                                          cursor |-> Max({e.at : e \in E})]
                          \/ snapshot' = snapshot
  <2>1. CASE fast.kept
    BY <2>1, <1>1, <1>3, <1>4, <1>5
  <2>2. CASE ~fast.kept
    BY <2>2, <1>1, <1>3, <1>4, <1>5
  <2>3. QED BY <2>1, <2>2, <1>1, <1>3
<1>7. /\ s \in Seq(E) /\ E = UpTo(s, Len(s)) /\ E # {}
      /\ Len(ledger) <= Len(s) /\ \A i \in 1..Len(ledger) : s[i] = ledger[i]
      /\ Logged \subseteq E /\ E \subseteq Logged \union queue
      /\ \A i, j \in 1..Len(s) : i # j => s[i] # s[j]
  <2>1. Grown(s, E)
    BY <1>2, <1>3, <1>4, LedgerGrows
  <2>2. QED BY <2>1 DEF Grown
<1>8. Logged' = E
  BY <1>4, <1>6 DEF Logged
<1>9. clock \in Nat /\ Told(Around, clock, turn) /\ E \subseteq Around
  BY <1>7 DEF ReplayInv, Written, Around
<1>10. Orderly(E) /\ \A e \in E : e.at \in 1..clock
  <2>1. PICK A, tr : A = Around /\ tr = turn
    OBVIOUS
  <2>2. PICK c \in Nat : c = clock
    BY <1>9
  <2>3. Told(A, c, tr) /\ E \in SUBSET A
    BY <1>9, <2>1, <2>2
  <2>4. QED BY <2>2, <2>3, ToldOrderly
<1>11. PICK L \in Nat : L = Len(s)
  BY <1>7
<1>12. (\A i \in 1..L : s[i] \in E) /\ \A i, j \in 1..L : i # j => s[i].at # s[j].at
  <2>1. \A i \in 1..L : s[i] \in E
    BY <1>7, <1>11
  <2>2. ASSUME NEW i \in 1..L, NEW j \in 1..L, i # j PROVE s[i].at # s[j].at
    <3>1. PICK d \in E, e \in E : d = s[i] /\ e = s[j]
      BY <2>1
    <3>2. d # e
      BY <3>1, <2>2, <1>7, <1>11
    <3>3. d \in Around /\ e \in Around /\ Apart(Around)
      BY <1>9 DEF Told
    <3>4. QED BY <3>1, <3>2, <3>3 DEF Apart
  <2>3. QED BY <2>1, <2>2
<1>13. /\ snapshot \in Snapshots(E) /\ snapshot.through <= L
       /\ snapshot.through \in Nat /\ snapshot.through <= Len(ledger) /\ Len(ledger) \in Nat
  <2>1. snapshot \in Snapshots(Logged) /\ snapshot.through <= Len(ledger) /\ Len(ledger) \in Nat
    BY DEF ReplayInv, Trusted, Written
  <2>2. Words(Logged) \subseteq Words(E)
    BY <1>7 DEF Words
  <2>3. snapshot \in Snapshots(E) /\ snapshot.through \in Nat
    BY <2>1, <2>2 DEF Snapshots
  <2>4. QED BY <2>1, <2>3, <1>7, <1>11
<1>14. PICK a \in Nat : a = snapshot.through
  BY <1>13
<1>15. /\ \A i \in 1..a : s[i] = ledger[i]
       /\ UpTo(s, a) = UpTo(ledger, a)
  <2>1. \A i \in 1..a : i \in 1..Len(ledger)
    BY <1>13, <1>14
  <2>2. QED BY <2>1, <1>7 DEF UpTo
<1>16. snapshot.kept => /\ \A i \in 1..a : s[i].at <= snapshot.cursor
                        /\ Beyond(E) \/ snapshot.record = Reduced(UpTo(s, a)).record
  <2>1. Overtaken => Beyond(E)
    BY <1>7 DEF Overtaken, Beyond
  <2>2. QED BY <2>1, <1>14, <1>15 DEF ReplayInv, Trusted
<1>17. /\ fast \in Snapshots(E)
       /\ fast.kept =>
            /\ snapshot.kept /\ \A i \in 1..L : s[i].at <= fast.cursor
            /\ snapshot.record = Reduced(UpTo(s, a)).record => fast.record = Reduced(E).record
  <2>1. \A i \in 1..Len(s) : s[i].at \in 1..clock
    BY <1>10, <1>11, <1>12
  <2>2. snapshot.kept => \A i \in 1..snapshot.through : s[i].at <= snapshot.cursor
    BY <1>14, <1>16
  <2>3. snapshot.through <= Len(s)
    BY <1>11, <1>13
  <2>4. \A i, j \in 1..Len(s) : i # j => s[i].at # s[j].at
    BY <1>11, <1>12
  <2>5. /\ Fast(s) \in Snapshots(E)
        /\ Fast(s).kept =>
             /\ snapshot.kept /\ \A i \in 1..Len(s) : s[i].at <= Fast(s).cursor
             /\ snapshot.record = Reduced(UpTo(s, snapshot.through)).record
                => Fast(s).record = Reduced(UpTo(s, Len(s))).record
    BY <2>1, <2>2, <2>3, <2>4, <1>7, <1>9, <1>10, <1>13, FastRight
  <2>6. QED BY <2>5, <1>5, <1>7, <1>11, <1>14
<1>18. full.record \in Words(E) /\ (Beyond(E) \/ full.record = Reduced(E).record)
  BY <1>5, <1>9, <1>10, FullTyped, NothingSettled
<1>19. Beyond(E) \/ published'.record = Reduced(E).record
  BY <1>6, <1>16, <1>17, <1>18
<1>20. Overtaken' <=> Beyond(E)
  BY <1>8 DEF Overtaken, Beyond
<1>21. ASSUME NEW F, F \subseteq E PROVE Reduced(F)' = Reduced(F)
  <2>1. \A e \in F : e.at \in 1..clock
    BY <1>10, <1>21
  <2>2. clock' \in Nat /\ clock <= clock'
    BY <1>2, <1>9
  <2>3. QED BY <2>1, <2>2, <1>2, <1>9, ReducedAgain
<1>22. Current'
  <2>1. Reduced(E)' = Reduced(E)
    BY <1>21
  <2>2. Reduced(Logged)' = Reduced(E)
    BY <2>1, <1>8
  <2>3. QED BY <2>2, <1>19, <1>20 DEF Current
<1>23. ASSUME NEW snap, snap \in Snapshots(E), snap.through <= L, snapshot' = snap,
              snap.kept => /\ \A i \in 1..snap.through : s[i].at <= snap.cursor
                           /\ Beyond(E) \/ snap.record = Reduced(UpTo(s, snap.through)).record
       PROVE  Trusted'
  <2>1. PICK b \in Nat : b = snap.through
    BY <1>23 DEF Snapshots
  <2>2. PICK F : F = UpTo(s, b)
    OBVIOUS
  <2>3. F \subseteq E
    <3>1. \A i \in 1..b : i \in 1..L
      BY <1>23, <2>1
    <3>2. QED BY <3>1, <2>2, <1>12 DEF UpTo
  <2>4. Reduced(F)' = Reduced(F)
    BY <2>3, <1>21
  <2>5. UpTo(ledger, snapshot.through)' = F
    BY <1>6, <1>23, <2>1, <2>2 DEF UpTo
  <2>6. Reduced(UpTo(ledger, snapshot.through))' = Reduced(F)
    BY <2>4, <2>5
  <2>7. snap.kept => Overtaken' \/ snap.record = Reduced(F).record
    BY <1>20, <1>23, <2>1, <2>2
  <2>8. snapshot' \in Snapshots(Logged') /\ snapshot'.through <= Len(ledger')
    BY <1>6, <1>8, <1>11, <1>23
  <2>9. snapshot'.kept => \A i \in 1..snapshot'.through : ledger'[i].at <= snapshot'.cursor
    BY <1>6, <1>23
  <2>10. snapshot'.kept => Overtaken' \/ snapshot'.record = Reduced(UpTo(ledger, snapshot.through))'.record
    BY <2>6, <2>7, <1>23
  <2>11. QED BY <2>8, <2>9, <2>10 DEF Trusted, Snapshots, Words
<1>24. Trusted'
  <2>1. CASE snapshot' = snapshot
    <3>1. PICK snap : snap = snapshot
      OBVIOUS
    <3>2. QED BY <3>1, <2>1, <1>13, <1>14, <1>16, <1>23
  <2>2. CASE fast.kept /\ snapshot' = [fast EXCEPT !.through = Len(s)]
    <3>1. PICK snap : snap = [fast EXCEPT !.through = L]
      OBVIOUS
    <3>2. /\ snap \in Snapshots(E) /\ snap.through = L /\ snap.cursor = fast.cursor
          /\ snap.record = fast.record /\ snap.kept
      BY <3>1, <2>2, <1>17 DEF Snapshots
    <3>3. Beyond(E) \/ snap.record = Reduced(UpTo(s, L)).record
      BY <3>2, <2>2, <1>7, <1>11, <1>16, <1>17
    <3>4. snapshot' = snap
      BY <3>1, <2>2, <1>11
    <3>5. snap.kept => /\ \A i \in 1..snap.through : s[i].at <= snap.cursor
                       /\ Beyond(E) \/ snap.record = Reduced(UpTo(s, snap.through)).record
      BY <3>2, <3>3, <2>2, <1>17
    <3>6. snap.through <= L
      BY <3>2
    <3>7. QED BY <3>2, <3>4, <3>5, <3>6, <1>23
  <2>3. CASE snapshot' = [through |-> Len(s), record |-> full.record, kept |-> TRUE,
                          cursor |-> Max({e.at : e \in E})]
    <3>1. PICK S : S = {e.at : e \in E}
      OBVIOUS
    <3>2. PICK c \in Nat : c = clock
      BY <1>9
    <3>3. S \in SUBSET (0..c) /\ S # {}
      BY <3>1, <3>2, <1>7, <1>10
    <3>4. Max(S) \in S /\ \A n \in S : n <= Max(S)
      BY <3>3, LastInstant
    <3>5. PICK last \in S : last = Max(S)
      BY <3>4
    <3>5a. last \in Nat
      BY <3>3
    <3>6. PICK snap : snap = [through |-> L, record |-> full.record, kept |-> TRUE, cursor |-> last]
      OBVIOUS
    <3>7. snap \in Snapshots(E)
      BY <3>6, <3>5a, <1>18 DEF Snapshots
    <3>8. \A i \in 1..L : s[i].at <= last
      BY <3>1, <3>4, <3>5, <1>12
    <3>9. snapshot' = snap
      BY <2>3, <3>1, <3>5, <3>6, <1>11
    <3>10. Beyond(E) \/ snap.record = Reduced(UpTo(s, L)).record
      BY <3>6, <1>7, <1>11, <1>18
    <3>11. snap.through = L /\ snap.cursor = last /\ snap.through <= L
      BY <3>6
    <3>12. snap.kept => /\ \A i \in 1..snap.through : s[i].at <= snap.cursor
                        /\ Beyond(E) \/ snap.record = Reduced(UpTo(s, snap.through)).record
      BY <3>8, <3>10, <3>11
    <3>13. QED BY <3>7, <3>9, <3>11, <3>12, <1>23
  <2>4. QED BY <2>1, <2>2, <2>3, <1>6
<1>25. OnDesk' = OnDesk
  BY <1>2 DEF OnDesk
<1>26. Around' \subseteq Around
  BY <1>2, <1>7, <1>8, <1>25 DEF Around
<1>27. Written'
  <2>1. PICK A, B : A = Around /\ B = Around'
    OBVIOUS
  <2>2. PICK c, tr : c = clock /\ tr = turn
    OBVIOUS
  <2>3. Told(A, c, tr)
    BY <1>9, <2>1, <2>2
  <2>4. Told(B, c, tr)
    BY <1>26, <2>1, <2>3, ToldFewer
  <2>5. Told(Around, clock, turn)'
    BY <1>2, <2>1, <2>2, <2>4 DEF Told, Known, Lived
  <2>6. IsFiniteSet(queue')
    BY <1>2, FS_EmptySet
  <2>7. ledger' \in Seq(Logged')
    BY <1>6, <1>7, <1>8
  <2>8. turn' \in Turns /\ clock' \in Nat /\ desk' = [o \in Operator |-> desk'[o]]
    BY <1>2 DEF ReplayInv, Written
  <2>9. QED BY <2>5, <2>6, <2>7, <2>8 DEF Written, Turns
<1>28. Placed'
  <2>1. ASSUME NEW e \in staged PROVE e.kind = "assert" /\ e \notin E
    BY <1>7 DEF ReplayInv, Placed
  <2>2. ASSUME NEW o \in Operator, desk[o] # NoEvent
        PROVE  /\ desk[o].kind # "assert" /\ desk[o] \notin E
               /\ \A p \in Operator : o # p => desk[o] # desk[p]
    BY <1>7, <2>2 DEF ReplayInv, Placed
  <2>3. \A i, j \in 1..Len(ledger') : i # j => ledger'[i] # ledger'[j]
    BY <1>6, <1>7
  <2>4. QED BY <2>1, <2>2, <2>3, <1>2, <1>8 DEF Placed
<1>29. QED BY <1>22, <1>24, <1>27, <1>28 DEF ReplayInv

LEMMA StutterKeeps ==
  ASSUME ReplayInv, UNCHANGED reducerVars
  PROVE  ReplayInv'
<1>1. /\ clock' = clock /\ register' = register /\ ledger' = ledger /\ turn' = turn
      /\ snapshot' = snapshot /\ published' = published /\ staged' = staged
      /\ queue' = queue /\ desk' = desk
  BY DEF reducerVars
<1>2. Trusted' /\ Current'
  BY <1>1, SameLedger
<1>3. Logged' = Logged /\ OnDesk' = OnDesk
  BY <1>1 DEF Logged, OnDesk
<1>4. Around' = Around
  BY <1>1, <1>3 DEF Around
<1>5. Written'
  BY <1>1, <1>3, <1>4 DEF ReplayInv, Written, Told, Known, Lived, Turns
<1>6. Placed'
  BY <1>1, <1>3 DEF ReplayInv, Placed
<1>7. QED BY <1>2, <1>5, <1>6 DEF ReplayInv

(* At every moment the snapshot and the published record are those of a replay *)
(* of what they cover, for any sessions, operators, values, order of arrival   *)
(* and number of events; unless an overtaken turn was promoted.                *)
THEOREM ReplayIsKept == ReducerSpec => []ReplayInv
<1>1. ReducerInit => ReplayInv
  BY InitReplay
<1>2. ReplayInv /\ [ReducerNext]_reducerVars => ReplayInv'
  <2> SUFFICES ASSUME ReplayInv, [ReducerNext]_reducerVars PROVE ReplayInv'
    OBVIOUS
  <2>1. ASSUME NEW s \in Session, NEW v \in Value, Observe(s, v) PROVE ReplayInv'
    BY <2>1, ObserveKeeps
  <2>2. ASSUME NEW e \in staged, Enqueue(e) PROVE ReplayInv'
    BY <2>2, EnqueueKeeps
  <2>3. CASE Project
    BY <2>3, ProjectKeeps
  <2>4. ASSUME NEW o \in Operator, Submit(o) PROVE ReplayInv'
    BY <2>4, SubmitKeeps
  <2>5. ASSUME NEW o \in Operator, NEW cand \in published.cands, Decide(o, cand) PROVE ReplayInv'
    BY <2>5, DecideKeeps
  <2>6. CASE UNCHANGED reducerVars
    BY <2>6, StutterKeeps
  <2>7. QED BY <2>1, <2>2, <2>3, <2>4, <2>5, <2>6 DEF ReducerNext
<1>3. QED BY <1>1, <1>2, PTL DEF ReducerSpec

(* The published value is the one a replay of the whole ledger gives, whatever *)
(* was taken from a snapshot (memory-snapshot-store.mjs fastApplySnapshot).    *)
THEOREM ValuesAreReplayed == ReducerSpec => []ValueIsReplay
BY ReplayIsKept, InvGivesReplay, PTL
-----------------------------------------------------------------------------
(* Why a slow reaper cannot take a lock from a living process: what it is    *)
(* going to remove was observed to belong to a process that was dead, and a  *)
(* process that is dead stays dead; the only lease it unlinks is that one.   *)
RunningIsAlive == \A p \in Process : at[p] \notin Final => alive[p]

AtMostOneLease == \A p, q \in leases : p = q

ReapsTheDead ==
  \A p \in Process :
    at[p] \in {"lease", "check", "recheck"} /\ seen[p] \in Process
      => ~alive[seen[p]]

ReleasesOwnOrDead ==
  \A p \in Process :
    at[p] \in Releasing /\ seen[p] \in Process /\ seen[p] # p
      => ~alive[seen[p]]

LockInv == /\ LockTypeOK
           /\ RunningIsAlive
           /\ AtMostOneLease
           /\ ReapsTheDead
           /\ ReleasesOwnOrDead
           /\ LeaseKept

USE OwnerAssumption DEF OwnerAssumption

(* The invariant holds initially: no process has a lease yet.                *)
LEMMA InitLockInv == LockInit => LockInv
<1>1. LockInit => LockTypeOK
  <2> SUFFICES ASSUME LockInit PROVE LockTypeOK
    OBVIOUS
  <2>1. present \in BOOLEAN /\ stale \in BOOLEAN /\ stamp \in Nat
    BY DEF LockInit
  <2>2. at \in [Process -> Where]
    BY DEF LockInit, Where, Final
  <2>3. (~present => owner = NoOwner /\ leases = {})
    BY DEF LockInit
  <2> QED
    BY <2>1, <2>2, <2>3 DEF LockInit, LockTypeOK
<1>2. LockInit => RunningIsAlive /\ AtMostOneLease /\ ReapsTheDead
                /\ ReleasesOwnOrDead /\ LeaseKept
  BY DEF LockInit, RunningIsAlive, AtMostOneLease, ReapsTheDead, Releasing,
         ReleasesOwnOrDead, LeaseKept, Holding, Final
<1> QED
  BY <1>1, <1>2 DEF LockInv

(* Types are preserved by every step.                                        *)
LEMMA TypeStep == LockTypeOK /\ [LockNext]_vaultVars => LockTypeOK'
<1> SUFFICES ASSUME LockTypeOK, [LockNext]_vaultVars PROVE LockTypeOK'
  OBVIOUS
<1> USE DEF LockTypeOK, Goto, Touch, Vacant, Back, Throw, lockVars, localVars,
            Where, Final, Reaping, Releasing
<1>1. ASSUME NEW p \in Process, Attempt(p) PROVE LockTypeOK'
  BY <1>1 DEF Attempt
<1>2. ASSUME NEW p \in Process, GiveUp(p) \/ Raced(p) \/ Finish(p) PROVE LockTypeOK'
  BY <1>2 DEF GiveUp, Raced, Finish
<1>3. ASSUME NEW p \in Process, Rename(p) PROVE LockTypeOK'
  <2>1. present' \in BOOLEAN
    BY <1>3 DEF Rename
  <2>2. stale' \in BOOLEAN
    BY <1>3 DEF Rename
  <2>3. stamp' \in Nat
    BY <1>3 DEF Rename
  <2>4. at' \in [Process -> Where]
    BY <1>3 DEF Rename
  <2>5. (~present => owner = NoOwner /\ leases = {})'
    BY <1>3 DEF Rename
  <2> QED
    BY <1>3, <2>1, <2>2, <2>3, <2>4, <2>5 DEF Rename
<1>4. ASSUME NEW p \in Process, ReapStat(p) \/ ReapLease(p) PROVE LockTypeOK'
  BY <1>4 DEF ReapStat, ReapLease
<1>5. ASSUME NEW p \in Process, ReapReadOwner(p) PROVE LockTypeOK'
  BY <1>5 DEF ReapReadOwner
<1>6. ASSUME NEW p \in Process, ReapCheck(p) \/ ReapRecheck(p) PROVE LockTypeOK'
  BY <1>6 DEF ReapCheck, ReapRecheck
<1>7. ASSUME NEW p \in Process, Release(p) \/ Reread(p) PROVE LockTypeOK'
  BY <1>7 DEF Release, Reread
<1>8. ASSUME NEW p \in Process, UnlinkLease(p) PROVE LockTypeOK'
  <2>1. present' \in BOOLEAN
    BY <1>8 DEF UnlinkLease
  <2>2. stale' \in BOOLEAN
    BY <1>8 DEF UnlinkLease
  <2>3. stamp' \in Nat
    BY <1>8 DEF UnlinkLease
  <2>4. at' \in [Process -> Where]
    BY <1>8 DEF UnlinkLease
  <2>5. (~present => owner = NoOwner /\ leases = {})'
    BY <1>8 DEF UnlinkLease
  <2> QED
    BY <1>8, <2>1, <2>2, <2>3, <2>4, <2>5 DEF UnlinkLease
<1>9. ASSUME NEW p \in Process, UnlinkOwner(p) PROVE LockTypeOK'
  <2>1. present' \in BOOLEAN
    BY <1>9 DEF UnlinkOwner
  <2>2. stale' \in BOOLEAN
    BY <1>9 DEF UnlinkOwner
  <2>3. stamp' \in Nat
    BY <1>9 DEF UnlinkOwner
  <2>4. at' \in [Process -> Where]
    BY <1>9 DEF UnlinkOwner
  <2>5. (~present => owner = NoOwner /\ leases = {})'
    BY <1>9 DEF UnlinkOwner
  <2> QED
    BY <1>9, <2>1, <2>2, <2>3, <2>4, <2>5 DEF UnlinkOwner
<1>10. ASSUME NEW p \in Process, Rmdir(p) PROVE LockTypeOK'
  <2>1. present' \in BOOLEAN
    BY <1>10 DEF Rmdir
  <2>2. stale' \in BOOLEAN
    BY <1>10 DEF Rmdir
  <2>3. stamp' \in Nat
    BY <1>10 DEF Rmdir
  <2>4. at' \in [Process -> Where]
    BY <1>10 DEF Rmdir
  <2>5. (~present => owner = NoOwner /\ leases = {})'
    BY <1>10 DEF Rmdir
  <2> QED
    BY <1>10, <2>1, <2>2, <2>3, <2>4, <2>5 DEF Rmdir
<1>11. ASSUME NEW p \in Process, Crash(p) PROVE LockTypeOK'
  BY <1>11 DEF Crash
<1>12. CASE Age
  BY <1>12 DEF Age
<1>13. CASE UNCHANGED vaultVars
  BY <1>13 DEF vaultVars
<1> QED
  BY <1>1, <1>2, <1>3, <1>4, <1>5, <1>6, <1>7, <1>8, <1>9, <1>10, <1>11,
     <1>12, <1>13 DEF LockNext, Call

(* A step leaves every process what it was about to remove, the lease of a   *)
(* living holder, and the one lease of the directory.                        *)
LEMMA LockStep == LockInv /\ [LockNext]_vaultVars => LockInv'
<1> SUFFICES ASSUME LockInv, [LockNext]_vaultVars PROVE LockInv'
  OBVIOUS
<1>0. LockTypeOK'
  BY TypeStep DEF LockInv
<1> DEFINE Rest == /\ RunningIsAlive /\ AtMostOneLease
                   /\ ReapsTheDead /\ ReleasesOwnOrDead /\ LeaseKept
<1> SUFFICES Rest'
  BY <1>0 DEF LockInv
<1> USE DEF LockInv, LockTypeOK, RunningIsAlive, AtMostOneLease, ReapsTheDead,
            ReleasesOwnOrDead, LeaseKept, Holding, Goto, Touch, Vacant, Back,
            Throw, lockVars, localVars, Where, Final, Reaping, Releasing
<1>1. ASSUME NEW p \in Process, Attempt(p) PROVE Rest'
  BY <1>1 DEF Attempt
<1>2. ASSUME NEW p \in Process, GiveUp(p) \/ Raced(p) PROVE Rest'
  BY <1>2 DEF GiveUp, Raced
<1>3. ASSUME NEW p \in Process, Finish(p) PROVE Rest'
  BY <1>3 DEF Finish
<1>4. ASSUME NEW p \in Process, Rename(p) PROVE Rest'
  BY <1>4 DEF Rename
<1>5. ASSUME NEW p \in Process, ReapStat(p) PROVE Rest'
  BY <1>5 DEF ReapStat
<1>6. ASSUME NEW p \in Process, ReapReadOwner(p) PROVE Rest'
  BY <1>6 DEF ReapReadOwner
<1>7. ASSUME NEW p \in Process, ReapLease(p) PROVE Rest'
  BY <1>7 DEF ReapLease
<1>8. ASSUME NEW p \in Process, ReapCheck(p) \/ ReapRecheck(p) PROVE Rest'
  BY <1>8 DEF ReapCheck, ReapRecheck
<1>9. ASSUME NEW p \in Process, Release(p) \/ Reread(p) PROVE Rest'
  BY <1>9 DEF Release, Reread
<1>10. ASSUME NEW p \in Process, UnlinkLease(p) PROVE Rest'
  BY <1>10 DEF UnlinkLease
<1>11. ASSUME NEW p \in Process, UnlinkOwner(p) PROVE Rest'
  BY <1>11 DEF UnlinkOwner
<1>12. ASSUME NEW p \in Process, Rmdir(p) PROVE Rest'
  BY <1>12 DEF Rmdir
<1>13. ASSUME NEW p \in Process, Crash(p) PROVE Rest'
  BY <1>13 DEF Crash
<1>14. CASE Age
  BY <1>14 DEF Age
<1>15. CASE UNCHANGED vaultVars
  BY <1>15 DEF vaultVars
<1> QED
  BY <1>1, <1>2, <1>3, <1>4, <1>5, <1>6, <1>7, <1>8, <1>9, <1>10, <1>11,
     <1>12, <1>13, <1>14, <1>15 DEF LockNext, Call

(* LockInv holds in every reachable state.                                   *)
THEOREM LockInvariant == LockSpec => []LockInv
<1>1. LockInv /\ [LockNext]_vaultVars => LockInv'
  BY LockStep
<1> QED
  BY InitLockInv, <1>1, PTL DEF LockSpec

(* Every variable keeps its type, and a directory that is not there holds    *)
(* no owner and no lease.                                                    *)
THEOREM TypeCorrect == LockSpec => []LockTypeOK
<1>1. LockInv => LockTypeOK
  BY DEF LockInv
<1> QED
  BY <1>1, LockInvariant, PTL

(* A process that has not begun to release still has its lease, alone, in    *)
(* the public directory: no reaper, however late, removes it.                *)
THEOREM LeaseSafe == LockSpec => []LeaseKept
<1>1. LockInv => LeaseKept
  BY DEF LockInv
<1> QED
  BY <1>1, LockInvariant, PTL

(* No two processes run fn() under the same lock.                            *)
THEOREM Exclusion == LockSpec => []MutualExclusion
<1>1. LockInv => MutualExclusion
  BY DEF LockInv, LeaseKept, Holding, MutualExclusion
<1> QED
  BY <1>1, LockInvariant, PTL
-----------------------------------------------------------------------------
(* The process whose lease is in the directory.                              *)
LeaseHolder == IF leases = {} THEN NoOwner
               ELSE CHOOSE p \in Process : p \in leases

(* With at most one lease the CHOOSE has one possible value.                 *)
LEMMA HolderOfLease ==
  ASSUME LockInv, NEW p \in Process, leases = {p}
  PROVE  LeaseHolder = p
BY DEF LeaseHolder

(* The same, after the step.                                                 *)
LEMMA HolderPrime ==
  ASSUME NEW p \in Process, leases' = {p}
  PROVE  LeaseHolder' = p
BY DEF LeaseHolder

(* A step that changes no lease, no death and no critical section is one     *)
(* LeaseMutex does not see.                                                  *)
LEMMA Invisible ==
  ASSUME leases' = leases, alive' = alive,
         \A q \in Process : at[q] = "fn" <=> at'[q] = "fn"
  PROVE  UNCHANGED Abstract!vars
BY DEF Abstract!vars

(* The Vault's lock protocol implements LeaseMutex: acquisition is the       *)
(* rename, and the lock is freed by the unlink of the lease.                 *)
THEOREM LockImplementsMutex == LockSpec => Mutex
<1>1. LockInit => Abstract!Init
  BY DEF LockInit, Abstract!Init
<1>2. LockInv /\ [LockNext]_vaultVars => [Abstract!Next]_(Abstract!vars)
  <2> SUFFICES ASSUME LockInv, [LockNext]_vaultVars
               PROVE  [Abstract!Next]_(Abstract!vars)
    OBVIOUS
  <2> USE DEF LockInv, LockTypeOK, Goto, lockVars, localVars
  <2>1. ASSUME NEW p \in Process, Rename(p)
        PROVE  Abstract!Acquire(p) \/ UNCHANGED Abstract!vars
    <3>1. CASE Vacant
      <4>1. leases = {} /\ leases' = {p} /\ alive' = alive /\ alive[p]
        BY <2>1, <3>1 DEF Rename, Vacant, RunningIsAlive, Final
      <4>2. at' = [at EXCEPT ![p] = "fn"]
        BY <2>1, <3>1 DEF Rename
      <4>3. LeaseHolder = NoOwner /\ LeaseHolder' = p
        BY <4>1, HolderPrime DEF LeaseHolder
      <4> QED
        BY <4>1, <4>2, <4>3 DEF Abstract!Acquire, LeaseHolder
    <3>2. CASE ~Vacant
      BY <2>1, <3>2, Invisible DEF Rename
    <3> QED
      BY <3>1, <3>2
  <2>2. ASSUME NEW p \in Process, Finish(p) PROVE Abstract!Finish(p)
    BY <2>2 DEF Finish, Abstract!Finish
  <2>3. ASSUME NEW p \in Process, UnlinkLease(p)
        PROVE  Abstract!Free \/ UNCHANGED Abstract!vars
    <3>1. CASE seen[p] \in leases
      <4> DEFINE t == seen[p]
      <4>1. t \in Process /\ leases = {t} /\ leases' = {} /\ alive' = alive
        BY <2>3, <3>1 DEF UnlinkLease, AtMostOneLease, Touch
      <4>2. at[t] # "fn"
        BY <2>3, <4>1 DEF UnlinkLease, ReleasesOwnOrDead, RunningIsAlive,
                          Releasing, Final
      <4>3. at' = [at EXCEPT ![p] = "reread"] /\ at[p] = "unlinkLease"
        BY <2>3, <3>1 DEF UnlinkLease
      <4>4. LeaseHolder = t /\ LeaseHolder' = NoOwner
        BY <4>1, HolderOfLease DEF LeaseHolder
      <4> QED
        BY <4>1, <4>2, <4>3, <4>4 DEF Abstract!Free, LeaseHolder
    <3>2. CASE seen[p] \notin leases
      BY <2>3, <3>2, Invisible DEF UnlinkLease, Back
    <3> QED
      BY <3>1, <3>2
  <2>4. ASSUME NEW p \in Process, Crash(p) PROVE Abstract!Die(p)
    <3>1. at[p] \in Final => at[p] # "fn"
      BY DEF Final
    <3> QED
      BY <2>4, <3>1 DEF Crash, Abstract!Die, Final
  <2>5. ASSUME NEW p \in Process,
               \/ Attempt(p) \/ GiveUp(p) \/ Raced(p) \/ ReapStat(p)
               \/ ReapReadOwner(p) \/ ReapLease(p) \/ ReapCheck(p)
               \/ ReapRecheck(p) \/ Release(p) \/ Reread(p)
               \/ UnlinkOwner(p) \/ Rmdir(p)
        PROVE  UNCHANGED Abstract!vars
    <3>1. leases' = leases /\ alive' = alive
      BY <2>5 DEF Attempt, GiveUp, Raced, ReapStat, ReapReadOwner, ReapLease,
                  ReapCheck, ReapRecheck, Release, Reread, UnlinkOwner, Rmdir
    <3>2. PICK l \in Where \ {"fn"} : at' = [at EXCEPT ![p] = l]
      BY <2>5 DEF Attempt, GiveUp, Raced, ReapStat, ReapReadOwner, ReapLease,
                  ReapCheck, ReapRecheck, Release, Reread, UnlinkOwner, Rmdir,
                  Back, Throw, Where, Reaping, Releasing, Final
    <3>3. at[p] # "fn"
      BY <2>5 DEF Attempt, GiveUp, Raced, ReapStat, ReapReadOwner, ReapLease,
                  ReapCheck, ReapRecheck, Release, Reread, UnlinkOwner, Rmdir
    <3> QED
      BY <3>1, <3>2, <3>3, Invisible
  <2>6. CASE Age
    BY <2>6, Invisible DEF Age
  <2>7. CASE UNCHANGED vaultVars
    BY <2>7, Invisible DEF vaultVars
  <2> QED
    BY <2>1, <2>2, <2>3, <2>4, <2>5, <2>6, <2>7
       DEF LockNext, Call, Abstract!Next
<1> QED
  BY <1>1, <1>2, LockInvariant, PTL DEF LockSpec, Mutex, Abstract!Spec
=============================================================================
