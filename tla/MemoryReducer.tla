--------------------------- MODULE MemoryReducer ---------------------------
(* How one record of the shared memory is derived from the ledger             *)
(* (packages/vault/src/memory-store-base.mjs, memory-snapshot-store.mjs) and  *)
(* decided upon by people (src/memory.mjs, `memory promote` and `reject`).    *)
(* Sessions assert values at the ends of their turns; their events may be     *)
(* queued and projected in any order. A projection replays the whole ledger   *)
(* in causal order, or only its tail on top of a snapshot.                    *)
EXTENDS Naturals, Sequences, FiniteSets, SequencesExt

CONSTANTS Session, Operator, Value,
          Advance,      \* SNAPSHOT_ADVANCE_EVENTS
          MaxAsserts,   \* bound: values asserted
          MaxDecisions  \* bound: decisions made

ASSUME ReducerAssumption == /\ Advance \in Nat \ {0}
                            /\ MaxAsserts \in Nat /\ MaxDecisions \in Nat

VARIABLES
  register,  \* is the record's key a register
  clock,     \* the last instant an event was observed at
  turn,      \* each session's activation epoch and turn
  staged,    \* observed, not yet queued
  queue,     \* memory-outbox/*.json
  ledger,    \* MEMORY_EVENTS.jsonl, in the order of arrival
  snapshot,  \* the record after a prefix of the ledger, and the last instant in it
  published, \* SHARED_MEMORY.md and MEMORY_CANDIDATES.jsonl
  desk       \* the decision each operator is about to enqueue

reducerVars == <<register, clock, turn, staged, queue, ledger, snapshot, published, desk>>

(* An event is known by the instant it was observed at; a candidate by the    *)
(* events it holds; a decision by the candidate and the event it selects.     *)
NoEvent == [at |-> 0, kind |-> "none"]
NoSnapshot == [through |-> 0, record |-> NoEvent, cursor |-> 0, kept |-> FALSE]
Nothing == [record |-> NoEvent, cands |-> {}]
Logged == Range(ledger)
IsDecision(e) == e.kind \in {"promote", "reject"}

ReducerInit ==
  /\ register \in BOOLEAN /\ clock = 0
  /\ turn = [s \in Session |-> [epoch |-> 1, n |-> 0]]
  /\ staged = {} /\ queue = {} /\ ledger = <<>>
  /\ snapshot = NoSnapshot /\ published = Nothing
  /\ desk = [o \in Operator |-> NoEvent]
-----------------------------------------------------------------------------
SameLineage(e, f) == e.session = f.session /\ e.epoch = f.epoch
Later(e, f) == SameLineage(e, f) /\ e.n > f.n

(* isCausallyOlder: of an earlier turn or activation of the current source's  *)
(* session; nothing is older than what another session said.                 *)
Older(e, current) == /\ e.session = current.session
                     /\ e.epoch < current.epoch \/ Later(current, e)

(* registerPrecedence: a register belongs to its session's newest activation; *)
(* two assertions of one turn are told apart by their instants, and a         *)
(* promotion has the higher authority.                                       *)
Precedes(e, current) ==
  /\ register /\ e.session = current.session
  /\ \/ e.epoch > current.epoch
     \/ Later(e, current)
     \/ e.epoch = current.epoch /\ e.n = current.n /\ current.kind = "assert" /\ e.at > current.at

(* Mutant: the last writer wins.                                             *)
LastWriter(e, current) == e.at > current.at
Prevails(e, current) == Later(e, current) \/ Precedes(e, current)

(* The main loop of reduceMemoryEvents.                                      *)
Start == [record |-> NoEvent, cands |-> {}, pending |-> {}, resolved |-> {}, over |-> {}]
Replace(acc, e) == [acc EXCEPT !.record = e, !.over = @ \union {<<acc.record.at, e.at>>}]
Superseded(acc, e) == [acc EXCEPT !.over = @ \union {<<e.at, acc.record.at>>}]

Contest(acc, e) ==
  LET cand == {acc.record.at, e.at} \ {0}
  IN  [acc EXCEPT !.cands = @ \union {cand},
                  !.pending = IF e.kind = "assert"
                              THEN @ \union {[cand |-> cand, event |-> e, rival |-> acc.record]}
                              ELSE @]

Promotion(acc, e) ==
  [acc EXCEPT !.record = e,
              !.resolved = @ \union {c \in acc.cands : c \subseteq e.supersedes}
                             \union {p.cand : p \in {q \in acc.pending : q.event.at \in e.supersedes}}]

Apply(acc, e) ==
  LET current == acc.record
  IN  IF e.kind = "reject" THEN acc
      ELSE IF current # NoEvent /\ Older(e, current) THEN Superseded(acc, e)
      ELSE IF e.kind = "promote"
           THEN IF current.at \in e.supersedes THEN Promotion(acc, e) ELSE Contest(acc, e)
      ELSE IF current = NoEvent THEN [acc EXCEPT !.record = e]
      ELSE IF e.value = current.value THEN acc
      ELSE IF Prevails(e, current) THEN Replace(acc, e) ELSE Contest(acc, e)

(* Mutant: the turn of any session counts.                                   *)
SettleAny(acc, p) ==
  IF p.cand \in acc.resolved \/ p.event.n = acc.record.n THEN acc
  ELSE [IF p.event.n > acc.record.n THEN Replace(acc, p.event) ELSE Superseded(acc, p.event)
        EXCEPT !.resolved = @ \union {p.cand}]

(* resolveDeferredAsserts: an assertion that met a conflict is looked at      *)
(* again, against the final source of its own lineage. The first pass brings  *)
(* the record to its latest turn, the second settles the turns it overtook.  *)
Settle(acc, p) ==
  IF p.cand \in acc.resolved \/ ~SameLineage(p.event, acc.record) \/ p.event.n = acc.record.n
  THEN acc
  ELSE [IF p.event.n > acc.record.n THEN Replace(acc, p.event) ELSE Superseded(acc, p.event)
        EXCEPT !.resolved = @ \union {p.cand}]

Pass(acc, deferred) ==
  LET at(t) == {p \in deferred : p.event.at = t}
      after[t \in Nat] ==
        IF t = 0 THEN acc
        ELSE IF at(t) = {} THEN after[t - 1] ELSE Settle(after[t - 1], CHOOSE p \in at(t) : TRUE)
  IN  after[clock]

(* The conflicts are taken by turns: only those of the record's lineage are   *)
(* settled, and there the order of turns is that of the instants.             *)
Settled(acc, decided) == LET deferred == {p \in acc.pending : p.cand \notin decided}
                         IN  Pass(Pass(acc, deferred), deferred)

(* A conflict with a source that its own lineage has superseded is a conflict *)
(* with the final source, or none.                                           *)
Successors(over, t) ==
  FoldSet(LAMBDA edge, ts : ts \union {x[2] : x \in {y \in over : y[1] \in ts}}, {t}, over)

Reanchored(acc, cand) ==
  LET overtaken(p) == /\ p.rival # acc.record /\ SameLineage(p.rival, acc.record)
                      /\ acc.record.at \in Successors(acc.over, p.rival.at)
  IN  IF \A p \in acc.pending : p.cand # cand \/ ~overtaken(p) THEN {cand}
      ELSE {{acc.record.at, p.event.at} :
              p \in {q \in acc.pending : q.cand = cand /\ q.event.value # acc.record.value}}

Decided(events) == {e.decides : e \in {d \in events : IsDecision(d)}}

(* The events in the order of their instants, which no two share.             *)
Reduced(events) ==
  LET at(t) == {e \in events : e.at = t}
      after[t \in Nat] ==
        IF t = 0 THEN Start
        ELSE IF at(t) = {} THEN after[t - 1] ELSE Apply(after[t - 1], CHOOSE e \in at(t) : TRUE)
  IN  after[clock]

Replayed(events) == Settled(Reduced(events), Decided(events))

Full(events) ==
  LET acc == Replayed(events)
  IN  [record |-> acc.record,
       cands |-> UNION {Reanchored(acc, c) : c \in acc.cands} \ (Decided(events) \union acc.resolved)]

(* Mutant: an event that arrives late is applied like any other.             *)
FastApplyLate(acc, e) ==
  LET current == acc.record
  IN  IF ~acc.kept \/ IsDecision(e) THEN [acc EXCEPT !.kept = FALSE]
      ELSE IF current = NoEvent THEN [acc EXCEPT !.record = e, !.cursor = e.at]
      ELSE IF Older(e, current) \/ e.value = current.value THEN [acc EXCEPT !.cursor = e.at]
      ELSE IF Prevails(e, current) THEN [acc EXCEPT !.record = e, !.cursor = e.at]
      ELSE [acc EXCEPT !.kept = FALSE]

(* fastApplySnapshot: the tail in the order of arrival, or a fallback.        *)
FastApply(acc, e) ==
  LET current == acc.record
      older == current # NoEvent /\ Older(e, current)
      agrees == current # NoEvent /\ e.value = current.value
  IN  IF ~acc.kept \/ e.at < acc.cursor \/ IsDecision(e) THEN [acc EXCEPT !.kept = FALSE]
      ELSE IF older \/ agrees THEN [acc EXCEPT !.cursor = e.at]
      ELSE IF current = NoEvent \/ Prevails(e, current)
           THEN [acc EXCEPT !.record = e, !.cursor = e.at]
      ELSE [acc EXCEPT !.kept = FALSE]

Fast(events) ==
  LET after[i \in snapshot.through..Len(events)] ==
        IF i = snapshot.through THEN snapshot ELSE FastApply(after[i - 1], events[i])
  IN  after[Len(events)]
-----------------------------------------------------------------------------
Asserted == {e \in staged \union queue \union Logged : e.kind = "assert"}

(* A session ends a turn, ends the same turn anew with another value (an      *)
(* event of one turn and value has one identity), or lives on as another      *)
(* activation.                                                               *)
Observe(s, v) ==
  /\ Cardinality(Asserted) < MaxAsserts
  /\ clock' = clock + 1
  /\ \E t \in {turn[s], [turn[s] EXCEPT !.n = @ + 1], [epoch |-> turn[s].epoch + 1, n |-> 1]} :
       /\ t.n > 0
       /\ \A e \in Asserted : <<e.session, e.epoch, e.n>> = <<s, t.epoch, t.n>> => e.value # v
       /\ turn' = [turn EXCEPT ![s] = t]
       /\ staged' = staged \union {[at |-> clock', kind |-> "assert", session |-> s,
                                    epoch |-> t.epoch, n |-> t.n, value |-> v]}
  /\ UNCHANGED <<register, queue, ledger, snapshot, published, desk>>

Enqueue(e) == /\ e \in staged /\ staged' = staged \ {e} /\ queue' = queue \union {e}
              /\ UNCHANGED <<register, clock, turn, ledger, snapshot, published, desk>>

(* Two decisions on one candidate: of the same name with another payload, or  *)
(* incompatible. Either stops the projector before it changes anything.      *)
Collide(events) == \E d, e \in {f \in events : IsDecision(f)} : d # e /\ d.decides = e.decides

Project ==
  /\ queue # {} /\ ~Collide(queue \union Logged)
  /\ \E order \in SetToSeqs(queue) :
       LET events == ledger \o order
           fast == Fast(events)
           full == Full(Range(events))
           tail == Len(events) - snapshot.through
       IN  /\ ledger' = events
           /\ IF fast.kept
              THEN /\ published' = [record |-> fast.record, cands |-> {}]
                   /\ snapshot' = IF tail >= Advance THEN [fast EXCEPT !.through = Len(events)]
                                                     ELSE snapshot
              ELSE /\ published' = full
                   /\ snapshot' = IF full.cands # {} THEN snapshot
                                  ELSE [through |-> Len(events), record |-> full.record, kept |-> TRUE,
                                        cursor |-> Max({e.at : e \in Range(events)})]
  /\ queue' = {}
  /\ UNCHANGED <<register, clock, turn, staged, desk>>
-----------------------------------------------------------------------------
Said(t) == CHOOSE e \in Logged : e.kind # "reject" /\ e.at = t

(* promotedSupersedes.                                                       *)
Supersedes(cand, current) ==
  cand \union {x[1] : x \in {y \in Replayed(Logged).over : y[2] = current.at}}

Rejection(cand) == [at |-> clock + 1, kind |-> "reject", decides |-> cand, choice |-> 0]
Promoted(cand, t) ==
  LET chosen == Said(t)
  IN  [at |-> clock + 1, kind |-> "promote", decides |-> cand, choice |-> t,
       session |-> chosen.session, epoch |-> chosen.epoch, n |-> chosen.n, value |-> chosen.value,
       supersedes |-> Supersedes(cand, Full(Logged).record)]

(* decideMemoryCandidate up to the enqueue: the outbox has been projected,   *)
(* the candidate is published and undecided.                                 *)
Decide(o, cand) ==
  /\ desk[o] = NoEvent /\ queue = {} /\ cand \in published.cands
  /\ Cardinality({e \in queue \union Logged : IsDecision(e)}) < MaxDecisions
  /\ cand \notin Decided(Logged)
  /\ clock' = clock + 1
  /\ \/ desk' = [desk EXCEPT ![o] = Rejection(cand)]
     \/ \E t \in cand : /\ Full(Logged).record.at \in cand
                         /\ desk' = [desk EXCEPT ![o] = Promoted(cand, t)]
  /\ UNCHANGED <<register, turn, staged, queue, ledger, snapshot, published>>

(* enqueueMemoryEvent: a file of that name is already there, or it is not.   *)
SameName(d, e) == IsDecision(e) /\ d.kind = e.kind /\ d.decides = e.decides /\ d.choice = e.choice
Submit(o) ==
  /\ desk[o] # NoEvent
  /\ queue' = IF \E e \in queue : SameName(desk[o], e) THEN queue ELSE queue \union {desk[o]}
  /\ desk' = [desk EXCEPT ![o] = NoEvent]
  /\ UNCHANGED <<register, clock, turn, staged, ledger, snapshot, published>>

ReducerNext ==
  \/ \E s \in Session, v \in Value : Observe(s, v)
  \/ \E e \in staged : Enqueue(e)
  \/ Project
  \/ \E o \in Operator : Submit(o) \/ \E cand \in published.cands : Decide(o, cand)
ReducerSpec == ReducerInit /\ [][ReducerNext]_reducerVars
-----------------------------------------------------------------------------
ReducerTypeOK ==
  /\ clock \in 0..(MaxAsserts + MaxDecisions + Cardinality(Operator))
  /\ staged \intersect queue = {} /\ snapshot.through <= Len(ledger)
  /\ published.cands \subseteq SUBSET (1..clock)

Decisions == {e \in Logged : IsDecision(e)}
Since(e) == {f \in Logged : f.kind # "reject" /\ f.session = e.session /\ ~Older(f, e)}

(* A turn was promoted that its session had already gone beyond.              *)
Overtaken ==
  \E d, e \in Logged : d.kind = "promote" /\ e.kind = "assert" /\ Later(e, d) /\ e.at < d.at

(* The value that is published is the one a replay of the whole ledger gives, *)
(* whatever was read from a snapshot and in whatever order events arrived;    *)
(* unless a turn was promoted that its session had already gone beyond: the   *)
(* replay then settles the later turn after all that follows.                 *)
ValueIsReplay == published.record = Full(Logged).record \/ Overtaken

(* No session's word is dropped in silence (a concurrent writer never becomes *)
(* an accidental winner): what it asserted, or what it went on to say, is the *)
(* value, was said by another too, awaits a decision, or was decided upon.    *)
NoVoiceLost ==
  LET judged == UNION (published.cands \union Decided(Logged)) \union
                UNION {d.supersedes : d \in {x \in Decisions : x.kind = "promote"}}
      shared(f) == \E g \in Logged : g.kind = "assert" /\ g.session # f.session /\ g.value = f.value
  IN  \A e \in Logged : e.kind = "assert" => \E f \in Since(e) :
        \/ f.value = published.record.value \/ shared(f)
        \/ \E g \in Logged : g.at \in judged /\ g.value = f.value

(* What a person promoted is the value until the session it was promoted from *)
(* says more, or it, or what that session went on to say, meets a conflict or *)
(* another decision.                                                          *)
DecisionStands ==
  \A d \in Decisions : d.kind = "promote" =>
    \/ published.record.value = d.value
    \/ published.record \in Since(d)
    \/ \E f \in Since(d) :
         \/ \E c \in published.cands : f.at \in c
         \/ \E x \in Decisions \ {d} :
              f.at \in x.decides \union (IF x.kind = "promote" THEN x.supersedes ELSE {})

(* docs/en/commands/memory.md:134: "`promote`/`reject` append an auditable,   *)
(* idempotent decision to the ledger". The same decision made twice, from two *)
(* terminals, never leaves two events of one name and different payloads,     *)
(* which no projection takes any more.                                       *)
DecisionIsIdempotent == \A d, e \in queue \union Logged :
                          IsDecision(d) /\ IsDecision(e) /\ SameName(d, e) => d = e

(* Does not hold. docs/en/commands/memory.md:143: "A later Stop from the same *)
(* session/activation therefore advances the value". After a promotion, what  *)
(* its session says in a later turn is not set back to an earlier one.        *)
LaterStopAdvances ==
  \A d, e \in Logged :
    /\ d.kind = "promote" /\ e.kind = "assert" /\ Later(e, d) /\ d.at < e.at
    /\ Later(e, published.record)
    => \E f \in Logged : /\ f.kind = "assert" /\ ~Later(e, f) /\ SameLineage(f, e)
                        /\ f.value = published.record.value

(* memory.md:134: "Replay and repair preserve that decision and do not        *)
(* recreate the resolved candidate": what a replay of the ledger would put up *)
(* for decision is what was published.                                       *)
ReplayRecreatesNothing == Full(Logged).cands \subseteq published.cands
=============================================================================
