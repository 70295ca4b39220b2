--------------------------- MODULE MemoryRotation ---------------------------
(* The whole of the shared memory: the producers and the projector of         *)
(* MemoryStore together with the segments' seal and the rotation of the       *)
(* ledger, all under MEMORY.lock.  A rotation keeps the ledger in an immutable *)
(* backup and leaves its last event alone in the active file; its journal     *)
(* lets a later call resume it after a crash.                                *)
EXTENDS MemoryStore

VARIABLE plan   \* what the running rotation works from, None outside one

vars == <<storeVars, plan>>
memory == <<outbox, shared, candidates, producerVars, batch, fresh, target, full>>

RotationPlan == [gen : 1..MaxRotations, source : Seq(Event), ended : BOOLEAN,
                 events : Seq(Event), snap : Projection]

ASSUME FileAssumption == /\ None \notin Projection
                         /\ None \notin [stage : Stage, plan : RotationPlan]

RotationPlace == {"backup", "journal", "switch", "mark switched", "state", "mark state",
                  "reanchor", "mark snapshot", "receipt", "anchor", "mark receipt",
                  "remove journal", "remove candidate"}

(* The active ledger and the snapshot a plan leads to.                       *)
Candidate(p) == <<Last(p.events)>>
Reanchored(p) == Projected(1, Last(p.events), Range(p.events), p.gen)

IsCandidate(p) == lines = Candidate(p) /\ ended
IsSource(p) == lines = p.source /\ ended = p.ended

(* Mutant: the generation state as it is stored.                             *)
StoredGeneration == generation

(* readMemoryLedgerGeneration of the view: while the journal says "switched"  *)
(* the previous generation counts as missing, so that it can be replaced.    *)
PublishedGeneration ==
  IF journal # None /\ journal.stage = "switched" /\ journal.plan.gen = generation + 1
    THEN 0 ELSE generation

(* What the step at each place demands of the files before it writes.        *)
Passes == CASE pc = "switch" ->
                 /\ LedgerOk
                 /\ \/ IsCandidate(plan)
                    \/ IsSource(plan) /\ PublishedGeneration = plan.gen - 1
            [] pc = "state" -> PublishedGeneration \in {0, plan.gen}
            [] pc = "reanchor" -> snapshot \in {plan.snap, Reanchored(plan)}
            [] pc = "receipt" -> Bad \notin Range(receipts)
            [] OTHER -> TRUE

At(place) == pc = place /\ Passes

Init == StoreInit /\ plan = None
-----------------------------------------------------------------------------
(* sealMemorySegments: policy and force decide how much of what the snapshot  *)
(* covers goes to segments.                                                  *)
Seal == /\ pc = "idle"
        /\ SnapshotUsable /\ Readable
        /\ LET covered == Cardinality(snapshot.events)
           IN  /\ covered <= Len(Ledger)
               /\ snapshot.events = Range(SubSeq(Ledger, 1, covered))
               /\ sealed' \in sealed + 1 .. covered
        /\ UNCHANGED <<lines, ended, snapshot, generation, backup, journal, leftover,
                       receipts, anchored, memory, pc, crashes, plan>>

(* buildPlan without a blocker: nothing in the outbox, no residue of an       *)
(* earlier rotation, and a snapshot and segments that cover the whole ledger. *)
Rotate ==
  /\ pc = "idle"
  /\ generation < MaxRotations
  /\ \A e \in Event : outbox[e] = "absent"
  /\ Readable /\ ~leftover
  /\ Ledger # <<>>
  /\ generation > 0 => Len(lines) > 1
  /\ SnapshotUsable
  /\ snapshot.upto = Len(lines) /\ Cardinality(snapshot.events) = Len(Ledger)
  /\ sealed = Len(Ledger)
  /\ plan' = [gen |-> generation + 1, source |-> lines, ended |-> ended,
              events |-> Ledger, snap |-> snapshot]
  /\ pc' = "backup"
  /\ UNCHANGED <<ledger, memory, crashes>>

WriteBackup == /\ At("backup")
               /\ backup' = [backup EXCEPT ![plan.gen] = plan.events]
               /\ pc' = "journal"
               /\ UNCHANGED <<lines, ended, snapshot, generation, journal, leftover,
                              receipts, anchored, sealed, memory, crashes, plan>>

(* The candidate is written just before; it only matters with its journal.   *)
WriteJournal == /\ At("journal")
                /\ journal' = [stage |-> "prepared", plan |-> plan]
                /\ pc' = "switch"
                /\ UNCHANGED <<lines, ended, snapshot, generation, backup, leftover,
                               receipts, anchored, sealed, memory, crashes, plan>>

Switch == /\ At("switch")
          /\ lines' = Candidate(plan)
          /\ ended' = TRUE
          /\ pc' = "mark switched"
          /\ UNCHANGED <<snapshot, rotated, memory, crashes, plan>>

PublishState == /\ At("state")
                /\ generation' = plan.gen
                /\ pc' = "mark state"
                /\ UNCHANGED <<lines, ended, snapshot, backup, journal, leftover,
                               receipts, anchored, sealed, memory, crashes, plan>>

ReanchorSnapshot == /\ At("reanchor")
                    /\ snapshot' = Reanchored(plan)
                    /\ pc' = "mark snapshot"
                    /\ UNCHANGED <<lines, ended, rotated, memory, crashes, plan>>

(* ensureReceipt: found by its operation_id, or appended.                    *)
AppendReceipt == /\ At("receipt")
                 /\ receipts' = IF plan.gen \in Range(receipts) THEN receipts
                                ELSE Append(receipts, plan.gen)
                 /\ pc' = "anchor"
                 /\ UNCHANGED <<lines, ended, snapshot, generation, backup, journal,
                                leftover, anchored, sealed, memory, crashes, plan>>

Anchor == /\ At("anchor")
          /\ anchored' = Len(receipts)
          /\ pc' = "mark receipt"
          /\ UNCHANGED <<lines, ended, snapshot, generation, backup, journal, leftover,
                         receipts, sealed, memory, crashes, plan>>

(* updateJournalStage, for the stages that come before the new one.          *)
Mark(place, before, stage, next) ==
  /\ At(place)
  /\ journal' = IF journal.stage \in before THEN [journal EXCEPT !.stage = stage]
                ELSE journal
  /\ pc' = next
  /\ UNCHANGED <<lines, ended, snapshot, generation, backup, leftover, receipts,
                 anchored, sealed, memory, crashes, plan>>

MarkSwitched == Mark("mark switched", {"prepared"}, "switched", "state")
MarkState == Mark("mark state", {"prepared", "switched"}, "state-published", "reanchor")
MarkSnapshot == Mark("mark snapshot", {"prepared", "switched", "state-published"},
                     "snapshot-published", "receipt")
MarkReceipt == Mark("mark receipt", Stage, "receipt-published", "remove journal")

RemoveJournal == /\ At("remove journal")
                 /\ journal' = None
                 /\ leftover' = TRUE
                 /\ pc' = "remove candidate"
                 /\ UNCHANGED <<lines, ended, snapshot, generation, backup, receipts,
                                anchored, sealed, memory, crashes, plan>>

RemoveCandidate == /\ At("remove candidate")
                   /\ leftover' = FALSE
                   /\ plan' = None
                   /\ EndRun
                   /\ UNCHANGED <<lines, ended, snapshot, generation, backup, journal,
                                  receipts, anchored, sealed, outbox, shared,
                                  candidates, producerVars, crashes>>

(* A step that finds other files than the plan allows throws.                *)
Refuse == /\ pc \in RotationPlace
          /\ ~Passes
          /\ plan' = None
          /\ EndRun
          /\ UNCHANGED <<files, producerVars, crashes>>
-----------------------------------------------------------------------------
(* recoverMemoryLedgerRotation and rotateMemoryLedger with a journal: the     *)
(* plan comes from the journal, its backup and segments are verified, and    *)
(* the rotation is taken up from the switch.                                 *)
Recover == /\ pc = "idle"
           /\ journal # None
           /\ backup[journal.plan.gen] = journal.plan.events
           /\ sealed = Len(journal.plan.events)
           /\ plan' = journal.plan
           /\ pc' = "switch"
           /\ UNCHANGED <<ledger, memory, crashes>>

(* The same without a journal removes the candidate a crash left behind.     *)
Finalize == /\ pc = "idle"
            /\ journal = None
            /\ leftover /\ Readable
            /\ leftover' = FALSE
            /\ UNCHANGED <<lines, ended, snapshot, generation, backup, journal, receipts,
                           anchored, sealed, memory, pc, crashes, plan>>

(* The process dies between two effects, or while it appends the receipt; all *)
(* other files are replaced by rename.                                       *)
RotationCrash ==
  /\ pc \in RotationPlace
  /\ crashes < MaxCrashes
  /\ crashes' = crashes + 1
  /\ plan' = None
  /\ EndRun
  /\ \/ UNCHANGED receipts
     \/ /\ At("receipt") /\ plan.gen \notin Range(receipts)
        /\ "inside" \in TearKinds
        /\ receipts' = Append(receipts, Bad)
  /\ UNCHANGED <<lines, ended, snapshot, generation, backup, journal, leftover, anchored,
                 sealed, outbox, shared, candidates, producerVars>>

RotationStep == \/ WriteBackup \/ WriteJournal \/ Switch \/ MarkSwitched
                \/ PublishState \/ MarkState \/ ReanchorSnapshot \/ MarkSnapshot
                \/ AppendReceipt \/ Anchor \/ MarkReceipt \/ RemoveJournal
                \/ RemoveCandidate \/ Refuse

StoreStep == (Producers \/ Run \/ Reproject \/ Crash \/ Repair) /\ UNCHANGED plan

Next == StoreStep \/ Seal \/ Rotate \/ RotationStep \/ Recover \/ Finalize \/ RotationCrash

Spec == Init /\ [][Next]_vars

(* A living producer finishes its file, a running projector or rotation goes  *)
(* on, and projections, repairs and recoveries keep being attempted.         *)
FairSpec == /\ Spec
            /\ \A e \in Event : WF_vars(Write(e) /\ UNCHANGED plan)
            /\ WF_vars(Run /\ pc # "idle" /\ UNCHANGED plan)
            /\ WF_vars(RotationStep)
            /\ SF_vars(Project /\ UNCHANGED plan)
            /\ SF_vars(Repair /\ UNCHANGED plan)
            /\ SF_vars(Recover)
-----------------------------------------------------------------------------
(* Where an event can be read back from: the current generation, or, while a  *)
(* rotation is unfinished, the backup its journal names.                     *)
Stored == Range(Ledger) \union
          (IF journal = None THEN {} ELSE Range(backup[journal.plan.gen]))

(* An acknowledged event survives every crash, every cut write and every     *)
(* rotation: it is whole in the outbox or it can still be read back.         *)
Durable == \A e \in acked : outbox[e] = "whole" \/ e \in Stored

(* However often a producer retries and wherever a projector or a rotation    *)
(* dies, an event is at most once in the ledger, across generations too.     *)
ExactlyOnce == \A i, j \in DOMAIN Ledger :
                 Ledger[i] = Ledger[j] /\ Ledger[i] # Bad => i = j

(* The view of the ledger never takes a truncated active file for the whole:  *)
(* what it accepts holds every event that was shared or consumed.            *)
ReadIsWhole ==
  Readable => shared \union {e \in acked : outbox[e] = "absent"} \subseteq Range(Ledger)

(* Somebody wrote the active ledger or the snapshot under the journal.       *)
Interfered(p) == \/ ~IsSource(p) /\ ~IsCandidate(p)
                 \/ snapshot \notin {p.snap, Reanchored(p)}

(* Wherever the process died, each step of a resumed rotation finds its own   *)
(* earlier effects and goes on: only a foreign write or a cut receipt can    *)
(* refuse it.                                                                *)
RotationConverges ==
  pc \in RotationPlace =>
    Passes \/ Bad \in Range(receipts) \/ Interfered(plan)

(* The test of every crash point and the comment of readMemoryLedger: an      *)
(* unfinished rotation stays recoverable.                                    *)
RecoveryConverges == pc \in RotationPlace => Passes

(* What stops the projector for good: the outbox file of a dead producer, or  *)
(* a rotation that can no longer be recovered.                               *)
Blocked == \/ \E e \in Event \ writing : outbox[e] = "torn"
           \/ journal # None /\ (Interfered(journal.plan) \/ Bad \in Range(receipts))

(* An acknowledged event is eventually projected unless the store is blocked. *)
EventuallyShared == \A e \in Event : e \in acked ~> e \in shared \/ Blocked

(* The comment of enqueueMemoryEvent: a retry with the same canonical        *)
(* payload is a no-op.  Here every retry has the same payload.               *)
RetryIsNoOp == refused = {}

(* The README: MEMORY_EVENTS.jsonl is the append-only authority, so no step  *)
(* takes an event out of what can be read back.                              *)
AppendOnly == [][Stored \ {Bad} \subseteq Stored']_vars

TypeOK == /\ LedgerTypeOK /\ StoreTypeOK
          /\ pc \in {"idle"} \union StorePlace \union RotationPlace
          /\ (plan # None) <=> (pc \in RotationPlace)
=============================================================================
