----------------------------- MODULE MemoryStore -----------------------------
(* The shared project memory of packages/vault: producers put immutable      *)
(* events in an outbox, one file each; a projector, alone under MEMORY.lock  *)
(* (VaultLock), appends new ones to the ledger MEMORY_EVENTS.jsonl, publishes *)
(* SHARED_MEMORY.md and MEMORY_CANDIDATES.jsonl, sometimes a snapshot of the *)
(* projection, and only then removes the outbox files.  A crash or a failed  *)
(* write can fall between any two durable effects or inside one.             *)
EXTENDS MemoryLedger

VARIABLES
  outbox,      \* "absent", "torn" or "whole": the file of each event
  writing,     \* events a living producer is writing
  acked,       \* events some enqueueMemoryEvent returned for
  refused,     \* events whose enqueue ended in MemoryEventCollision
  shared,      \* what SHARED_MEMORY.md was reduced from
  candidates,  \* what MEMORY_CANDIDATES.jsonl was reduced from
  pc,          \* where the lock holder is; "idle" when nobody holds it
  batch,       \* outbox files it read
  fresh,       \* events it will append
  target,      \* events its projection is reduced from
  full,        \* did it replay the whole ledger
  creates, crashes

files == <<outbox, ledger, shared, candidates>>
producerVars == <<writing, acked, refused, creates>>
runVars == <<pc, batch, fresh, target, full>>
storeVars == <<files, producerVars, runVars, crashes>>

StorePlace == {"append", "shared", "candidates", "snapshot", "unlink"}
Projected(upto, last, events, g) ==
  [upto |-> upto, last |-> last, events |-> events, generation |-> g]

Whole == {e \in Event : outbox[e] = "whole"}

StoreInit == /\ LedgerInit
             /\ outbox = [e \in Event |-> "absent"]
             /\ writing = {} /\ acked = {} /\ refused = {}
             /\ shared = {} /\ candidates = {}
             /\ pc = "idle" /\ batch = {} /\ fresh = <<>> /\ target = {} /\ full = FALSE
             /\ creates = 0 /\ crashes = 0
-----------------------------------------------------------------------------
(* enqueueMemoryEvent                                                        *)
Create(e) == /\ outbox[e] = "absent"
             /\ creates < MaxCreates
             /\ creates' = creates + 1
             /\ outbox' = [outbox EXCEPT ![e] = "torn"]
             /\ writing' = writing \union {e}
             /\ UNCHANGED <<ledger, shared, candidates, acked, refused, runVars, crashes>>

(* write and fsync; the producer learns of it unless it dies first.          *)
Write(e) == /\ e \in writing
            /\ outbox' = [outbox EXCEPT ![e] = "whole"]
            /\ writing' = writing \ {e}
            /\ acked' = acked \union {e}
            /\ UNCHANGED <<ledger, shared, candidates, refused, creates, runVars, crashes>>

(* EEXIST with the same bytes: a duplicate, acknowledged as well.            *)
Repeat(e) == /\ outbox[e] = "whole"
             /\ e \notin acked
             /\ acked' = acked \union {e}
             /\ UNCHANGED <<files, writing, refused, creates, runVars, crashes>>

(* EEXIST with bytes that do not parse for all the time the caller polls: a  *)
(* living producer would have finished.                                      *)
Collide(e) == /\ outbox[e] = "torn"
              /\ e \notin writing
              /\ e \notin refused
              /\ refused' = refused \union {e}
              /\ UNCHANGED <<files, writing, acked, creates, runVars, crashes>>

(* The producer dies with its file empty, partial or whole.                  *)
ProducerDies(e) == /\ e \in writing
                   /\ crashes < MaxCrashes
                   /\ crashes' = crashes + 1
                   /\ \E c \in {"torn", "whole"} : outbox' = [outbox EXCEPT ![e] = c]
                   /\ writing' = writing \ {e}
                   /\ UNCHANGED <<ledger, shared, candidates, acked, refused, creates, runVars>>
-----------------------------------------------------------------------------
FromSnapshot == snapshot.events \union InTail

(* Mutant: the bloom filter is not consulted.                                *)
NoBloom(b) == SnapshotUsable

(* An outbox event the bloom filter may hold needs the whole ledger.         *)
Incremental(b) == SnapshotUsable /\ b \cap snapshot.events = {}

(* projectLocked up to the append: the outbox is read, and the projection    *)
(* prepared from the snapshot and the tail or from the whole ledger.  The    *)
(* incremental path falls back for many reasons besides the ones here.       *)
Plan(b) ==
  /\ pc = "idle"
  /\ batch' = b
  /\ full' \in BOOLEAN
  /\ \/ /\ full'
        /\ Readable
        /\ fresh' = SetToSeq(b \ Range(Ledger))
        /\ target' = Range(Ledger) \union b
     \/ /\ ~full'
        /\ Incremental(b)
        /\ fresh' = SetToSeq(b \ InTail)
        /\ target' = FromSnapshot \union b
  /\ pc' = "append"
  /\ UNCHANGED <<files, producerVars, crashes>>

(* One outbox file that does not parse stops the projector.                  *)
Project == /\ \A e \in Event : outbox[e] # "torn"
           /\ Plan(Whole)

(* reprojectMemoryLedger leaves the outbox alone.                            *)
Reproject == Plan({})

(* What the ledger's lines become when s is appended to its bytes: the first *)
(* new line joins an unterminated one.                                       *)
Joined(s) == IF ended \/ s = <<>> \/ lines = <<>> THEN lines \o s
             ELSE Front(lines) \o <<Bad>> \o Tail(s)

AppendLedger ==
  /\ pc = "append"
  /\ lines' = Joined(fresh)
  /\ ended' = (ended \/ fresh # <<>>)
  /\ pc' = "shared"
  /\ UNCHANGED <<outbox, shared, candidates, snapshot, rotated, producerVars, batch,
                 fresh, target, full, crashes>>

PublishShared == /\ pc = "shared"
                 /\ shared' = target
                 /\ pc' = "candidates"
                 /\ UNCHANGED <<outbox, ledger, candidates, producerVars, batch, fresh,
                                target, full, crashes>>

PublishCandidates == /\ pc = "candidates"
                     /\ candidates' = target
                     /\ pc' \in {"snapshot", "unlink"}
                     /\ UNCHANGED <<outbox, ledger, shared, producerVars, batch, fresh,
                                    target, full, crashes>>

(* writeSnapshot: skipped when the last line is unterminated or not an event. *)
WriteSnapshot ==
  /\ pc = "snapshot"
  /\ snapshot' = IF lines = <<>> THEN Projected(0, None, target, 0)
                 ELSE IF ended /\ Last(lines) # Bad
                   THEN Projected(Len(lines), Last(lines), target, 0)
                   ELSE snapshot
  /\ pc' = "unlink"
  /\ UNCHANGED <<outbox, lines, ended, rotated, shared, candidates, producerVars,
                 batch, fresh, target, full, crashes>>

(* Mutant: removes what the directory lists now, not what was read.          *)
UnlinkListed(e) == /\ pc = "unlink"
                   /\ outbox[e] # "absent"
                   /\ outbox' = [outbox EXCEPT ![e] = "absent"]
                   /\ batch' = batch \ {e}
                   /\ UNCHANGED <<ledger, shared, candidates, producerVars, pc, fresh,
                                  target, full, crashes>>

Unlink(e) == /\ pc = "unlink"
             /\ e \in batch
             /\ outbox' = [outbox EXCEPT ![e] = "absent"]
             /\ batch' = batch \ {e}
             /\ UNCHANGED <<ledger, shared, candidates, producerVars, pc, fresh,
                            target, full, crashes>>

EndRun == /\ pc' = "idle" /\ batch' = {} /\ fresh' = <<>>
          /\ target' = {} /\ full' = FALSE

Return == /\ pc = "unlink"
          /\ batch = {}
          /\ EndRun
          /\ UNCHANGED <<files, producerVars, crashes>>
-----------------------------------------------------------------------------
(* The lock holder dies or a write fails: an append leaves some of its lines, *)
(* perhaps a cut one; the projections and the snapshot are replaced by rename. *)
Crash ==
  /\ pc \in StorePlace
  /\ crashes < MaxCrashes
  /\ crashes' = crashes + 1
  /\ EndRun
  /\ \/ UNCHANGED <<lines, ended>>
     \/ /\ pc = "append" /\ ended
        /\ \E n \in 1 .. Len(fresh) :
             \/ /\ lines' = lines \o SubSeq(fresh, 1, n)
                /\ \/ ended' = TRUE
                   \/ "unterminated" \in TearKinds /\ ended' = FALSE
             \/ /\ "inside" \in TearKinds
                /\ lines' = lines \o SubSeq(fresh, 1, n - 1) \o <<Bad>>
                /\ ended' = FALSE
  /\ UNCHANGED <<outbox, shared, candidates, snapshot, rotated, producerVars>>

(* Mutant: the cut tail is only given its newline.                           *)
RepairNewline == /\ pc = "idle"
                 /\ ~LedgerOk
                 /\ ~ended
                 /\ ended' = TRUE
                 /\ UNCHANGED <<outbox, lines, rotated, shared, candidates, snapshot,
                                producerVars, runVars, crashes>>

(* The lines that are events, in their order: Nth(i) is where the i-th stands. *)
EventLines ==
  LET Good == {j \in DOMAIN lines : lines[j] # Bad}
      Nth(i) == CHOOSE j \in Good : Cardinality({k \in Good : k <= j}) = i
  IN  [i \in 1 .. Cardinality(Good) |-> lines[Nth(i)]]

(* repairMemoryLedger: keeps every line that is an event, in one rename.     *)
Repair == /\ pc = "idle"
          /\ ~LedgerOk
          /\ lines' = EventLines
          /\ ended' = TRUE
          /\ UNCHANGED <<outbox, shared, candidates, snapshot, rotated, producerVars,
                         runVars, crashes>>

Run == \/ Project \/ AppendLedger \/ PublishShared \/ PublishCandidates
       \/ WriteSnapshot \/ (\E e \in Event : Unlink(e)) \/ Return

Producers == \E e \in Event : \/ Create(e) \/ Write(e) \/ Repeat(e)
                              \/ Collide(e) \/ ProducerDies(e)
-----------------------------------------------------------------------------
StoreTypeOK == /\ outbox \in [Event -> {"absent", "torn", "whole"}]
               /\ writing \subseteq Event /\ acked \subseteq Event
               /\ refused \subseteq Event
               /\ shared \subseteq Event /\ candidates \subseteq Event
               /\ batch \subseteq Event /\ target \subseteq Event
               /\ fresh \in Seq(Event) /\ full \in BOOLEAN
               /\ creates \in 0..MaxCreates /\ crashes \in 0..MaxCrashes
               /\ \A e \in writing : outbox[e] = "torn"
=============================================================================
