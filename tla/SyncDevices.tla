----------------------------- MODULE SyncDevices -----------------------------
(***************************************************************************)
(* Devices that run `wendkeep sync push | pull | resolve` against the      *)
(* filesystem adapter: src/sync-protocol-cli.mjs, packages/sync/src/       *)
(* sync-outbox.mjs and sync-adapters.mjs, over the record of SyncRecord.   *)
(*                                                                         *)
(* Each device has an authored vault, the portable state file exported     *)
(* from it, a durable outbox with acknowledgements and a local copy of the *)
(* state.  The backend is a directory: STATE.json, replaced by a rename,   *)
(* EVENTS.jsonl, rewritten in place, and a lock directory.                 *)
(*                                                                         *)
(* Abstractions.  One record key (keys never read each other's state): the *)
(* vault's authored content is one `version`, and every edit is a new one. *)
(* One command runs on a device at a time.  A local file is replaced by a  *)
(* rename under its own lock, so its write is one step.  The cursor counts *)
(* lines for the report only, as this adapter always returns its state.    *)
(* Time: a critical section ends within staleMs, so only the lock of a     *)
(* dead owner is reaped.                                                   *)
(*                                                                         *)
(* Bounds: MaxEdits versions, MaxEvents events, MaxCrashes deaths.         *)
(***************************************************************************)
EXTENDS SyncRecord, Sequences, SequencesExt

CONSTANTS Devices, NoDevice, MaxEdits, MaxEvents, MaxCrashes

ASSUME SyncAssumption ==
    /\ NoDevice \notin Devices
    /\ MaxEdits \in Nat \ {0} /\ MaxEvents \in Nat /\ MaxCrashes \in Nat

VARIABLES
    vault,      \* the version each device's vault holds
    portable,   \* the version in .wendkeep/portable/state.json, 0 when absent
    outbox,     \* OUTBOX.jsonl of each device
    acks,       \* ACKS.jsonl: the event ids the backend acknowledged
    local,      \* LOCAL_STATE.json of each device
    state,      \* the backend's STATE.json
    log,        \* the backend's EVENTS.jsonl, as event ids
    torn,       \* its last line was cut and does not parse
    lock,       \* the device that made the lock directory
    pc,         \* where each device's command is
    todo,       \* the events it still has to push
    next,       \* the state it computed in the critical section
    made,       \* every event made; the properties trace ancestry through it
    edits, crashes

vars == <<vault, portable, outbox, acks, local, state, log, torn, lock, pc,
          todo, next, made, edits, crashes>>

device  == <<vault, portable, outbox, acks, local>>
backend == <<state, log, torn, lock>>
bounds  == <<made, edits, crashes>>

Init ==
    /\ vault = [d \in Devices |-> 1]
    /\ portable = [d \in Devices |-> 0]
    /\ outbox = [d \in Devices |-> <<>>]
    /\ acks = [d \in Devices |-> {}]
    /\ local = [d \in Devices |-> Empty]
    /\ state = Empty
    /\ log = <<>>
    /\ torn = FALSE
    /\ lock = NoDevice
    /\ pc = [d \in Devices |-> "idle"]
    /\ todo = [d \in Devices |-> <<>>]
    /\ next = [d \in Devices |-> Empty]
    /\ made = {}
    /\ edits = 1
    /\ crashes = 0

(***************************************************************************)
(* The author and `wendkeep portable export`.                              *)
(***************************************************************************)
Edit(d) ==
    /\ pc[d] = "idle" /\ edits < MaxEdits
    /\ edits' = edits + 1
    /\ vault' = [vault EXCEPT ![d] = edits + 1]
    /\ UNCHANGED <<portable, outbox, acks, local, backend, pc, todo, next,
                   made, crashes>>

Export(d) ==
    /\ pc[d] = "idle" /\ portable[d] # vault[d]
    /\ portable' = [portable EXCEPT ![d] = vault[d]]
    /\ UNCHANGED <<vault, outbox, acks, local, backend, pc, todo, next, bounds>>

(***************************************************************************)
(* push.  Local conflicts refuse it; a record whose content is not the     *)
(* portable one becomes a fresh event on the local revision.               *)
(***************************************************************************)
Desired(d) == local[d].record = NoRecord \/ local[d].record.payload # portable[d]

Fresh == Cardinality(made) + 1

FreshEvent(d) ==
    LET current == local[d].record
    IN  [id |-> Fresh, base |-> Revision(current), payload |-> portable[d],
         parents |-> IF current = NoRecord THEN {} ELSE {current.id}, op |-> "put"]

(* readPendingSyncEvents, after the fresh event is in the outbox: Nth(i) is *)
(* where the i-th event that is not acknowledged stands.                   *)
Pending(d) ==
    LET Open == {i \in DOMAIN outbox'[d] : outbox'[d][i].id \notin acks[d]}
        Nth(i) == CHOOSE j \in Open : Cardinality({k \in Open : k <= j}) = i
    IN  [i \in 1..Cardinality(Open) |-> outbox'[d][Nth(i)]]

Push(d) ==
    /\ pc[d] = "idle" /\ portable[d] # 0
    /\ local[d].conflict # "open"
    /\ IF Desired(d)
       THEN /\ Fresh <= MaxEvents
            /\ outbox' = [outbox EXCEPT ![d] = Append(@, FreshEvent(d))]
            /\ made' = made \cup {FreshEvent(d)}
       ELSE UNCHANGED <<outbox, made>>
    /\ todo' = [todo EXCEPT ![d] = Pending(d)]
    /\ pc' = [pc EXCEPT ![d] = "send"]
    /\ UNCHANGED <<vault, portable, acks, local, backend, next, edits, crashes>>

(***************************************************************************)
(* The adapter's push of one event, under the backend's lock.  EVENTS is   *)
(* opened with truncation and rewritten, then STATE is renamed into place. *)
(* A ledger that does not parse ends the command.                          *)
(***************************************************************************)
(* Bugs: the event is acknowledged when it is sent, not when it is stored; *)
(* the state is changed without the lock.                                  *)
AckOnSend(d) ==
    /\ pc[d] = "send" /\ todo[d] # <<>> /\ lock = NoDevice /\ ~torn
    /\ lock' = d
    /\ acks' = [acks EXCEPT ![d] = @ \cup {Head(todo[d]).id}]
    /\ next' = [next EXCEPT ![d] = applySyncEvent(state, Head(todo[d]))]
    /\ pc' = [pc EXCEPT ![d] = "append"]
    /\ UNCHANGED <<vault, portable, outbox, local, state, log, torn, todo, bounds>>

Take(d) ==
    /\ pc[d] = "send" /\ todo[d] # <<>> /\ lock = NoDevice /\ ~torn
    /\ lock' = d
    /\ next' = [next EXCEPT ![d] = applySyncEvent(state, Head(todo[d]))]
    /\ pc' = [pc EXCEPT ![d] = "append"]
    /\ UNCHANGED <<device, state, log, torn, todo, bounds>>

Listed(d) == Head(todo[d]).id \in Range(log)

List(d) ==
    /\ pc[d] = "append"
    /\ log' = IF Listed(d) THEN log ELSE Append(log, Head(todo[d]).id)
    /\ pc' = [pc EXCEPT ![d] = "save"]
    /\ UNCHANGED <<device, state, torn, lock, todo, next, bounds>>

Save(d) ==
    /\ pc[d] = "save"
    /\ state' = next[d]
    /\ pc' = [pc EXCEPT ![d] = "unlock"]
    /\ UNCHANGED <<device, log, torn, lock, todo, next, bounds>>

Unlock(d) ==
    /\ pc[d] = "unlock"
    /\ lock' = NoDevice
    /\ next' = [next EXCEPT ![d] = Empty]
    /\ pc' = [pc EXCEPT ![d] = IF todo[d] = <<>> THEN "send" ELSE "ack"]
    /\ UNCHANGED <<device, state, log, torn, todo, bounds>>

(* onAcknowledged: every status the adapter returns is acknowledged.       *)
Acknowledge(d) ==
    /\ pc[d] = "ack"
    /\ acks' = [acks EXCEPT ![d] = @ \cup {Head(todo[d]).id}]
    /\ todo' = [todo EXCEPT ![d] = Tail(@)]
    /\ pc' = [pc EXCEPT ![d] = "send"]
    /\ UNCHANGED <<vault, portable, outbox, local, backend, next, bounds>>

(***************************************************************************)
(* pull, its own command or the end of push and resolve: the backend's     *)
(* state, read without the lock, replaces the local one.  With --no-import *)
(* the command ends there.                                                 *)
(***************************************************************************)
Reads(d) == ~torn /\ local' = [local EXCEPT ![d] = state]

Pull(d) ==
    /\ pc[d] = "idle" /\ Reads(d)
    /\ \E after \in {"import", "idle"} : pc' = [pc EXCEPT ![d] = after]
    /\ UNCHANGED <<vault, portable, outbox, acks, backend, todo, next, bounds>>

PullAtEnd(d) ==
    /\ pc[d] = "send" /\ todo[d] = <<>> /\ Reads(d)
    /\ pc' = [pc EXCEPT ![d] = "idle"]
    /\ UNCHANGED <<vault, portable, outbox, acks, backend, todo, next, bounds>>

(* importPortableState of the pulled records; an open conflict, or nothing *)
(* to import, ends the command with the vault as it was.                   *)
Import(d) ==
    /\ pc[d] = "import"
    /\ vault' = IF local[d].record = NoRecord \/ local[d].conflict = "open"
                THEN vault
                ELSE [vault EXCEPT ![d] = local[d].record.payload]
    /\ pc' = [pc EXCEPT ![d] = "idle"]
    /\ UNCHANGED <<portable, outbox, acks, local, backend, todo, next, bounds>>

(***************************************************************************)
(* resolve: the adapter reads STATE under the lock; a conflict that is no  *)
(* longer open ends the command, its lock removed.                         *)
(***************************************************************************)
Resolve(d) ==
    /\ pc[d] = "idle" /\ lock = NoDevice
    /\ state.conflict = "open" /\ Fresh <= MaxEvents
    /\ \E selected \in state.candidates :
          /\ next' = [next EXCEPT ![d] = resolveSyncConflict(state, selected, Fresh)]
          /\ made' = made \cup {Resolution(state, selected, Fresh)}
    /\ lock' = d
    /\ pc' = [pc EXCEPT ![d] = "record"]
    /\ UNCHANGED <<device, state, log, torn, todo, edits, crashes>>

RecordResolution(d) ==
    /\ pc[d] = "record"
    /\ log' = Append(log, next[d].record.id)
    /\ pc' = [pc EXCEPT ![d] = "save"]
    /\ UNCHANGED <<device, state, torn, lock, todo, next, bounds>>

(***************************************************************************)
(* Failures.  A command ends with an error when the ledger does not parse  *)
(* or the lock stays busy; a device dies anywhere.  Dead while it rewrites *)
(* EVENTS, it leaves any part of it; dead with the lock, it leaves it.     *)
(***************************************************************************)
Stop(d) ==
    /\ pc' = [pc EXCEPT ![d] = "idle"]
    /\ todo' = [todo EXCEPT ![d] = <<>>]
    /\ next' = [next EXCEPT ![d] = Empty]

Fail(d) ==
    /\ pc[d] = "send"
    /\ torn \/ (todo[d] # <<>> /\ lock # NoDevice)
    /\ Stop(d)
    /\ UNCHANGED <<device, backend, bounds>>

Cut(d) ==
    IF pc[d] # "record" /\ ~(pc[d] = "append" /\ ~Listed(d)) THEN UNCHANGED <<log, torn>>
    ELSE \E n \in 0..Len(log), t \in BOOLEAN :
            log' = SubSeq(log, 1, n) /\ torn' = (torn \/ t)

Die(d) ==
    /\ pc[d] # "idle" /\ crashes < MaxCrashes
    /\ crashes' = crashes + 1
    /\ Stop(d)
    /\ Cut(d)
    /\ UNCHANGED <<device, state, lock, made, edits>>

(* withLock removes a lock directory older than staleMs.                   *)
Reap(d) ==
    /\ lock # NoDevice /\ pc[lock] \notin {"append", "record", "save", "unlock"}
    /\ pc[d] \in {"idle", "send"}
    /\ lock' = NoDevice
    /\ UNCHANGED <<device, state, log, torn, pc, todo, next, bounds>>

Next ==
    \E d \in Devices :
        \/ Edit(d) \/ Export(d)
        \/ Push(d) \/ Take(d) \/ List(d) \/ Save(d) \/ Unlock(d) \/ Acknowledge(d)
        \/ Pull(d) \/ PullAtEnd(d) \/ Import(d)
        \/ Resolve(d) \/ RecordResolution(d)
        \/ Fail(d) \/ Die(d) \/ Reap(d)

Spec == Init /\ [][Next]_vars

-----------------------------------------------------------------------------
Versions == 1..MaxEdits
Ids == 1..MaxEvents
Event == [id : Ids, base : 0..MaxEvents, payload : Versions,
          parents : SUBSET Ids, op : {"put", "resolve"}]

StateOK(s) ==
    /\ s.record \in Event \cup {NoRecord}
    /\ s.conflict \in {"none", "open", "resolved"}
    /\ s.candidates \subseteq Event
    /\ s.pending \subseteq Event
    /\ s.applied \subseteq Ids

TypeOK ==
    /\ vault \in [Devices -> Versions]
    /\ portable \in [Devices -> 0..MaxEdits]
    /\ \A d \in Devices : Range(outbox[d]) \subseteq Event
    /\ acks \in [Devices -> SUBSET Ids]
    /\ StateOK(state) /\ \A d \in Devices : StateOK(local[d]) /\ StateOK(next[d])
    /\ Range(log) \subseteq Ids /\ torn \in BOOLEAN
    /\ lock \in Devices \cup {NoDevice}

(* An event that a device has acknowledged, and will never send again, is  *)
(* in the backend's state: a death between the ledger, STATE.json and the  *)
(* acknowledgement loses nothing.                                          *)
AckedIsStored ==
    \A d \in Devices : acks[d] \subseteq state.applied \cup {e.id : e \in state.pending}

(* "Never silently applies last-write-wins": an event the backend took is  *)
(* the record, a candidate that a resolution has to name, or an ancestor   *)
(* of these.  No event is dropped by the arrival of another.               *)
Accounted ==
    \A S \in SUBSET Ids :
        /\ ({state.record} \cup state.candidates) \ {NoRecord} \subseteq {e \in made : e.id \in S}
        /\ \A e \in made : e.id \in S => e.parents \subseteq S
        => state.applied \subseteq S

(* Does not hold.  "It never silently applies last-write-wins": while      *)
(* every portable file is the export of its vault, a device that pushes    *)
(* its vault's content does not replace a newer version with it without a  *)
(* conflict.  push replaces the local copy and does not import it, so the  *)
(* next push of the same vault takes its older content for a new edit.     *)
NoOlderVersion ==
    [][(/\ portable = vault
        /\ \A d \in Devices : pc[d] = "save" => state'.record.payload = vault[d]
        /\ state.record # NoRecord /\ state'.record # state.record
        /\ state'.record.op = "put")
       => state'.record.payload >= state.record.payload]_vars

=============================================================================
