------------------------------ MODULE Delivery ------------------------------
(* `delivery start`, `finish` and `abandon` of src/delivery.mjs over their    *)
(* receipt ledger. A delivery is a state file, a binding in the active        *)
(* context of the session that started it and, at its end, a receipt: each    *)
(* command reads the state and the binding, and then, Git and the forge       *)
(* between, changes the ledger, the state file and the context one by one.   *)
EXTENDS ReceiptLedger

CONSTANTS Id, Context,
          UniqueIds,     \* does no start run for the id of another start
          MaxRevisions   \* bound: writes of a context

ASSUME DeliveryAssumption ==
  /\ None \notin Id \union Context /\ UniqueIds \in BOOLEAN /\ MaxRevisions \in Nat
  /\ \A r \in Draft : r.kind \in {"completed", "abandoned"}

VARIABLES state,     \* deliveries/<id>.json: its status, its context, its receipt
          context,   \* revision and delivery_id of each active context
          command    \* what each process is doing

ledgerVars == <<files, lock, pc, want, buf, acked>>
allVars == <<vars, state, context, command>>

Absent == [status |-> "absent", of |-> None, receipt |-> None]
NoCommand == [at |-> "idle", id |-> None, of |-> None, rev |-> 0, receipt |-> None]

DInit == /\ Init
         /\ state = [d \in Id |-> Absent]
         /\ context = [c \in Context |-> [rev |-> 0, id |-> None]]
         /\ command = [p \in Proc |-> NoCommand]

Idles(p) == command[p] = NoCommand /\ pc[p] = "idle"
Moves(p, place) == command' = [command EXCEPT ![p].at = place]
Ends(p) == command' = [command EXCEPT ![p] = NoCommand]
Calls(p, place, d, c, r) ==
  command' = [command EXCEPT ![p] = [at |-> place, id |-> d, of |-> c,
                                     rev |-> context[c].rev, receipt |-> r]]

(* mutateActiveContext: each write of a context is a revision.               *)
Rebind(c, d) == context' = [context EXCEPT ![c] = [rev |-> @.rev + 1, id |-> d]]
-----------------------------------------------------------------------------
(* startDelivery: the checks, the state file, the binding. The binding is     *)
(* written whatever the context holds by then; if that fails, the file of the *)
(* name is removed.                                                          *)
Starting(d) == \E q \in Proc : command[q].id = d /\ command[q].at \in {"create", "bind", "undo"}

Start(p, d, c) ==
  /\ Idles(p) /\ state[d] = Absent /\ context[c].id = None
  /\ ~(UniqueIds /\ Starting(d))
  /\ Calls(p, "create", d, c, None)
  /\ UNCHANGED <<vars, state, context>>

WriteState(p) ==
  /\ command[p].at = "create" /\ Moves(p, "bind")
  /\ state' = [state EXCEPT ![command[p].id] =
                 [status |-> "active", of |-> command[p].of, receipt |-> None]]
  /\ UNCHANGED <<vars, context>>

Bind(p) ==
  /\ command[p].at = "bind" /\ context[command[p].of].rev < MaxRevisions
  /\ Rebind(command[p].of, command[p].id) /\ Ends(p)
  /\ UNCHANGED <<vars, state>>

(* The registry is busy, or the worktree is reserved by a cleanup.           *)
BindFails(p) ==
  /\ command[p].at = "bind" /\ Moves(p, "undo")
  /\ crashes < MaxCrashes /\ crashes' = crashes + 1
  /\ UNCHANGED <<ledgerVars, state, context>>

RemoveState(p) ==
  /\ command[p].at = "undo" /\ Ends(p)
  /\ state' = [state EXCEPT ![command[p].id] = Absent]
  /\ UNCHANGED <<vars, context>>
-----------------------------------------------------------------------------
(* finishDelivery and abandonDelivery: an active delivery must be bound to    *)
(* the caller's context. What Git and the forge answer decides whether the    *)
(* command goes on, and which receipt it asks for.                           *)
Close(p, d, r) ==
  /\ Idles(p) /\ state[d].status = "active" /\ context[state[d].of].id = d
  /\ Calls(p, "append", d, state[d].of, r)
  /\ UNCHANGED <<vars, state, context>>

(* The repeated command: the receipt of the state must be in the ledger       *)
(* (completedReceipt, abandonedReceipt), and a binding that is left is        *)
(* cleared. Without one it only reads.                                       *)
CloseAgain(p, d) ==
  /\ Idles(p) /\ state[d].receipt # None /\ context[state[d].of].id = d
  /\ Calls(p, "look", d, state[d].of, state[d].receipt)
  /\ UNCHANGED <<vars, state, context>>

AskLedger(p) ==
  /\ \/ command[p].at = "append" /\ Begin(p, command[p].receipt) /\ Moves(p, "appending")
     \/ command[p].at = "look" /\ Begin(p, None) /\ Moves(p, "looking")
  /\ UNCHANGED <<state, context>>

(* The call returns a record: the one appended or met again, or the one of    *)
(* the state found in what was read.                                         *)
Answered(p) ==
  /\ pc[p] = "release" /\ lock.by = p
  /\ IF command[p].at = "appending" THEN want[p] # None
     ELSE Readable /\ command[p].receipt \in Range(buf[p].records)

LedgerStep(p) ==
  /\ Step(p) \/ PublishFails(p) \/ Fail(p)
  /\ \/ pc'[p] # "idle" /\ UNCHANGED command
     \/ pc'[p] = "idle" /\ ~Answered(p) /\ Ends(p)
     \/ /\ pc'[p] = "idle" /\ Answered(p)
        /\ Moves(p, IF command[p].at = "appending" THEN "persist" ELSE "clear")
  /\ UNCHANGED <<state, context>>

(* writeState: the state read at the start, with its end.                    *)
Persist(p) ==
  /\ command[p].at = "persist" /\ Moves(p, "clear")
  /\ state' = [state EXCEPT ![command[p].id] =
                 [status |-> command[p].receipt.kind, of |-> command[p].of,
                  receipt |-> command[p].receipt]]
  /\ UNCHANGED <<vars, context>>

(* Mutant: the binding is cleared whatever it has become.                    *)
ClearAny(p) ==
  /\ command[p].at = "clear" /\ Rebind(command[p].of, None)
  /\ Ends(p) /\ UNCHANGED <<vars, state>>

(* clearActiveContextDelivery, with the revision read at the start: stale is  *)
(* an error after all is done, and the repeated command ends it.             *)
Clear(p) ==
  /\ command[p].at = "clear"
  /\ \/ context[command[p].of].rev = command[p].rev /\ Rebind(command[p].of, None)
     \/ context[command[p].of].rev # command[p].rev /\ UNCHANGED context
  /\ Ends(p) /\ UNCHANGED <<vars, state>>
-----------------------------------------------------------------------------
(* Another command writes the context and keeps its delivery.                *)
Touch(c) ==
  /\ context[c].rev < MaxRevisions /\ Rebind(c, context[c].id)
  /\ UNCHANGED <<vars, state, command>>

Killed(p) ==
  /\ command[p] # NoCommand /\ Ends(p)
  /\ \/ Die(p)
     \/ /\ pc[p] = "idle" /\ crashes < MaxCrashes /\ crashes' = crashes + 1
        /\ UNCHANGED ledgerVars
  /\ UNCHANGED <<state, context>>

DNext ==
  \/ \E p \in Proc :
       \/ \E d \in Id, c \in Context : Start(p, d, c)
       \/ \E r \in Draft : r.of \in Id /\ Close(p, r.of, r)
       \/ \E d \in Id : CloseAgain(p, d)
       \/ WriteState(p) \/ Bind(p) \/ BindFails(p) \/ RemoveState(p)
       \/ AskLedger(p) \/ LedgerStep(p) \/ Persist(p) \/ Clear(p) \/ Killed(p)
  \/ \E c \in Context : Touch(c)
  \/ Age /\ UNCHANGED <<state, context, command>>

DSpec == DInit /\ [][DNext]_allVars
-----------------------------------------------------------------------------
(* Types of the variables added to the ledger's.                             *)
DTypeOK ==
  /\ TypeOK
  /\ state \in [Id -> [status : {"absent", "active", "completed", "abandoned"},
                       of : Context \union {None}, receipt : Draft \union {None}]]
  /\ context \in [Context -> [rev : 0..MaxRevisions + 1, id : Id \union {None}]]
  /\ \A p \in Proc : command[p].of \in Context \union {None}

(* A delivery that says it ended has the receipt of that end in a ledger that *)
(* can be read, however the commands, their appends and the v1 migration      *)
(* raced, failed or died: repeating the command returns it (:547-576,         *)
(* :889-914), and what one append acknowledged no later one loses.           *)
EndHasReceipt ==
  \A d \in Id : state[d].status \in {"completed", "abandoned"} =>
    Readable /\ state[d].receipt \in Range(ledger.records) /\ state[d].receipt.of = d

(* operating-profiles.md:212: the receipt is in the ledger and the state is   *)
(* written before the binding is cleared; a late command never clears the     *)
(* binding of another delivery, or of one that still runs.                   *)
ClearedIsEnded ==
  [][\A c \in Context :
       (context[c].id # None /\ context'[c].id = None) =>
         /\ state[context[c].id].receipt # None
         /\ state[context[c].id].receipt \in Range(ledger.records)]_allVars

(* tests/delivery.test.mjs:695: one context cannot replace an active delivery *)
(* silently. Two starts that overlap do.                                     *)
NotReplaced ==
  [][\A c \in Context :
       (context[c].id # None /\ context'[c].id # None) => context'[c].id = context[c].id]_allVars

(* operating-profiles.md:213: a retry converges to the same receipt. A        *)
(* delivery has one end; finish racing abandon, or finish repeated for        *)
(* another commit after a death, gives it two.                               *)
OneEnd ==
  \A i, j \in DOMAIN ledger.records :
    (ledger.records[i].of = ledger.records[j].of /\ ledger.records[i].of \in Id) => i = j
=============================================================================
