-------------------------- MODULE WorktreeCleanup --------------------------
(* `worktree finish` and `worktree remove` of one managed worktree            *)
(* (packages/worktrees/worktree-cleanup.mjs): a saga over the session         *)
(* registry, the worktree registry, git and the receipt ledger. Every step is *)
(* durable on its own; a caller may die or fail between any two, and any      *)
(* later call, of the same process or another, resumes what it finds.         *)
EXTENDS SessionRegistry

CONSTANTS Caller, Command,
          MaxTries,    \* bound: calls
          MaxFaults,   \* bound: deaths, and calls that throw
          MaxEvents    \* bound: what sessions and editors do meanwhile

ASSUME CleanupAssumption == /\ Command \subseteq {"finish", "remove"}
                            /\ None \notin Caller /\ None \notin Nat
                            /\ MaxTries \in Nat /\ MaxFaults \in Nat /\ MaxEvents \in Nat

VARIABLES
  reg,        \* SESSION_REGISTRY.json
  entry,      \* the worktree's entry in worktrees-v1.json
  path, dirty,\* is the directory there, has it uncommitted files
  head,       \* what the branch points at: commits so far, or None when deleted
  receipts,   \* cleanup receipts
  pc, loc,    \* the callers
  tries, faults, events

files == <<reg, entry, path, dirty, head, receipts>>
vars == <<files, pc, loc, tries, faults, events>>

Merged == 0   \* the pull request merged the branch at its first head

Ready == [state |-> "ready", op |-> None, try |-> 0, owner |-> None,
          cmd |-> None, snap |-> <<>>, head |-> None, receipt |-> None]
NoLoc == [cmd |-> None, was |-> Ready, base |-> <<>>, id |-> <<>>, head |-> None,
          resumed |-> FALSE, op |-> None, run |-> None, try |-> 0,
          late |-> FALSE, got |-> None]

Init == /\ \E L, A \in SUBSET Session :
             reg = [Empty EXCEPT !.live = L, !.ctx = [s \in Session |->
                      IF s \in A THEN [state |-> "active", delivery |-> FALSE, rev |-> 1]
                      ELSE NoContext]]
        /\ entry = Ready /\ path = TRUE /\ dirty = FALSE /\ head = Merged
        /\ receipts = {}
        /\ pc = [w \in Caller |-> "idle"] /\ loc = [w \in Caller |-> NoLoc]
        /\ tries = 0 /\ faults = 0 /\ events = 0
-----------------------------------------------------------------------------
Goto(w, place) == pc' = [pc EXCEPT ![w] = place]
Stop(w) == Goto(w, "idle") /\ loc' = [loc EXCEPT ![w] = NoLoc]

(* mutateSessionRegistry by the operation op: the next registry, if allowed. *)
Write(op, new) == MayWrite(reg, new, op) /\ reg' = new
Try(op, new) == IF MayWrite(reg, new, op) THEN reg' = new ELSE UNCHANGED reg

Resumable(e) == e.state \in {"cleaning", "failed"}

(* inspectWorktreeCleanup: its blockers, when the directory is gone only     *)
(* those that a resumed removal does not excuse.                             *)
Inspected == LET gone == ~path /\ Resumable(entry)
             IN  /\ ~(path /\ dirty)
                 /\ gone \/ reg.live = {}
                 /\ gone \/ \A s \in ActiveIn(reg) : ~reg.ctx[s].delivery

(* The reservation is one's own attempt's.                                   *)
Owns(w) == reg.res # NoReservation /\ reg.res.op = loc[w].run /\ reg.res.try = loc[w].try
-----------------------------------------------------------------------------
(* finishManagedWorktree and removeManagedWorktree up to the reservations.   *)
Begin(w, c) ==
  /\ pc[w] = "idle" /\ tries < MaxTries
  /\ ~(c = "finish" /\ entry.state = "cleaning" /\ entry.owner # None)
  /\ c = "finish" /\ ~(Resumable(entry) /\ entry.cmd = c) => head = Merged
  /\ tries' = tries + 1
  /\ loc' = [loc EXCEPT ![w].cmd = c, ![w].was = entry, ![w].try = tries']
  /\ Goto(w, IF entry.state = "cleaned" THEN "complete" ELSE "inspect")
  /\ UNCHANGED <<files, faults, events>>

(* The operation id is that of the interrupted cleanup, or of a reservation  *)
(* of the same subject whose owner died, or new.                             *)
Orphan(w, id, h) == /\ reg.res # NoReservation /\ reg.res.owner = None
                    /\ reg.res.cmd = loc[w].cmd /\ reg.res.head = h /\ reg.res.snap = id

Inspect(w) ==
  LET l == loc[w]
      resumed == Resumable(l.was) /\ l.was.cmd = l.cmd
      h == IF head # None THEN head ELSE IF resumed THEN l.was.head ELSE None
      id == IF l.was.op # None THEN l.was.snap ELSE Snapshot(reg)
  IN  /\ pc[w] = "inspect"
      /\ IF Inspected /\ l.cmd = "finish" /\ entry.state = "cleaned"
         THEN Goto(w, "complete") /\ UNCHANGED loc
         ELSE IF Inspected /\ h # None /\ (l.cmd = "finish" => h = Merged)
         THEN /\ Goto(w, "reserve")
              /\ loc' = [loc EXCEPT ![w].base = Snapshot(reg), ![w].id = id, ![w].head = h,
                           ![w].resumed = resumed,
                           ![w].op = IF resumed THEN l.was.op
                                     ELSE IF Orphan(w, id, h) THEN reg.res.op ELSE l.try]
         ELSE Stop(w)
      /\ UNCHANGED <<files, tries, faults, events>>

(* reserveActiveContextCleanup.                                              *)
Reserved(w) == [reg EXCEPT
  !.live = IF loc[w].resumed /\ ~path THEN {} ELSE @,
  !.res = [op |-> loc[w].op, try |-> loc[w].try, owner |-> w, phase |-> "reserved",
           cmd |-> loc[w].cmd, snap |-> loc[w].id, head |-> loc[w].head]]

SameContexts(w) == \/ loc[w].resumed /\ ActiveIn(reg) = {} /\ DOMAIN loc[w].id # {}
                   \/ /\ ActiveIn(reg) = DOMAIN loc[w].id
                      /\ Snapshot(reg) = loc[w].id

(* Mutant: the owner of a reservation is not asked for.                      *)
FreeForAll(w) == /\ reg.tomb # NoTombstone => reg.tomb.op = loc[w].op
                 /\ reg.res # NoReservation => reg.res.op = loc[w].op

Free(w) == /\ reg.tomb # NoTombstone => reg.tomb.op = loc[w].op
           /\ reg.res # NoReservation =>
                /\ reg.res.op = loc[w].op
                /\ reg.res.phase \in {"failed", "finalized"} \/ reg.res.owner = None

ReserveContexts(w) ==
  /\ pc[w] = "reserve"
  /\ \/ /\ ~Free(w) \/ (reg.live # {} /\ ~(loc[w].resumed /\ ~path) /\ SameContexts(w))
        /\ Stop(w) /\ UNCHANGED reg
     \/ /\ Free(w) /\ ~SameContexts(w)
        /\ Goto(w, "prefail") /\ UNCHANGED <<reg, loc>>
     \/ /\ Free(w) /\ SameContexts(w) /\ (reg.live = {} \/ (loc[w].resumed /\ ~path))
        /\ Goto(w, "tree") /\ Write(loc[w].op, Reserved(w)) /\ UNCHANGED loc
  /\ UNCHANGED <<entry, path, dirty, head, receipts, tries, faults, events>>

(* reserve: the entry in the worktree registry. A resumed one keeps its      *)
(* operation id, whichever id the contexts were reserved under.              *)
Busy(w) == \/ entry.state = "cleaning" /\ entry.owner # None
           \/ Resumable(entry) /\ entry.cmd # loc[w].cmd

Taken(w, state) ==
  [entry EXCEPT !.state = state, !.op = IF Resumable(entry) THEN @ ELSE loc[w].op,
                !.try = loc[w].try, !.owner = w, !.cmd = loc[w].cmd,
                !.snap = loc[w].id, !.head = loc[w].head]

ReserveTree(w) ==
  /\ pc[w] = "tree"
  /\ IF entry.state = "cleaned" \/ Busy(w)
     THEN Goto(w, "undo") /\ UNCHANGED <<entry, loc>>
     ELSE /\ entry' = Taken(w, "cleaning")
          /\ loc' = [loc EXCEPT ![w].run = entry'.op]
          /\ Goto(w, "ready")
  /\ UNCHANGED <<reg, path, dirty, head, receipts, tries, faults, events>>

(* The contexts' reservation is given back; a finished cleanup is reported.  *)
Undo(w) == /\ pc[w] = "undo"
           /\ Try(loc[w].op, IF reg.res # NoReservation /\ reg.res.op = loc[w].op
                                /\ reg.res.try = loc[w].try
                             THEN [reg EXCEPT !.res = NoReservation] ELSE reg)
           /\ IF entry.state = "cleaned" THEN Goto(w, "complete") /\ UNCHANGED loc
              ELSE Stop(w)
           /\ UNCHANGED <<entry, path, dirty, head, receipts, tries, faults, events>>

(* recordPreReservationFailure: the contexts are not the identity's; the     *)
(* worktree's entry is taken and failed, without the contexts' reservation.  *)
PreFail(w) == /\ pc[w] = "prefail" /\ Stop(w)
              /\ entry' = IF entry.state = "cleaned" \/ Busy(w) THEN entry
                          ELSE [Taken(w, "failed") EXCEPT !.try = entry.try]
              /\ UNCHANGED <<reg, path, dirty, head, receipts, tries, faults, events>>
-----------------------------------------------------------------------------
(* From the reservations to the removal of the directory.                    *)
SetPhase(w, phase) == Write(loc[w].run, [reg EXCEPT !.res.phase = phase])

Prepare(w) == /\ pc[w] = "ready"
              /\ IF Owns(w) THEN SetPhase(w, "ready") /\ Goto(w, "revalidate")
                 ELSE Goto(w, "fail") /\ UNCHANGED reg
              /\ UNCHANGED <<entry, path, dirty, head, receipts, loc, tries, faults, events>>

(* revalidateCleanupBeforeMutation.                                          *)
Unchanged(w) == Inspected /\ Snapshot(reg) = loc[w].base

Revalidate(w) ==
  /\ pc[w] = "revalidate"
  /\ Goto(w, IF Unchanged(w) /\ (head # None => head = loc[w].head) THEN "remove" ELSE "fail")
  /\ UNCHANGED <<files, loc, tries, faults, events>>

StartRemoval(w) == /\ pc[w] = "remove"
                   /\ IF Owns(w) THEN SetPhase(w, "removing") /\ Goto(w, "git")
                                      /\ loc' = [loc EXCEPT ![w].late = TRUE]
                      ELSE Goto(w, "fail") /\ UNCHANGED <<reg, loc>>
                   /\ UNCHANGED <<entry, path, dirty, head, receipts, tries, faults, events>>

(* git worktree remove refuses a directory with uncommitted files.           *)
RemovePath(w) == /\ pc[w] = "git"
                 /\ IF path /\ dirty THEN Goto(w, "fail") /\ UNCHANGED path
                    ELSE path' = FALSE /\ Goto(w, "after")
                 /\ UNCHANGED <<reg, entry, dirty, head, receipts, loc, tries, faults, events>>

(* assertPostRemovalCausalSnapshot.                                          *)
Recheck(w) == /\ pc[w] = "after"
              /\ Goto(w, IF Unchanged(w) THEN "close" ELSE "fail")
              /\ UNCHANGED <<files, loc, tries, faults, events>>

(* closeContexts: one registry mutation per context, each by its revision.   *)
Close(w) == /\ pc[w] = "close"
            /\ \E s \in DOMAIN loc[w].base :
                 /\ reg.ctx[s] = loc[w].base[s]
                 /\ MayWrite(reg, Put(reg, s, "closed", FALSE), loc[w].run)
                 /\ reg' = Put(reg, s, "closed", FALSE)
            /\ UNCHANGED <<entry, path, dirty, head, receipts, pc, loc, tries, faults, events>>

(* Mutant: a branch that moved is left where it is, and the cleanup goes on. *)
KeepMoved(w) ==
  /\ pc[w] = "close" /\ \A s \in DOMAIN loc[w].base : reg.ctx[s] # loc[w].base[s]
  /\ head' = (IF loc[w].cmd = "finish" /\ head = loc[w].head THEN None ELSE head)
  /\ Goto(w, "append")
  /\ UNCHANGED <<reg, entry, path, dirty, receipts, loc, tries, faults, events>>

(* The branch of a finished worktree goes by compare-and-delete.             *)
DeleteBranch(w) ==
  /\ pc[w] = "close" /\ \A s \in DOMAIN loc[w].base : reg.ctx[s] # loc[w].base[s]
  /\ IF ActiveIn(reg) # {} \/ (loc[w].cmd = "finish" /\ head \notin {None, loc[w].head})
     THEN Goto(w, "fail") /\ UNCHANGED head
     ELSE head' = (IF loc[w].cmd = "finish" THEN None ELSE head) /\ Goto(w, "append")
  /\ UNCHANGED <<reg, entry, path, dirty, receipts, loc, tries, faults, events>>
-----------------------------------------------------------------------------
(* The receipt, the tombstone, and the two releases.                         *)
OfOperation(w) == {r \in receipts : r.op = loc[w].run /\ r.cmd = loc[w].cmd}
Draft(w) == [cmd |-> loc[w].cmd, snap |-> loc[w].id, head |-> loc[w].head, op |-> loc[w].run]

(* cleanupReceiptCausalMismatches, cleanupReceiptMatches.                    *)
Matches(r, e) == r.cmd = e.cmd /\ r.snap = e.snap /\ r.head = e.head

(* A receipt of the operation is taken as it is; a draft whose subject has a *)
(* receipt of another operation is a conflict of the ledger.                 *)
AppendReceipt(w) ==
  LET same == {r \in receipts : Subject(r) = Subject(Draft(w))}
      r == IF OfOperation(w) # {} THEN CHOOSE x \in OfOperation(w) : TRUE ELSE Draft(w)
  IN  /\ pc[w] = "append"
      /\ IF OfOperation(w) = {} /\ same # {}
         THEN Goto(w, "fail") /\ UNCHANGED <<receipts, loc>>
         ELSE /\ receipts' = receipts \union {r}
              /\ loc' = [loc EXCEPT ![w].got = r]
              /\ Goto(w, IF Matches(r, entry) THEN "terminal" ELSE "fail")
      /\ UNCHANGED <<reg, entry, path, dirty, head, tries, faults, events>>

(* markActiveContextCleanupTerminal.                                         *)
Tombstone(r, try) == [op |-> r.op, cmd |-> r.cmd, snap |-> r.snap, head |-> r.head, try |-> try]

CanSeal(r, try, missing) ==
  /\ reg.tomb # NoTombstone => reg.tomb.op = r.op /\ Subject(reg.tomb) = Subject(r)
  /\ reg.res = NoReservation => missing \/ reg.tomb # NoTombstone
  /\ reg.res # NoReservation =>
       reg.res.op = r.op /\ reg.res.try = try /\ Subject(reg.res) = Subject(r)
  /\ reg.tomb # NoTombstone => reg.tomb.try = try \/ reg.res # NoReservation
  /\ ActiveIn(reg) = {}

Seal(w) == LET r == loc[w].got
               sealed == [reg EXCEPT !.tomb = Tombstone(r, loc[w].try)]
           IN  /\ pc[w] = "terminal"
               /\ IF CanSeal(r, loc[w].try, FALSE) /\ MayWrite(reg, sealed, r.op)
                  THEN reg' = sealed /\ Goto(w, "finalize")
                  ELSE Goto(w, "fail") /\ UNCHANGED reg
               /\ UNCHANGED <<entry, path, dirty, head, receipts, loc, tries, faults, events>>

Finalize(w) ==
  LET mine == /\ entry.state = "cleaning" /\ entry.op = loc[w].run
              /\ entry.try = loc[w].try /\ Matches(loc[w].got, entry)
  IN  /\ pc[w] = "finalize"
      /\ IF mine THEN /\ entry' = [entry EXCEPT !.state = "cleaned", !.receipt = loc[w].got]
                      /\ Goto(w, "release")
         ELSE Goto(w, "fail") /\ UNCHANGED entry
      /\ UNCHANGED <<reg, path, dirty, head, receipts, loc, tries, faults, events>>

Released(w) == IF Owns(w) THEN [reg EXCEPT !.res = NoReservation] ELSE reg

Release(w) == /\ pc[w] = "release" /\ Stop(w)
              /\ Try(loc[w].run, Released(w))
              /\ UNCHANGED <<entry, path, dirty, head, receipts, tries, faults, events>>
-----------------------------------------------------------------------------
(* The catch: failReservation, whoever holds the entry by now, then the      *)
(* reservation of the contexts: kept as failed once the removal has begun,   *)
(* given back before.                                                        *)
FailEntry(w) == /\ pc[w] = "fail" /\ Goto(w, "failed")
                /\ entry' = IF entry.state = "cleaning" THEN [entry EXCEPT !.state = "failed"]
                            ELSE entry
                /\ UNCHANGED <<reg, path, dirty, head, receipts, loc, tries, faults, events>>

FailContexts(w) ==
  /\ pc[w] = "failed" /\ Stop(w)
  /\ reg' = IF ~Owns(w) THEN reg
            ELSE IF ~loc[w].late THEN [reg EXCEPT !.res = NoReservation]
            ELSE [reg EXCEPT !.res.phase =
                    IF entry.state = "cleaned" THEN "finalized" ELSE "failed"]
  /\ UNCHANGED <<entry, path, dirty, head, receipts, tries, faults, events>>

(* existingCompletion: the tombstone is put back if a death left none, and a *)
(* reservation of the finished operation is released.                        *)
Complete(w) ==
  LET r == entry.receipt
      sealed == [reg EXCEPT !.tomb = Tombstone(r, entry.try)]
  IN  /\ pc[w] = "complete"
      /\ IF /\ r \in receipts /\ Matches(r, entry)
            /\ CanSeal(r, entry.try, TRUE) /\ MayWrite(reg, sealed, r.op)
         THEN /\ reg' = sealed
              /\ IF reg.res # NoReservation /\ reg.res.op = r.op
                 THEN /\ loc' = [loc EXCEPT ![w].run = r.op, ![w].try = reg.res.try]
                      /\ Goto(w, "release")
                 ELSE Stop(w)
         ELSE Stop(w) /\ UNCHANGED reg
      /\ UNCHANGED <<entry, path, dirty, head, receipts, tries, faults, events>>

Step(w) == \/ Inspect(w) \/ ReserveContexts(w) \/ ReserveTree(w) \/ Undo(w) \/ PreFail(w)
           \/ Prepare(w) \/ Revalidate(w) \/ StartRemoval(w) \/ RemovePath(w) \/ Recheck(w)
           \/ Close(w) \/ DeleteBranch(w) \/ AppendReceipt(w) \/ Seal(w) \/ Finalize(w)
           \/ Release(w) \/ FailEntry(w) \/ FailContexts(w) \/ Complete(w)
-----------------------------------------------------------------------------
(* A step throws (a lock is busy, git or the disk fails), before its effect. *)
Guarded == {"ready", "revalidate", "remove", "git", "after", "close", "append",
            "terminal", "finalize", "release"}

Throw(w) == /\ pc[w] \in Guarded \union {"tree"}
            /\ faults < MaxFaults /\ faults' = faults + 1
            /\ Goto(w, IF pc[w] = "tree" THEN "undo" ELSE "fail")
            /\ UNCHANGED <<files, loc, tries, events>>

(* The process dies: what it reserved has an owner that no longer lives.     *)
Die(w) == /\ pc[w] # "idle" /\ faults < MaxFaults /\ faults' = faults + 1
          /\ Stop(w)
          /\ entry' = IF entry.owner = w THEN [entry EXCEPT !.owner = None] ELSE entry
          /\ reg' = IF reg.res # NoReservation /\ reg.res.owner = w
                    THEN [reg EXCEPT !.res.owner = None] ELSE reg
          /\ UNCHANGED <<path, dirty, head, receipts, tries, events>>
-----------------------------------------------------------------------------
(* Sessions and editors, by the registry's own rules.                        *)
SessionStarts(s) == s \notin reg.live /\ Write(None, [reg EXCEPT !.live = @ \union {s}])
SessionEnds(s) == s \in reg.live /\ Write(None, [reg EXCEPT !.live = @ \ {s}])

(* setActiveContextChange, setActiveContextDelivery and their clears.        *)
SetContext(s, d) == Write(None, Put(reg, s, "active", d))

(* repairActiveContext closes the context of an ended session or of a        *)
(* removed worktree.                                                         *)
Repair(s) == /\ reg.ctx[s].state = "active" /\ (s \notin reg.live \/ ~path)
             /\ Write(None, Put(reg, s, "closed", reg.ctx[s].delivery))

Meanwhile == /\ events < MaxEvents /\ events' = events + 1
             /\ \/ /\ \E s \in Session : \/ SessionStarts(s) \/ SessionEnds(s) \/ Repair(s)
                                         \/ \E d \in BOOLEAN : SetContext(s, d)
                   /\ UNCHANGED <<entry, path, dirty, head, receipts>>
                \/ path /\ dirty' = ~dirty /\ UNCHANGED <<reg, entry, path, head, receipts>>
                \/ /\ head # None /\ head' = head + 1
                   /\ UNCHANGED <<reg, entry, path, dirty, receipts>>
             /\ UNCHANGED <<pc, loc, tries, faults>>

Next == \/ \E w \in Caller : \/ \E c \in Command : Begin(w, c)
                             \/ Step(w) \/ Throw(w) \/ Die(w)
        \/ Meanwhile

Spec == Init /\ [][Next]_vars
-----------------------------------------------------------------------------
Irreversible == {"git", "after", "close", "append", "terminal", "finalize"}

(* The registries, the branch and the callers keep their shapes.             *)
TypeOK ==
  /\ reg.live \subseteq Session
  /\ \A s \in Session : reg.ctx[s].state \in {"none", "active", "closed"}
  /\ entry.state \in {"ready", "cleaning", "failed", "cleaned"}
  /\ entry.owner \in Caller \union {None}
  /\ head \in 0..MaxEvents \union {None} /\ path \in BOOLEAN /\ dirty \in BOOLEAN
  /\ tries \in 0..MaxTries /\ faults \in 0..MaxFaults

(* From `removing` to the tombstone a call holds the reservation of the       *)
(* contexts by its own attempt, hence no two calls are ever there together,   *)
(* also when one resumed the other's operation (failReservation at :1046      *)
(* fails an entry without asking whose attempt it is).                        *)
OneRemover == \A w \in Caller : pc[w] \in Irreversible => Owns(w)

(* The directory goes away under nobody: no session runs in it, no delivery  *)
(* is open, nothing is uncommitted, at the very step that removes it.        *)
QuietRemoval == [][path /\ ~path' => /\ reg.live = {} /\ ~dirty
                                     /\ \A s \in ActiveIn(reg) : ~reg.ctx[s].delivery]_vars

(* A receipt is true for good: one operation cleaned the worktree, its       *)
(* directory is gone, and its branch too if it finished it.                  *)
ReceiptIsTrue == \A r \in receipts :
  /\ receipts = {r} /\ ~path
  /\ r.cmd = "finish" => head = None

(* A cleaned worktree has its receipt and a tombstone of the same operation, *)
(* and no context or session ever comes back to it.                          *)
CleanedIsSealed == entry.state = "cleaned" =>
  /\ entry.receipt \in receipts /\ Matches(entry.receipt, entry)
  /\ reg.tomb # NoTombstone /\ reg.tomb.op = entry.op
  /\ ActiveIn(reg) = {}

(* docs/en/commands/worktrees.md:63: "a crash at any boundary preserves       *)
(* operation/state and lets the same proof be retried". Nobody but the        *)
(* cleanup having touched anything, its retry is not refused as a mismatch.   *)
RetryIsAccepted == \A w \in Caller : events = 0 /\ loc[w].resumed => pc[w] # "prefail"
=============================================================================
