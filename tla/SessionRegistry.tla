-------------------------- MODULE SessionRegistry --------------------------
(* SESSION_REGISTRY.json as one managed worktree sees it: the active context  *)
(* of every work session (ctx), the sessions that run in the worktree (live), *)
(* the reservation of a cleanup (res) and its tombstone (tomb). The file is   *)
(* only written under its path lock, by read, change and guarded write, so a  *)
(* mutation is an operator from a registry to a registry.                     *)
EXTENDS Naturals, FiniteSets

CONSTANTS Session, None

NoContext == [state |-> "none", delivery |-> FALSE, rev |-> 0]
NoReservation == [op |-> None]
NoTombstone == [op |-> None]

Empty == [ctx |-> [s \in Session |-> NoContext], live |-> {},
          res |-> NoReservation, tomb |-> NoTombstone]

ActiveIn(r) == {s \in Session : r.ctx[s].state = "active"}

(* contextCausalSnapshot: the active contexts, with their revisions.         *)
Snapshot(r) == [s \in ActiveIn(r) |-> r.ctx[s]]

(* Mutant: the sessions that run are not watched.                            *)
ContextsOnly(r) == Snapshot(r)

(* What a reservation or a tombstone watches.                                *)
Watched(r) == <<Snapshot(r), r.live>>

Subject(m) == [cmd |-> m.cmd, snap |-> m.snap, head |-> m.head]

(* A tombstone passes to a later attempt of its own operation.               *)
Adopted(old, new) == /\ new.tomb.op = old.tomb.op /\ Subject(new.tomb) = Subject(old.tomb)
                     /\ new.res # NoReservation
                     /\ new.res.op = old.tomb.op /\ new.res.try = new.tomb.try

(* Mutant: a tombstone binds nobody.                                         *)
ReservationOnly(old, new, op) ==
  old.res # NoReservation => op = old.res.op \/ (Watched(old) = Watched(new) /\ old.res = new.res)

(* assertCleanupReservationMutation and assertCleanupTombstoneMutation: what *)
(* the operation op (None: not a cleanup) may write over old.                *)
MayWrite(old, new, op) ==
  /\ old.res # NoReservation =>
       \/ op = old.res.op
       \/ Watched(old) = Watched(new) /\ old.res = new.res
  /\ old.tomb # NoTombstone =>
       \/ Watched(old) = Watched(new) /\ old.tomb = new.tomb
       \/ op = old.tomb.op /\ (old.tomb = new.tomb \/ Adopted(old, new))

(* mutateActiveContext: the next revision of a context.                      *)
Put(r, s, state, delivery) ==
  [r EXCEPT !.ctx[s] = [state |-> state, delivery |-> delivery, rev |-> @.rev + 1]]
=============================================================================
