----------------------------- MODULE SyncRecord -----------------------------
(***************************************************************************)
(* One record of the sync protocol (packages/sync/src/sync-protocol.mjs):  *)
(* what applySyncEvent and resolveSyncConflict make of the state kept for  *)
(* one record key.  createSyncState keeps the same four parts for every    *)
(* key; the keys never read each other's.                                  *)
(*                                                                         *)
(* Abstractions.  An event's hash is its `id`, its payload a value; its    *)
(* actor, device, clock, privacy and policy are left out (no branch reads  *)
(* them).  `revision` is base + 1, which createSyncEvent enforces.         *)
(* `conflicted` of a record is the same fact as an open conflict.          *)
(* `decisions` is written and never read, and is left out.                 *)
(***************************************************************************)
EXTENDS Naturals, FiniteSets, FiniteSetsExt

NoRecord == [id |-> 0, base |-> 0, payload |-> 0, parents |-> {}, op |-> "none"]

Revision(e) == IF e = NoRecord THEN 0 ELSE e.base + 1

Empty == [record |-> NoRecord, conflict |-> "none", candidates |-> {},
          pending |-> {}, applied |-> {}]

Opened(s, e) ==
    [s EXCEPT !.conflict = "open",
              !.candidates = (@ \cup {s.record, e}) \ {NoRecord},
              !.applied = @ \cup {e.id}]

(* Bugs that the checks below must notice: no compare-and-swap, and a       *)
(* conflict that does not hold the record.                                 *)
LastWriteWins(s, e) == [s EXCEPT !.record = e, !.applied = @ \cup {e.id}]

AdmitDespiteConflict(s, e) ==
    IF e.base = Revision(s.record)
    THEN [s EXCEPT !.record = e, !.conflict = "resolved", !.applied = @ \cup {e.id}]
    ELSE Opened(s, e)

(* The branches of applySyncEvent below the duplicate and pending checks,  *)
(* in their order, up to the call of replayPending.                        *)
Admit(s, e) ==
    CASE s.conflict = "open" -> Opened(s, e)
      [] s.conflict # "open" /\ e.base > Revision(s.record) ->
            [s EXCEPT !.pending = @ \cup {e}]
      [] s.conflict # "open" /\ e.base < Revision(s.record) -> Opened(s, e)
      [] OTHER ->
            IF e.parents # {} /\ s.record # NoRecord /\ s.record.id \notin e.parents
            THEN Opened(s, e)
            ELSE [s EXCEPT !.record = e, !.applied = @ \cup {e.id}]

Ready(s) == {e \in s.pending : e.base <= Revision(s.record)}

(* addPending sorts by revision, then by id.                               *)
First(events) ==
    CHOOSE e \in events : \A f \in events :
        e.base < f.base \/ (e.base = f.base /\ e.id <= f.id)

(* replayPending: ready events leave the pending set and are applied until *)
(* none is ready.  An event that follows another of the same batch has at  *)
(* most its revision, so the nested calls keep the same order.             *)
ReplayPending(s) ==
    LET after[n \in 0..Cardinality(s.pending)] ==
            IF n = 0 THEN s
            ELSE LET t == after[n - 1] IN
                 IF Ready(t) = {} THEN t
                 ELSE LET e == First(Ready(t))
                      IN  Admit([t EXCEPT !.pending = @ \ {e}], e)
    IN  after[Cardinality(s.pending)]

applySyncEvent(s, e) ==
    IF e.id \in s.applied \/ e \in s.pending THEN s
    ELSE LET t == Admit(s, e)
         IN  IF t.record # s.record THEN ReplayPending(t) ELSE t

(* resolveSyncConflict, for a selected candidate of an open conflict: the  *)
(* resolution outranks every candidate and names them all as parents.      *)
Resolution(s, selected, id) ==
    [id |-> id, base |-> Max({Revision(c) : c \in s.candidates}),
     payload |-> selected.payload,
     parents |-> {c.id : c \in s.candidates}, op |-> "resolve"]

resolveSyncConflict(s, selected, id) ==
    LET e == Resolution(s, selected, id)
    IN  [s EXCEPT !.record = e, !.conflict = "resolved", !.applied = @ \cup {id}]

=============================================================================
