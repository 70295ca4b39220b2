--------------------------- MODULE ActiveContexts ---------------------------
(* The active contexts of SESSION_REGISTRY.json: each session's context with *)
(* its change, its operating-profile lease and its lease on a task. Commands *)
(* and hooks change them under the registry's lock from what they read       *)
(* before it (a revision, a diagnosis, the time), and project the single     *)
(* active change to CURRENT_CHANGE.md after it.                              *)
EXTENDS Naturals, FiniteSets, Functions

CONSTANTS Sessions, Changes, Commands,   \* Commands: processes running now
          NoChange, None,
          LeaseTime,                     \* lease-seconds of a task lease, in ticks
          MaxTurns, MaxWrites, MaxClock  \* bounds on turns, writes of contexts, time
ASSUME NoneAssumption == NoChange \notin Changes /\ None \notin Sessions
ASSUME TimeAssumption == LeaseTime \in Nat \ {0}

VARIABLES session,   \* status, last prompt and last Stop of each session
          context,   \* its active context
          removed,   \* sessions whose worktree Git no longer has
          pointer,   \* CURRENT_CHANGE.md
          clock,
          pc, loc    \* of each command: its next step and what it has read

vars == <<session, context, removed, pointer, clock, pc, loc>>

NoLease == [state |-> "none", turn |-> 0]
NoTask == [state |-> "none", until |-> 0]
NewContext == [state |-> "none", change |-> NoChange, rev |-> 0,
               profile |-> NoLease, task |-> NoTask]

(* What a revision of a context stands for. A command keeps it as it read it  *)
(* (saw), for the properties: its steps know the revision.                   *)
Content(c) == [c EXCEPT !.rev = 0]
Idle == [of |-> None, rev |-> 0, turn |-> 0, slug |-> NoChange, saw |-> Content(NewContext)]

Init ==
  /\ session = [s \in Sessions |-> [status |-> "active", turn |-> 1, stopped |-> 0]]
  /\ \E old \in SUBSET Sessions :
       context = [s \in Sessions |-> IF s \in old THEN [NewContext EXCEPT !.state = "active"]
                                    ELSE NewContext]
  /\ removed = {} /\ pointer = NoChange /\ clock = 0
  /\ pc = [p \in Commands |-> "idle"] /\ loc = [p \in Commands |-> Idle]

Goes(p, step) == pc[p] = "idle" /\ pc' = [pc EXCEPT ![p] = step]
Ends(p) == pc' = [pc EXCEPT ![p] = "idle"] /\ loc' = [loc EXCEPT ![p] = Idle]

(* resolveRuntimeActiveContext: a command runs for an active session, in its *)
(* worktree.                                                                 *)
Runs(s) == session[s].status = "active" /\ s \notin removed

(* mutateActiveContext: every write of a context is a revision.              *)
Writes == FoldFunction(+, 0, [s \in Sessions |-> context[s].rev])
Write(s, c) == /\ Writes < MaxWrites
               /\ context' = [context EXCEPT ![s] = [c EXCEPT !.rev = context[s].rev + 1]]
-----------------------------------------------------------------------------
(* UserPromptSubmit and the Stop hook, as far as the contexts see them: a    *)
(* Stop acknowledges the turn and closes the session or, degraded, keeps it. *)
Prompt(s) ==
  /\ FoldFunction(+, 0, [o \in Sessions |-> session[o].turn]) < MaxTurns
  /\ session' = [session EXCEPT ![s].turn = @ + 1, ![s].status = "active"]
  /\ UNCHANGED <<context, removed, pointer, clock, pc, loc>>

Stop(s) ==
  /\ session[s].status = "active" /\ session[s].stopped < session[s].turn
  /\ \E status \in {"active", "done"} :
       session' = [session EXCEPT ![s].stopped = session[s].turn, ![s].status = status]
  /\ UNCHANGED <<context, removed, pointer, clock, pc, loc>>

RemoveWorktree(s) ==
  /\ s \notin removed /\ removed' = removed \cup {s}
  /\ UNCHANGED <<session, context, pointer, clock, pc, loc>>

Tick ==
  /\ clock < MaxClock /\ clock' = clock + 1
  /\ UNCHANGED <<session, context, removed, pointer, pc, loc>>
-----------------------------------------------------------------------------
(* setActiveContextChange and clearActiveContextChange, without an expected  *)
(* revision.                                                                 *)
SetChange(p, s) ==
  /\ Runs(s) /\ Goes(p, "read")
  /\ \E slug \in Changes \cup {NoChange} :
       Write(s, [context[s] EXCEPT !.state = "active", !.change = slug])
  /\ UNCHANGED <<session, removed, pointer, clock, loc>>

(* projectLegacyActiveChange: the registry is read without its lock, and the *)
(* pointer written from what was read.                                       *)
Active == {s \in Sessions : context[s].state = "active"}

Projection == IF \E s \in Sessions : Active = {s}
              THEN context[CHOOSE s \in Active : TRUE].change ELSE NoChange

ReadForPointer(p) ==
  /\ pc[p] = "read"
  /\ loc' = [loc EXCEPT ![p].slug = Projection]
  /\ pc' = [pc EXCEPT ![p] = "project"]
  /\ UNCHANGED <<session, context, removed, pointer, clock>>

WritePointer(p) ==
  /\ pc[p] = "project" /\ pointer' = loc[p].slug
  /\ Ends(p) /\ UNCHANGED <<session, context, removed, clock>>

(* setSessionTaskOperatingProfile: a lease for the request being answered.   *)
Route(s) ==
  /\ Runs(s)
  /\ Write(s, [context[s] EXCEPT !.state = "active",
                 !.profile = [state |-> "active", turn |-> session[s].turn]])
  /\ UNCHANGED <<session, removed, pointer, clock, pc, loc>>

(* consumeSessionTaskOperatingProfile, by change-nag at a Stop: the context  *)
(* is read without the lock; its revision and lease are checked under it.    *)
ReadLease(p, s) ==
  /\ context[s].state = "active" /\ context[s].profile.state = "active"
  /\ Goes(p, "consume")
  /\ loc' = [loc EXCEPT ![p] = [@ EXCEPT !.of = s, !.rev = context[s].rev,
                                         !.turn = context[s].profile.turn,
                                         !.saw = Content(context[s])]]
  /\ UNCHANGED <<session, context, removed, pointer, clock>>

(* Mutant: the lease read is consumed whatever the context is now.           *)
AnyLease(c, l) == c.profile.state = "active"

SameLease(c, l) == c.rev = l.rev /\ c.profile.state = "active" /\ c.profile.turn = l.turn

Consume(p) ==
  /\ pc[p] = "consume"
  /\ LET s == loc[p].of
     IN  \/ /\ SameLease(context[s], loc[p])
            /\ Write(s, [context[s] EXCEPT !.profile.state = "consumed"])
         \/ ~SameLease(context[s], loc[p]) /\ UNCHANGED context
  /\ Ends(p) /\ UNCHANGED <<session, removed, pointer, clock>>
-----------------------------------------------------------------------------
(* claimTaskLease, of the one task modelled: the time is taken when the      *)
(* command starts, the lock later.                                           *)
StartClaim(p, s) ==
  /\ Runs(s) /\ Goes(p, "claim")
  /\ loc' = [loc EXCEPT ![p] = [@ EXCEPT !.of = s, !.turn = clock]]
  /\ UNCHANGED <<session, context, removed, pointer, clock>>

(* Mutant: only the claimant's own context is searched for a lease.          *)
OwnLeases(s) == {s} \cap {o \in Sessions : context[o].task.state = "active"}

Holders(s) == {o \in Sessions : context[o].task.state = "active"}

(* Mutant: the former owner's context keeps its revision.                    *)
LapsedQuietly(c, now) == [c EXCEPT !.task.state = "expired"]

Lapsed(c, now) == [c EXCEPT !.task.state = "expired", !.rev = @ + 1]

Claim(p) ==
  /\ pc[p] = "claim"
  /\ LET s == loc[p].of
         now == loc[p].turn
         late == {o \in Holders(s) : context[o].task.until <= now}
         after == [o \in Sessions |-> IF o \in late THEN Lapsed(context[o], now) ELSE context[o]]
     IN  \/ /\ context[s].state = "active" /\ Holders(s) = late
            /\ Writes + Cardinality(late) < MaxWrites
            /\ context' = [after EXCEPT ![s].task = [state |-> "active", until |-> now + LeaseTime],
                                        ![s].rev = @ + 1]
         \/ /\ context[s].state # "active" \/ Holders(s) # late
            /\ UNCHANGED context
  /\ Ends(p) /\ UNCHANGED <<session, removed, pointer, clock>>

(* releaseTaskLease: by its owner, expired or not.                           *)
Release(s) ==
  /\ Runs(s) /\ context[s].task.state = "active"
  /\ Write(s, [context[s] EXCEPT !.task.state = "released"])
  /\ UNCHANGED <<session, removed, pointer, clock, pc, loc>>
-----------------------------------------------------------------------------
(* diagnoseActiveContexts. A lease is over once its session is not active;   *)
(* the entry's last_stop_turn_sequence and last_stop_turn_id, the other two  *)
(* signs leaseExpired looks for, are written by no code: a Stop writes them  *)
(* to the activation.                                                        *)
LeaseExpired(s) == context[s].profile.state = "active" /\ session[s].status # "active"

Dead(s) == session[s].status # "active" \/ s \in removed

Ill(s) == context[s].state = "active" /\ (Dead(s) \/ LeaseExpired(s))

(* The doctor shows a revision; someone repairs what it showed.              *)
Inspect(p, s) ==
  /\ Ill(s) /\ Goes(p, "repair")
  /\ loc' = [loc EXCEPT ![p] = [@ EXCEPT !.of = s, !.rev = context[s].rev,
                                         !.saw = Content(context[s])]]
  /\ UNCHANGED <<session, context, removed, pointer, clock>>

StillIll(s, rev) == Ill(s) /\ context[s].rev = rev

Repaired(s) ==
  LET c == IF LeaseExpired(s) THEN [context[s] EXCEPT !.profile.state = "expired"] ELSE context[s]
  IN  IF Dead(s) THEN [c EXCEPT !.state = "closed"] ELSE c

(* repairActiveContext, by a session that is active.                         *)
Repair(p) ==
  /\ pc[p] = "repair"
  /\ LET s == loc[p].of
         may == StillIll(s, loc[p].rev) /\ \E a \in Sessions : session[a].status = "active"
     IN  \/ /\ may /\ Write(s, Repaired(s))
            /\ pc' = [pc EXCEPT ![p] = "read"] /\ UNCHANGED loc
         \/ ~may /\ Ends(p) /\ UNCHANGED context
  /\ UNCHANGED <<session, removed, pointer, clock>>
-----------------------------------------------------------------------------
(* A command that dies is one that takes no further step.                    *)
Next ==
  \/ Tick
  \/ \E s \in Sessions : Prompt(s) \/ Stop(s) \/ RemoveWorktree(s) \/ Route(s) \/ Release(s)
  \/ \E p \in Commands, s \in Sessions :
       SetChange(p, s) \/ ReadLease(p, s) \/ StartClaim(p, s) \/ Inspect(p, s)
  \/ \E p \in Commands : \/ ReadForPointer(p) \/ WritePointer(p) \/ Consume(p)
                         \/ Claim(p) \/ Repair(p)

Spec == Init /\ [][Next]_vars
-----------------------------------------------------------------------------
(* Types of every variable.                                                  *)
TypeOK ==
  /\ session \in [Sessions -> [status : {"active", "done"}, turn : 1..MaxTurns,
                               stopped : 0..MaxTurns]]
  /\ context \in [Sessions ->
       [state : {"none", "active", "closed"}, change : Changes \cup {NoChange},
        rev : 0..MaxWrites,
        profile : [state : {"none", "active", "consumed", "expired"}, turn : 0..MaxTurns],
        task : [state : {"none", "active", "released", "expired"},
                until : 0..MaxClock + LeaseTime]]]
  /\ removed \subseteq Sessions /\ pointer \in Changes \cup {NoChange}
  /\ clock \in 0..MaxClock
  /\ pc \in [Commands -> {"idle", "read", "project", "consume", "claim", "repair"}]
  /\ \A p \in Commands : loc[p].of \in Sessions \cup {None}

(* changes-and-verification.md: a claim rejects a concurrent owner and an    *)
(* expired lease can be recovered. No task has two active leases, and one is *)
(* never taken from its owner before its time, although the claimant's time  *)
(* is older than the lock it waited for.                                     *)
TaskNotStolen ==
  [][\A s \in Sessions :
       /\ context'[s].task.state = "active" =>
            \A o \in Sessions \ {s} : context'[o].task.state # "active"
       /\ (context[s].task.state = "active" /\ context'[s].task.state = "expired") =>
            context[s].task.until <= clock]_vars

(* A Stop's cleanup consumes the lease of the request it answers, never one  *)
(* routed after it was read (the command's earlier reading of the context).  *)
ConsumedIsRead ==
  [][\A s \in Sessions :
       (context[s].profile.state = "active" /\ context'[s].profile.state = "consumed") =>
         \E p \in Commands : pc[p] = "consume" /\ loc[p].of = s
                             /\ loc[p].turn = context[s].profile.turn]_vars

(* What a command decided on before the registry's lock is what it changes    *)
(* under it: a repair closes, or expires the lease of, the very context that  *)
(* the doctor showed, and a Stop consumes a lease in the very context it      *)
(* read, with the same change, leases and state. The steps compare revisions  *)
(* only; so every writer has to count its write, a claim that ends the lease  *)
(* of another session's context too, while that session is gone.             *)
ActedAsRead ==
  [][\A p \in Commands :
       (pc[p] \in {"consume", "repair"} /\ pc'[p] # pc[p] /\ context' # context) =>
         Content(context[loc[p].of]) = loc[p].saw]_vars

(* context.md:120: CURRENT_CHANGE.md holds the change of the one active      *)
(* context and is empty with none or several, when no command is under way.  *)
PointerIsDerived == (\A p \in Commands : pc[p] = "idle") => pointer = Projection

(* README.md:119: the doctor diagnoses an expired request-stop lease, one    *)
(* still active after the Stop of its request.                               *)
ExpiryIsDiagnosed ==
  \A s \in Sessions :
    (context[s].state = "active" /\ context[s].profile.state = "active"
       /\ session[s].stopped >= context[s].profile.turn) => LeaseExpired(s)
=============================================================================
