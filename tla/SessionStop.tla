---------------------------- MODULE SessionStop ----------------------------
(* The hooks of one session: SessionStart, UserPromptSubmit, and the Stop    *)
(* hook, which acknowledges a turn, stages and projects its memory, and      *)
(* closes the activation. Every registry access is one critical section of   *)
(* SESSION_REGISTRY.lock; Stops overlap each other and the other hooks, come *)
(* late, come twice and die between sections.                                *)
EXTENDS SessionActivations, FiniteSets

CONSTANTS Stops,           \* Stop processes that may overlap
          MaxActivations,  \* bound on activations opened
          MaxDeaths        \* bound on Stops killed
ASSUME BoundsAssumption == MaxActivations \in Nat \ {0} /\ MaxDeaths \in Nat

VARIABLES named,      \* does the host name turns (Codex), or not (Claude)
          turns,      \* turns in the transcript
          entry,      \* this session's entry of SESSION_REGISTRY.json
          outbox,     \* every memory event enqueued, in order
          published,  \* how many of them the shared memory holds
          pc, loc,    \* of each Stop: its next step and its locals
          deaths

host == <<named, turns>>
stops == <<pc, loc>>
vars == <<host, entry, outbox, published, stops, deaths>>


NoContext == [act |-> 0, epoch |-> 0, turn |-> 0, seq |-> 0, disp |-> "applied",
              state |-> "none"]

Init ==
  /\ named \in BOOLEAN /\ turns = 0
  /\ entry = NewEntry /\ outbox = <<>> /\ published = 0
  /\ pc = [h \in Stops |-> "idle"] /\ loc = [h \in Stops |-> NoContext]
  /\ deaths = 0

Events == {outbox[i] : i \in DOMAIN outbox}
Event(c) == [act |-> c.act, turn |-> c.turn, seq |-> c.seq]
-----------------------------------------------------------------------------
Return(h) ==
  pc' = [pc EXCEPT ![h] = "idle"] /\ loc' = [loc EXCEPT ![h] = NoContext]

(* SessionStart: a new activation, whatever the session was.                 *)
SessionStart ==
  /\ Epoch(entry) < MaxActivations
  /\ entry' = [Open(entry) EXCEPT !.status = "active"]
  /\ UNCHANGED <<host, outbox, published, stops, deaths>>

(* UserPromptSubmit: of a new turn, or again of one it named before; a host  *)
(* may also have a turn whose prompt the hook never saw.                     *)
Prompt ==
  /\ \E t \in 1..turns + 1 :
       /\ t \in Turn /\ (t > turns \/ (named /\ entry.seqs[t] # 0))
       /\ turns' = Maximum(turns, t)
       /\ LET e == Advance(entry, IF named THEN t ELSE 0)
          IN  /\ Epoch(e) <= MaxActivations
              /\ entry' = [e EXCEPT !.status = "active"]
  /\ UNCHANGED <<named, outbox, published, stops, deaths>>

PromptLost ==
  /\ turns < MaxTurns /\ turns' = turns + 1
  /\ UNCHANGED <<named, entry, outbox, published, stops, deaths>>

(* sweepStaleSessions, by the SessionStart of another session twelve hours   *)
(* after this one was last heard of: only the status changes.                *)
Sweep ==
  /\ entry.status = "active"
  /\ entry' = [entry EXCEPT !.status = "done"]
  /\ UNCHANGED <<host, outbox, published, stops, deaths>>

(* Any other projector of the shared memory empties the outbox.              *)
OthersProject ==
  /\ published < Len(outbox) /\ published' = Len(outbox)
  /\ UNCHANGED <<host, entry, outbox, stops, deaths>>
-----------------------------------------------------------------------------
(* main, up to its first critical section: the entry is read outside the     *)
(* lock, and the turn is proven by the transcript.                           *)
Begin(h) ==
  /\ pc[h] = "idle" /\ entry.status # "absent"
  /\ \E t \in IF named THEN 1..turns ELSE {turns} \ {0} :
       loc' = [loc EXCEPT ![h] = [NoContext EXCEPT !.turn = t, !.epoch = Epoch(entry)]]
  /\ pc' = [pc EXCEPT ![h] = "acknowledge"]
  /\ UNCHANGED <<host, entry, outbox, published, deaths>>

(* The turn Codex names is not in the transcript yet: an ambiguous attempt   *)
(* of the entry as it was read is staged, and the Stop returns.              *)
Unproven(h) ==
  /\ pc[h] = "idle" /\ named /\ turns < MaxTurns /\ entry.status # "absent"
  /\ pc' = [pc EXCEPT ![h] = "stage"]
  /\ loc' = [loc EXCEPT ![h] =
       [NoContext EXCEPT !.turn = turns + 1, !.act = entry.active, !.seq = entry.last,
                         !.epoch = IF entry.active # 0 THEN entry.active ELSE Epoch(entry),
                         !.disp = "ambiguous"]]
  /\ UNCHANGED <<host, entry, outbox, published, deaths>>

(* The first critical section: the turn is acknowledged, or what is wrong    *)
(* with it is remembered for the staging.                                    *)
AckStep(h) ==
  /\ pc[h] = "acknowledge"
  /\ LET t == loc[h].turn
         n == SequenceOf(entry, t)
         act == StopActivation(entry)
         disp == Disposed(entry, act, t, n)
     IN  /\ loc' = [loc EXCEPT ![h] = [@ EXCEPT !.act = act, !.seq = n, !.disp = disp,
                             !.epoch = IF act # 0 THEN act ELSE loc[h].epoch]]
         /\ entry' = IF disp = "applied" THEN Acknowledge(entry, act, t, n) ELSE entry
  /\ pc' = [pc EXCEPT ![h] = "stage"]
  /\ UNCHANGED <<host, outbox, published, deaths>>
-----------------------------------------------------------------------------
(* stageStopMemoryAttempt, the second critical section: the Stop is judged   *)
(* again; its event is enqueued, then the attempt recorded. A Stop that was  *)
(* rejected returns (shouldAbortStopAfterStaging), and so does a duplicate   *)
(* unless its own acknowledgement was applied.                               *)
Staged(h, e, state) ==
  /\ entry' = e
  /\ \/ /\ state = "enqueued" \/ (state = "duplicate" /\ loc[h].disp = "applied")
        /\ loc' = [loc EXCEPT ![h].state = state]
        /\ pc' = [pc EXCEPT ![h] = IF state = "enqueued" THEN "project" ELSE "close"]
     \/ /\ state = "skipped" \/ (state = "duplicate" /\ loc[h].disp # "applied")
        /\ Return(h)

Rejected(h) ==
  LET c == loc[h]
      disp == Causal(entry, c)
      skip == AttemptOf(c, "skipped")
  IN  /\ disp # "applied"
      /\ Staged(h, IF disp = "ambiguous" /\ MaySkip(entry, c)
                   THEN [entry EXCEPT !.attempt = skip] ELSE entry, "skipped")
      /\ UNCHANGED outbox

Again(h) ==
  LET c == loc[h]
  IN  /\ Causal(entry, c) = "applied"
      /\ SameAttempt(entry.attempt, c) /\ entry.attempt.state # "skipped"
      /\ Staged(h, entry, Retried(entry.attempt.state))
      /\ UNCHANGED outbox

Enqueue(h) ==
  LET c == loc[h]
  IN  /\ Causal(entry, c) = "applied"
      /\ ~(SameAttempt(entry.attempt, c) /\ entry.attempt.state # "skipped")
      /\ outbox' = IF Event(c) \in Events THEN outbox ELSE Append(outbox, Event(c))
      /\ Staged(h, [entry EXCEPT !.attempt = AttemptOf(c, "enqueued")], "enqueued")

Stage(h) ==
  /\ pc[h] = "stage"
  /\ Rejected(h) \/ Again(h) \/ Enqueue(h)
  /\ UNCHANGED <<host, published, deaths>>

(* projectStopMemoryAttempt, outside the registry's lock: busy or failed is  *)
(* degraded.                                                                 *)
ProjectStep(h) ==
  /\ pc[h] = "project"
  /\ \/ published' = Len(outbox) /\ loc' = [loc EXCEPT ![h].state = "projected"]
     \/ published' = published /\ loc' = [loc EXCEPT ![h].state = "degraded"]
  /\ pc' = [pc EXCEPT ![h] = "record"]
  /\ UNCHANGED <<host, entry, outbox, deaths>>

(* Mutant: the outcome is recorded whichever turn staged last.               *)
MineByActivation(c) == IsOpen(entry) /\ entry.active = c.act

(* recordStopMemoryOutcome: only while the very attempt staged still stands. *)
Mine(c) == IsOpen(entry) /\ entry.active = c.act /\ SameAttempt(entry.attempt, c)

(* Mutant: a degraded Stop closes like any other.                            *)
AfterRecord(c) == "close"

NextOf(c) == IF c.state = "degraded" THEN "reopen" ELSE "close"

Record(h) ==
  /\ pc[h] = "record"
  /\ LET c == loc[h]
         final == AttemptOf(c, c.state)
     IN  /\ entry' = IF ~Mine(c) THEN entry
                     ELSE [entry EXCEPT !.attempt = final,
                             !.checkpoint = IF c.state = "projected" THEN final ELSE NoAttempt]
         /\ pc' = [pc EXCEPT ![h] = NextOf(c)]
  /\ UNCHANGED <<host, outbox, published, loc, deaths>>

(* Degraded: the session is kept active, whatever happened to it meanwhile.  *)
(* Its last turn is the Stop's, or, when the note was busy, the turn of      *)
(* CURRENT_SESSION.md as main read it, which may be any earlier one.         *)
Reopen(h) ==
  /\ pc[h] = "reopen"
  /\ \E t \in {entry.lastTurn} \cup 1..loc[h].turn :
       entry' = [entry EXCEPT !.status = "active", !.lastTurn = t]
  /\ Return(h)
  /\ UNCHANGED <<host, outbox, published, deaths>>

(* finalizeSessionRegistry: the second transition.                           *)
CloseStep(h) ==
  /\ pc[h] = "close"
  /\ entry' = IF CanClose(entry, loc[h].act) THEN Close(entry, loc[h].act, loc[h].turn)
              ELSE entry
  /\ Return(h)
  /\ UNCHANGED <<host, outbox, published, deaths>>

(* The host kills a Stop past its deadline, or the machine does.             *)
Die(h) ==
  /\ pc[h] # "idle" /\ deaths < MaxDeaths
  /\ deaths' = deaths + 1 /\ Return(h)
  /\ UNCHANGED <<host, entry, outbox, published>>

(* The same inside the staging, between the event and the attempt.           *)
DieStaging(h) ==
  /\ pc[h] = "stage" /\ deaths < MaxDeaths
  /\ Causal(entry, loc[h]) = "applied" /\ Event(loc[h]) \notin Events
  /\ outbox' = Append(outbox, Event(loc[h]))
  /\ deaths' = deaths + 1 /\ Return(h)
  /\ UNCHANGED <<host, entry, published>>

Next ==
  \/ SessionStart \/ Prompt \/ PromptLost \/ Sweep \/ OthersProject
  \/ \E h \in Stops : \/ Begin(h) \/ Unproven(h) \/ AckStep(h) \/ Stage(h)
                      \/ ProjectStep(h) \/ Record(h) \/ Reopen(h) \/ CloseStep(h)
                      \/ Die(h) \/ DieStaging(h)

Spec == Init /\ [][Next]_vars
-----------------------------------------------------------------------------
Activations == 1..MaxActivations
Seqs == 0..2 * MaxTurns
Attempts == [act : 0..MaxActivations, epoch : 0..MaxActivations, turn : 0..MaxTurns,
             seq : Seqs, state : {"none", "enqueued", "projected", "degraded", "skipped"}]

(* Types of every variable.                                                  *)
TypeOK ==
  /\ named \in BOOLEAN /\ turns \in 0..MaxTurns
  /\ entry \in [status : {"absent", "active", "done"}, active : 0..MaxActivations,
                acts : Seq([status : {"active", "superseded", "done"}, opened : Seqs,
                            last : Seqs, stop : 0..MaxTurns, stopSeq : Seqs]),
                last : Seqs, lastTurn : 0..MaxTurns, lastPrompt : 0..MaxTurns,
                seqs : [Turn -> Seqs], attempt : Attempts, checkpoint : Attempts]
  /\ outbox \in Seq([act : Activations, turn : Turn, seq : Seqs])
  /\ published \in 0..Len(outbox)
  /\ pc \in [Stops -> {"idle", "acknowledge", "stage", "project", "record",
                       "reopen", "close"}]
  /\ \A h \in Stops : loc[h].act \in 0..MaxActivations /\ loc[h].turn \in 0..MaxTurns
  /\ deaths \in 0..MaxDeaths

(* However prompts, starts, sweeps and late Stops interleave, at most one    *)
(* activation is open: the newest, and the entry points at it. A done        *)
(* activation is never reopened by a late write of the entry.                *)
OneActivation ==
  /\ entry.active \in {0, Epoch(entry)}
  /\ \A a \in DOMAIN entry.acts : entry.acts[a].status = "active" <=> a = entry.active

(* The staging order is the causal order: no Stop that came late, twice or   *)
(* after a restart puts the memory of an older activation or turn behind     *)
(* that of a newer one (causalDisposition, judged again under the lock).     *)
Before(x, y) == x.act < y.act \/ (x.act = y.act /\ x.seq <= y.seq)

InOrder ==
  \A i, j \in DOMAIN outbox :
    i < j => Before(outbox[i], outbox[j]) /\ outbox[i] # outbox[j]

(* An activation closed by a Stop has the memory of the turn that closed it  *)
(* in the shared memory, not only in the outbox: a degraded projection keeps *)
(* it open, and the closing Stop cannot close what another one staged.       *)
DoneIsPublished ==
  \A a \in DOMAIN entry.acts :
    entry.acts[a].status = "done" =>
      \E i \in 1..published : outbox[i].act = a /\ outbox[i].turn = entry.acts[a].stop

(* The entry's memory never goes back: neither an attempt that staged its     *)
(* event nor the checkpoint recorded is replaced by that of an older         *)
(* activation or turn, whatever outcome arrives late. A skip staged nothing: *)
(* a Stop of an earlier turn, acknowledged before it, replaces it.           *)
NotOlder(x, y) == x.epoch < y.epoch \/ (x.epoch = y.epoch /\ x.seq <= y.seq)

MemoryAdvances ==
  [][/\ entry.attempt.state # "skipped" => NotOlder(entry.attempt, entry'.attempt)
     /\ entry'.checkpoint # NoAttempt => NotOlder(entry.checkpoint, entry'.checkpoint)]_vars
=============================================================================
