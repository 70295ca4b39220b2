------------------------ MODULE SessionActivations ------------------------
(* One session's entry of SESSION_REGISTRY.json and the pure operations of    *)
(* hooks/obsidian-common.mjs on it. An activation is an epoch of the session: *)
(* its id is a fresh UUID, here its number. Turns are numbered as they stand  *)
(* in the transcript, 0 being "none" or "not told by the host".               *)
EXTENDS Naturals, Sequences

CONSTANT MaxTurns
ASSUME TurnAssumption == MaxTurns \in Nat \ {0}

Turn == 1..MaxTurns

NoAttempt == [act |-> 0, epoch |-> 0, turn |-> 0, seq |-> 0, state |-> "none"]

(* An entry nobody has written yet; "checkpoint" is the attempt whose        *)
(* projection memory_checkpoint reports.                                     *)
NewEntry == [status |-> "absent", active |-> 0, acts |-> <<>>, last |-> 0, lastTurn |-> 0,
             lastPrompt |-> 0, seqs |-> [t \in Turn |-> 0],
             attempt |-> NoAttempt, checkpoint |-> NoAttempt]

Maximum(m, n) == IF m > n THEN m ELSE n
Epoch(e) == Len(e.acts)
IsOpen(e) == e.active # 0 /\ e.acts[e.active].status = "active"

(* openActivation, of an id the session does not have yet.                   *)
Open(e) ==
  LET old == IF IsOpen(e) THEN [e.acts EXCEPT ![e.active].status = "superseded"] ELSE e.acts
  IN  [e EXCEPT !.acts = Append(old, [status |-> "active", opened |-> e.last, last |-> e.last,
                                      stop |-> 0, stopSeq |-> 0]),
                !.active = Epoch(e) + 1]

(* advanceActivationTurn: a turn already known changes nothing, a session    *)
(* without an open activation gets one.                                      *)
Known(e, t) == t # 0 /\ (e.lastTurn = t \/ e.lastPrompt = t \/ e.seqs[t] # 0)

Advance(e, t) ==
  IF Known(e, t) THEN e
  ELSE LET o == IF IsOpen(e) THEN e ELSE Open(e)
           n == o.last + 1
       IN  [o EXCEPT !.last = n, !.acts[o.active].last = Maximum(@, n),
                     !.lastPrompt = IF t = 0 THEN @ ELSE t,
                     !.seqs = IF t = 0 THEN @ ELSE [@ EXCEPT ![t] = n]]

(* resolveRegisteredTurnSequence, resolveStopActivation: a Stop gives its    *)
(* transcript, which is that of the session.                                 *)
SequenceOf(e, t) == IF e.seqs[t] # 0 THEN e.seqs[t] ELSE t
StopActivation(e) == IF IsOpen(e) THEN e.active ELSE 0

(* applyStopActivation: what becomes of a Stop of turn t, with sequence n.   *)
Disposed(e, act, t, n) ==
  IF act = 0 THEN "ambiguous"
  ELSE IF n <= e.acts[act].opened /\ act > 1 THEN "superseded"
  ELSE IF e.acts[act].stop = t THEN "duplicate"
  ELSE IF n < e.last THEN "stale_turn"
  ELSE "applied"

Acknowledge(e, act, t, n) ==
  [e EXCEPT !.status = "active", !.last = Maximum(@, n), !.lastTurn = t,
            !.acts[act] = [@ EXCEPT !.last = n, !.stop = t, !.stopSeq = n]]

(* Mutant: a late Stop closes its activation, whichever is open now.         *)
CloseAny(e, act) == act # 0 /\ IsOpen(e)

(* closeSessionActivation: the second transition of a Stop.                  *)
CanClose(e, act) == act # 0 /\ e.active = act /\ e.acts[act].status = "active"

Close(e, act, t) == [e EXCEPT !.status = "done", !.active = 0, !.lastTurn = t,
                              !.acts[act] = [@ EXCEPT !.status = "done", !.stop = t]]
-----------------------------------------------------------------------------
(* session-memory-lifecycle: c is a Stop's context, with the disposition its *)
(* acknowledgement got; causalDisposition judges it again.                   *)
StopTurnOf(e, act) == IF e.acts[act].stop # 0 THEN e.acts[act].stop ELSE e.lastTurn
StopSeqOf(e, act) == IF e.acts[act].stopSeq # 0 THEN e.acts[act].stopSeq ELSE e.last

(* Mutant: the staging trusts the acknowledgement.                           *)
TrustAck(e, c) ==
  IF c.act = 0 THEN "ambiguous"
  ELSE IF c.disp \in {"ambiguous", "stale_turn", "superseded"} THEN c.disp
  ELSE "applied"

Causal(e, c) ==
  IF c.act = 0 THEN "ambiguous"
  ELSE IF c.disp \in {"ambiguous", "stale_turn", "superseded"} THEN c.disp
  ELSE IF \/ ~IsOpen(e) \/ e.active # c.act
          \/ c.act > 1 /\ c.seq <= e.acts[c.act].opened THEN "superseded"
  ELSE IF StopSeqOf(e, c.act) > c.seq \/ StopTurnOf(e, c.act) \notin {0, c.turn} THEN "stale_turn"
  ELSE "applied"

AttemptOf(c, state) == [act |-> c.act, epoch |-> c.epoch, turn |-> c.turn,
                        seq |-> c.seq, state |-> state]

SameAttempt(x, y) ==
  x.act = y.act /\ x.epoch = y.epoch /\ x.turn = y.turn /\ x.seq = y.seq

(* retryAttempt: the state of a staged attempt that is staged again.         *)
Retried(state) == IF state = "projected" THEN "duplicate" ELSE "enqueued"

(* canPersistAmbiguousSkip, of a candidate whose epoch is given.             *)
MaySkip(e, c) ==
  /\ c.epoch >= Epoch(e) /\ (c.epoch = Epoch(e) => e.last <= c.seq)
  /\ \/ e.attempt = NoAttempt
     \/ e.attempt.epoch < c.epoch
     \/ /\ e.attempt.epoch = c.epoch
        /\ \/ e.attempt.seq < c.seq
           \/ /\ e.attempt.seq = c.seq /\ e.attempt.act = c.act
              /\ e.attempt.turn = c.turn /\ e.attempt.state = "skipped"
=============================================================================
