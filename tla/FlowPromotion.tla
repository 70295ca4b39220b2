---------------------------- MODULE FlowPromotion ----------------------------
(* The FLOW commands of hooks/flow-core over FlowStore: finish records a red  *)
(* attempt or a receipt after long checks; promote is a saga under the lock   *)
(* of its change's slug, resumed by a retry after a crash or an error at any  *)
(* step.  `change new` runs beside them without that lock.                    *)
EXTENDS FlowStore, Sequences

CONSTANTS Proc,           \* concurrent invocations of the CLI
          MaxFailures     \* bound: crashes and errors

ASSUME PromotionAssumption == None \notin Proc \union Flow /\ MaxFailures \in Nat

VARIABLES
  call,        \* what each process is doing
  lock,        \* the holder of each slug's promotion lock
  made,        \* slugs whose change directory exists
  files,       \* the artifacts in it, flow-origin.json apart
  originOf,    \* the flow of its flow-origin.json
  current,     \* CURRENT_CHANGE.md
  bound,       \* change_slug of each session in SESSION_REGISTRY
  notes,       \* flows whose end is in their session note
  failures

change == <<made, files, originOf, current, bound>>
vars == <<store, call, lock, change, notes, failures>>

(* newChange writes these in this order; the rest of a change is written by  *)
(* enrichProposal ("summary") and by its author ("delta").                   *)
Scaffold == <<"proposal", "tasks", "impact", "design", "baseline">>
Expected == {Scaffold[i] : i \in DOMAIN Scaffold} \union {"summary"}

Locked == {"decide", "reserve", "mkdir", "origin", "new", "enrich", "register", "terminal"}

Call == [pc : Locked \union {"checks", "lock", "scaffold", "activate", "note"},
         cmd : {"finish", "promote", "new"}, flow : Flow \union {None},
         slug : Slug \union {None}, seen : 0 .. MaxAttempts,
         existed : BOOLEAN, at : 1 .. Len(Scaffold)]

ASSUME CallAssumption == None \notin Call

At(p, pc) == call[p] # None /\ call[p].pc = pc

Holds(p) == call[p] # None /\ call[p].cmd = "promote" /\ call[p].pc \notin {"lock", "note"}

TypeOK == /\ StoreTypeOK
          /\ call \in [Proc -> Call \union {None}]
          /\ lock \in [Slug -> Proc \union {None}]
          /\ \A s \in Slug, p \in Proc : lock[s] = p <=> Holds(p) /\ call[p].slug = s
          /\ made \subseteq Slug
          /\ files \in [Slug -> SUBSET (Expected \union {"delta"})]
          /\ originOf \in [Slug -> Flow \union {None}]
          /\ \A s \in Slug \ made : files[s] = {} /\ originOf[s] = None
          /\ current \in Slug \union {None} /\ bound \in [Session -> Slug \union {None}]
          /\ notes \subseteq receipt \union promotion
          /\ failures \in 0 .. MaxFailures

Init == /\ StoreInit
        /\ call = [p \in Proc |-> None] /\ lock = [s \in Slug |-> None]
        /\ made = {} /\ files = [s \in Slug |-> {}]
        /\ originOf = [s \in Slug |-> None] /\ current = None
        /\ bound = [s \in Session |-> None] /\ notes = {} /\ failures = 0

Go(p, pc) == call' = [call EXCEPT ![p].pc = pc]
End(p) == call' = [call EXCEPT ![p] = None]
Unlock(p) == lock' = [s \in Slug |-> IF lock[s] = p THEN None ELSE lock[s]]

Begin(p, cmd, pc, f, s, existed) ==
  /\ call[p] = None
  /\ call' = [call EXCEPT ![p] = [pc |-> pc, cmd |-> cmd, flow |-> f, slug |-> s,
                                  seen |-> 0, existed |-> existed, at |-> 1]]
-----------------------------------------------------------------------------
Start(f) == Create(f) /\ UNCHANGED <<call, lock, change, notes, failures>>

(* finishFlow reads the flow, runs the sensors, and only then writes.        *)
Finish(p, f) == /\ State(f) \in {"active", "finished"}
                /\ Begin(p, "finish", IF State(f) = "active" THEN "checks" ELSE "note",
                         f, None, FALSE)
                /\ UNCHANGED <<store, lock, change, notes, failures>>

Red(p) == /\ At(p, "checks")
          /\ \/ AppendAttempt(call[p].flow)
             \/ State(call[p].flow) # "active" /\ UNCHANGED store
          /\ End(p)
          /\ UNCHANGED <<lock, change, notes, failures>>

Green(p) == /\ At(p, "checks")
            /\ \/ WriteReceipt(call[p].flow) /\ Go(p, "note")
               \/ State(call[p].flow) # "active" /\ UNCHANGED store /\ End(p)
            /\ UNCHANGED <<lock, change, notes, failures>>

(* The session note, after the terminal file; its marker makes it idempotent. *)
Note(p) == /\ At(p, "note")
           /\ notes' = notes \union {call[p].flow}
           /\ End(p)
           /\ UNCHANGED <<store, lock, change, failures>>
-----------------------------------------------------------------------------
(* promoteFlow up to the slug lock: s is the slug asked for or the contract's. *)
Promote(p, f, s) ==
  /\ \/ State(f) \in {"active", "promoted"}
     \/ State(f) = "promoting" /\ reservation[f].slug = s
  /\ Begin(p, "promote", IF State(f) = "promoted" THEN "note" ELSE "lock", f, s, FALSE)
  /\ UNCHANGED <<store, lock, change, notes, failures>>

Acquire(p) == /\ At(p, "lock")
              /\ lock[call[p].slug] = None
              /\ lock' = [lock EXCEPT ![call[p].slug] = p]
              /\ Go(p, "decide")
              /\ UNCHANGED <<store, change, notes, failures>>

(* Mutant: other flows' reservations are not consulted.                      *)
NotPromoted(f, s) == \A g \in promotion \ {f} : reservation[g].slug # s

(* assertSlugOwner                                                           *)
Unowned(f, s) == \A g \in Flow \ {f} : reservation[g].slug # s

(* Mutant: only an empty directory is resumed.                               *)
ResumableEmpty(f, s) == files[s] = {} /\ originOf[s] = None

(* A directory the reserved promotion may go on in: empty, or its own and    *)
(* without an artifact promote does not write.                               *)
Resumable(f, s) == IF originOf[s] = None THEN files[s] = {}
                   ELSE originOf[s] = f /\ files[s] \subseteq Expected

(* Mutant: the scaffold is taken as written once its origin is.              *)
AfterOrigin(f, s) == IF State(f) = "active" THEN "reserve"
                     ELSE IF originOf[s] = None THEN "mkdir" ELSE "register"

FirstStep(f, s) == IF State(f) = "active" THEN "reserve" ELSE "mkdir"

(* The authoritative reading, under the lock.                                *)
Claims(f, s) == /\ Unowned(f, s)
                /\ \/ State(f) = "active" /\ s \notin made
                   \/ State(f) = "promoting" /\ reservation[f].slug = s /\ Resumable(f, s)

Decide(p) ==
  LET f == call[p].flow  s == call[p].slug IN
  /\ At(p, "decide")
  /\ Claims(f, s)
  /\ call' = [call EXCEPT ![p].pc = FirstStep(f, s), ![p].seen = attempts[f]]
  /\ UNCHANGED <<store, lock, change, notes, failures>>

Refuse(p) == /\ At(p, "decide")
             /\ ~Claims(call[p].flow, call[p].slug)
             /\ IF State(call[p].flow) = "promoted" THEN Go(p, "note") ELSE End(p)
             /\ Unlock(p)
             /\ UNCHANGED <<store, change, notes, failures>>

(* The flow may have ended, been reserved or taken an attempt since.         *)
ReserveSlug(p) ==
  LET c == call[p] IN
  /\ At(p, "reserve")
  /\ \/ /\ Reserve(c.flow, c.slug, c.seen)
        /\ Go(p, "mkdir")
        /\ UNCHANGED lock
     \/ /\ State(c.flow) # "active" \/ c.seen # attempts[c.flow]
        /\ End(p) /\ Unlock(p)
        /\ UNCHANGED store
  /\ UNCHANGED <<change, notes, failures>>

Mkdir(p) == /\ At(p, "mkdir")
            /\ made' = made \union {call[p].slug}
            /\ Go(p, "origin")
            /\ UNCHANGED <<store, lock, files, originOf, current, bound, notes, failures>>

(* ensureOrigin                                                              *)
Origin(p) == /\ At(p, "origin")
             /\ originOf[call[p].slug] \in {None, call[p].flow}
             /\ originOf' = [originOf EXCEPT ![call[p].slug] = call[p].flow]
             /\ Go(p, "new")
             /\ UNCHANGED <<store, lock, made, files, current, bound, notes, failures>>

(* newChange, inside promote or for `change new`: existed is read first.     *)
NewInside(p) ==
  /\ At(p, "new")
  /\ call' = [call EXCEPT ![p].pc = "scaffold", ![p].at = 1,
                          ![p].existed = "proposal" \in files[call[p].slug]]
  /\ UNCHANGED <<store, lock, change, notes, failures>>

ChangeNew(p, s) == /\ Begin(p, "new", "scaffold", None, s, "proposal" \in files[s])
                   /\ made' = made \union {s}
                   /\ UNCHANGED <<store, lock, files, originOf, current, bound, notes, failures>>

Write(p) ==
  LET c == call[p]  a == Scaffold[c.at] IN
  /\ At(p, "scaffold")
  /\ files' = IF c.existed /\ a \in {"impact", "baseline"} THEN files
              ELSE [files EXCEPT ![c.slug] = @ \union {a}]
  /\ IF c.at < Len(Scaffold) THEN call' = [call EXCEPT ![p].at = @ + 1]
                             ELSE Go(p, "activate")
  /\ UNCHANGED <<store, lock, made, originOf, current, bound, notes, failures>>

Activate(p) == /\ At(p, "activate")
               /\ current' = call[p].slug
               /\ IF call[p].cmd = "new" THEN End(p) ELSE Go(p, "enrich")
               /\ UNCHANGED <<store, lock, made, files, originOf, bound, notes, failures>>

(* enrichProposal: idempotent by its marker.                                 *)
Enrich(p) == /\ At(p, "enrich")
             /\ files' = [files EXCEPT ![call[p].slug] = @ \union {"summary"}]
             /\ Go(p, "register")
             /\ UNCHANGED <<store, lock, made, originOf, current, bound, notes, failures>>

Register(p) == /\ At(p, "register")
               /\ bound' = [bound EXCEPT ![SessionOf[call[p].flow]] = call[p].slug]
               /\ Go(p, "terminal")
               /\ UNCHANGED <<store, lock, made, files, originOf, current, notes, failures>>

Terminal(p) == /\ At(p, "terminal")
               /\ WritePromotion(call[p].flow)
               /\ Go(p, "note") /\ Unlock(p)
               /\ UNCHANGED <<change, notes, failures>>
-----------------------------------------------------------------------------
(* The author of a change adds a spec delta.                                 *)
Author(s) == /\ "proposal" \in files[s]
             /\ files' = [files EXCEPT ![s] = @ \union {"delta"}]
             /\ UNCHANGED <<store, call, lock, made, originOf, current, bound, notes, failures>>

(* A crash, an error of any call or a BUSY lock; a dead holder's lock is     *)
(* reaped by the next caller (VaultLock).                                    *)
Fail(p) == /\ call[p] # None
           /\ failures < MaxFailures
           /\ failures' = failures + 1
           /\ End(p) /\ Unlock(p)
           /\ UNCHANGED <<store, change, notes>>

Step(p) == \/ Red(p) \/ Green(p) \/ Note(p) \/ Decide(p) \/ Refuse(p)
           \/ ReserveSlug(p) \/ Mkdir(p) \/ Origin(p) \/ NewInside(p) \/ Write(p)
           \/ Activate(p) \/ Enrich(p) \/ Register(p) \/ Terminal(p)

Next == \/ \E f \in Flow : Start(f)
        \/ \E p \in Proc : Step(p) \/ Acquire(p) \/ Fail(p)
        \/ \E p \in Proc, f \in Flow : Finish(p, f) \/ \E s \in Slug : Promote(p, f, s)
        \/ \E p \in Proc, s \in Slug : ChangeNew(p, s)
        \/ \E s \in Slug : Author(s)

Spec == Init /\ [][Next]_vars

(* A command that runs ends, a lock is not refused for ever, and a promotion *)
(* that was not reported as done is retried.                                 *)
FairSpec == /\ Spec
            /\ \A p \in Proc : WF_vars(Step(p)) /\ SF_vars(Acquire(p))
            /\ \A f \in Flow :
                 SF_vars(\E p \in Proc, s \in Slug : Reserved(f) /\ Promote(p, f, s))
-----------------------------------------------------------------------------
(* Two flows never reserve one slug, of one session or of two, whoever       *)
(* crashed where: each would take the other's change for its own.            *)
SlugOwnedOnce == \A f, g \in Flow :
  Reserved(f) /\ reservation[f].slug = reservation[g].slug => f = g

(* However many crashes and retries it took, a promoted flow left its origin, *)
(* a proposal that names it, and the tasks and design to go on with.         *)
PromotedIsWhole == \A f \in promotion :
  /\ originOf[reservation[f].slug] = f
  /\ {"proposal", "summary", "tasks", "design"} \subseteq files[reservation[f].slug]

(* A retried promotion ends and reaches the session note, unless someone     *)
(* else wrote into its directory.                                            *)
Obstructed(f) == \E s \in Slug : /\ reservation[f].slug = s
                                 /\ \/ files[s] \ Expected # {}
                                    \/ originOf[s] = None /\ files[s] # {}

PromotionEnds == \A f \in Flow :
  Reserved(f) ~> f \in promotion \intersect notes \/ Obstructed(f)

(* tests/flow-promotion.test.mjs: a promotion never takes a change that was   *)
(* there before without the same FLOW origin.                                *)
PreexistingNeverTaken ==
  [][\A s \in Slug : originOf[s] = None /\ originOf'[s] # None => files[s] = {}]_vars

(* The same tests: a retry resumes a partial scaffold.  What a retry leaves  *)
(* is what newChange makes in one go.                                        *)
ScaffoldIsWhole == \A f \in promotion :
  {"impact", "baseline"} \subseteq files[reservation[f].slug]
=============================================================================
