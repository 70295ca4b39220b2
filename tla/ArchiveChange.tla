--------------------------- MODULE ArchiveChange ---------------------------
(* `change archive` and `change archive recover` (src/change.mjs): a change   *)
(* directory is isolated, copied, published, and its deltas are promoted into *)
(* the living specs, one file after another, by claims and hard links. Each   *)
(* step is durable; a command may die between any two, and editors write the  *)
(* same files without any lock.                                               *)
EXTENDS ArchiveLock, FiniteSets, SequencesExt

CONSTANTS Change, Capability, Edit,
          Deltas,        \* the capabilities each change touches, in plan order
          NewCapability, \* those with no living spec yet
          Savable,       \* the living specs people save, against the rules
          Absent,        \* no file
          Linked,        \* a hard link to the target
          MaxEvents,     \* bound: commands run, and what people do to open changes
          MaxDeaths      \* bound: commands killed

ASSUME ArchiveAssumption ==
  /\ Deltas \in [Change -> Seq(Capability)] /\ NewCapability \subseteq Capability /\ Savable \subseteq Capability
  /\ MaxEvents \in Nat /\ MaxDeaths \in Nat
  /\ "state" \notin Capability /\ \A content \in SUBSET (Change \union Edit) : content # Absent
  /\ Absent \notin [rev : Nat, base : [Capability -> (SUBSET (Change \union Edit)) \union {Absent}]]

VARIABLES
  at,        \* the copies of each change's directory, by place
  journal,   \* archive-transaction.json
  live,      \* the living specs, and SPECS_STATE.json under State
  claim,     \* the generation a promotion has moved aside, by change and file
  candidate, \* the file a promotion is about to link, likewise
  retained,  \* the edits in generations moved aside later
  job,       \* what each command is doing
  clash,     \* do the changes modify the same requirement
  authored,  \* the directories people have written and not replaced themselves
  unsettled, \* the changes with a promotion begun and not brought to an end
  withdrawn, \* the changes whose rollback was asked for
  edits, events

trees == <<at, authored>>
specs == <<live, claim, candidate, retained>>
ghosts == <<unsettled, withdrawn>>
counts == <<edits, events>>
vars == <<lockVars, trees, journal, specs, job, clash, ghosts, counts>>

(* A spec is the set of the deltas and the edits it holds; the state records  *)
(* each capability's.                                                         *)
State == "state"
File == Capability \union {State}
Place == {"open", "original", "authorized", "archive", "abandoned"}
Entries(s) == Append(Deltas[s], State)

Tree(rev, base) == [rev |-> rev, base |-> base]
NoPlan == <<>>
NoJournal == [phase |-> "none", digest |-> FALSE, plan |-> NoPlan, specs |-> "none"]
NoJob == [slug |-> Absent, mode |-> "none", i |-> 0, auth |-> Absent, plan |-> NoPlan]

Specs == [c \in Capability |-> live[c]]

Init ==
  LET first == [c \in Capability |-> IF c \in NewCapability THEN Absent ELSE {}]
  IN  /\ lock = NoLock /\ run = [c \in Command |-> 0]
      /\ pc = [c \in Command |-> "idle"] /\ seen = [c \in Command |-> NoLock]
      /\ at = [s \in Change |-> [p \in Place |-> IF p = "open" THEN Tree(0, first) ELSE Absent]]
      /\ authored = [s \in Change |-> {Tree(0, first)}]
      /\ journal = [s \in Change |-> NoJournal]
      /\ live = [f \in File |-> IF f = State THEN first ELSE first[f]]
      /\ claim = [s \in Change |-> [f \in File |-> Absent]]
      /\ candidate = [s \in Change |-> [f \in File |-> Absent]]
      /\ retained = {} /\ job = [c \in Command |-> NoJob]
      /\ clash \in BOOLEAN
      /\ unsettled = {} /\ withdrawn = {}
      /\ edits = {} /\ events = 0
-----------------------------------------------------------------------------
Note(s, phase, digest, plan, promotion) ==
  journal' = [journal EXCEPT ![s] = [phase |-> phase, digest |-> digest,
                                     plan |-> plan, specs |-> promotion]]
Move(s, from, to) == at' = [at EXCEPT ![s][to] = at[s][from], ![s][from] = Absent]

(* The command starts; it takes the lock first. A recovery is asked for with  *)
(* the id of a transaction.                                                  *)
Start(c, s, mode) ==
  /\ pc[c] = "idle" /\ events < MaxEvents
  /\ mode # "archive" => journal[s].phase # "none"
  /\ events' = events + 1
  /\ job' = [job EXCEPT ![c] = [NoJob EXCEPT !.slug = s, !.mode = mode]]
  /\ Goto(c, "lock")
  /\ UNCHANGED <<lock, run, seen, trees, journal, specs, clash, ghosts, edits>>

TakeLock(c) == /\ Locking(c)
               /\ job' = IF pc'[c] = "idle" THEN [job EXCEPT ![c] = NoJob] ELSE job
               /\ UNCHANGED <<trees, journal, specs, clash, ghosts, counts>>

At(c, place) == pc[c] = place /\ UNCHANGED <<lock, run, seen, clash, counts>>
Archiving(c) == job[c].mode = "archive"

(* pendingArchiveRecovery: a journal of the change that is not completed, or  *)
(* any transaction directory without one.                                     *)
Pending(s) == \/ journal[s].phase \notin {"none", "completed"}
              \/ \E o \in Change : journal[o].phase = "bare"

(* The checks of archiveChangeMutation up to the recaptured digest.          *)
Begin(c) ==
  LET s == job[c].slug
  IN  /\ At(c, "begin") /\ Archiving(c)
      /\ IF Pending(s) \/ at[s]["archive"] # Absent \/ at[s]["open"] = Absent
         THEN Goto(c, "unlock") /\ UNCHANGED job
         ELSE Goto(c, "mkdir") /\ job' = [job EXCEPT ![c].auth = at[s]["open"]]
      /\ UNCHANGED <<trees, journal, specs, ghosts>>

(* The transaction's directory, then its manifest.                           *)
Mkdir(c) == /\ At(c, "mkdir") /\ Note(job[c].slug, "bare", FALSE, NoPlan, "none")
            /\ Goto(c, "prepare")
            /\ UNCHANGED <<trees, specs, job, ghosts>>

Prepare(c) == /\ At(c, "prepare") /\ Note(job[c].slug, "prepared", FALSE, NoPlan, "none")
              /\ Goto(c, "isolate")
              /\ UNCHANGED <<trees, specs, job, ghosts>>

Isolate(c) ==
  LET s == job[c].slug
  IN  /\ At(c, "isolate")
      /\ IF at[s]["open"] = Absent THEN Goto(c, "unseal") /\ UNCHANGED at
         ELSE Goto(c, "copy") /\ Move(s, "open", "original")
      /\ UNCHANGED <<authored, journal, specs, job, ghosts>>

(* The digest of the isolated directory, the phase isolated, and the copy     *)
(* that will be published.                                                    *)
Copy(c) ==
  LET s == job[c].slug
  IN  /\ At(c, "copy")
      /\ IF at[s]["original"] # job[c].auth
         THEN Goto(c, "unseal") /\ UNCHANGED <<at, journal>>
         ELSE /\ at' = [at EXCEPT ![s]["authorized"] = at[s]["original"]]
              /\ Note(s, "copied", FALSE, NoPlan, "none") /\ Goto(c, "plan")
      /\ UNCHANGED <<authored, specs, job, ghosts>>

(* buildSpecPromotionPlan: the recorded state and the baseline are compared   *)
(* with the living specs and the new contents derived from them; then the     *)
(* contents to replace are read again. A state that is missing blocks nothing *)
(* and is made anew from the living specs.                                    *)
Unmanaged(s) == live[State] # Absent /\ \E c \in Range(Deltas[s]) : live[State][c] # live[c]
Conflict(s, base) == /\ clash
                     /\ \E c \in Range(Deltas[s]) :
                          live[c] # Absent /\ \E o \in Change \ {s} :
                            o \in live[c] /\ (base[c] = Absent \/ o \notin base[c])

With(content, s) == (IF content = Absent THEN {} ELSE content) \union {s}
(* Mutant: the new state is the recorded one.                                *)
AfterStale(s) == [f \in File |-> IF f = State THEN live[State]
                                ELSE IF f \in Range(Deltas[s]) THEN With(live[f], s) ELSE live[f]]

After(s) == LET new == [c \in Capability |-> IF c \in Range(Deltas[s]) THEN With(live[c], s)
                                            ELSE IF live[State] = Absent THEN live[c]
                                            ELSE live[State][c]]
            IN  [f \in File |-> IF f = State THEN new ELSE new[f]]

Plan(c) ==
  LET s == job[c].slug
  IN  /\ At(c, "plan")
      /\ IF Unmanaged(s) \/ Conflict(s, at[s]["authorized"].base)
         THEN Goto(c, "unseal") /\ UNCHANGED job
         ELSE /\ job' = [job EXCEPT ![c].plan = [after |-> After(s)]]
              /\ Goto(c, "seal")
      /\ UNCHANGED <<trees, journal, specs, ghosts>>

Seal(c) == /\ At(c, "seal")
           /\ job' = [job EXCEPT ![c].plan = [after |-> @.after, before |-> live]]
           /\ Note(job[c].slug, "sealed", FALSE, NoPlan, "none")
           /\ Goto(c, "publish")
           /\ UNCHANGED <<trees, specs, ghosts>>

Publish(c) == /\ At(c, "publish") /\ Move(job[c].slug, "authorized", "archive")
              /\ Goto(c, "published")
              /\ UNCHANGED <<authored, journal, specs, job, ghosts>>

(* A failure after publication: the manifest is written anew, with what the   *)
(* failing step passes on, and the archive and the original stay.             *)
Failed(c, plan, promotion) == /\ Note(job[c].slug, "recovery-required", FALSE, plan, promotion)
                              /\ Goto(c, "unlock")

Published(c) ==
  /\ At(c, "published")
  /\ IF at[job[c].slug]["open"] # Absent THEN Failed(c, NoPlan, "none")
     ELSE Note(job[c].slug, "published", TRUE, NoPlan, "none") /\ Goto(c, "promote")
  /\ UNCHANGED <<trees, specs, job, ghosts>>

Promote(c) ==
  LET s == job[c].slug
  IN  /\ At(c, "promote")
      /\ IF Deltas[s] = <<>> THEN Goto(c, "finish") /\ UNCHANGED <<journal, job, unsettled>>
         ELSE /\ Note(s, "promotion-prepared", TRUE, job[c].plan, "prepared")
              /\ job' = [job EXCEPT ![c].mode = "promote", ![c].i = 1]
              /\ unsettled' = unsettled \union {s}
              /\ Goto(c, "entry")
      /\ UNCHANGED <<trees, specs, withdrawn>>
-----------------------------------------------------------------------------
(* Mutant: the original comes back over whatever is there.                   *)
UnsealOver(c) ==
  LET s == job[c].slug
  IN  /\ At(c, "unseal")
      /\ at' = [at EXCEPT ![s]["authorized"] = Absent, ![s]["original"] = Absent,
                          ![s]["open"] = IF at[s]["original"] = Absent THEN @ ELSE at[s]["original"]]
      /\ Goto(c, "erase")
      /\ UNCHANGED <<authored, journal, specs, job, ghosts>>

(* rollbackSeal: the copy goes, the original comes back unless its place is   *)
(* taken, and the transaction is removed, the manifest before its directory.  *)
Unseal(c) ==
  LET s == job[c].slug
  IN  /\ At(c, "unseal")
      /\ IF at[s]["original"] # Absent /\ at[s]["open"] # Absent
         THEN /\ at' = [at EXCEPT ![s]["authorized"] = Absent]
              /\ Note(s, "recovery-required", FALSE, NoPlan, "none") /\ Goto(c, "unlock")
         ELSE /\ at' = [at EXCEPT ![s]["authorized"] = Absent,
                                  ![s]["open"] = IF at[s]["original"] # Absent
                                                 THEN at[s]["original"] ELSE @,
                                  ![s]["original"] = Absent]
              /\ Goto(c, "erase") /\ UNCHANGED journal
      /\ UNCHANGED <<authored, specs, job, ghosts>>

Erase(c) == /\ At(c, "erase") /\ Note(job[c].slug, "bare", FALSE, NoPlan, "none")
            /\ Goto(c, "erased")
            /\ UNCHANGED <<trees, specs, job, ghosts>>

Erased(c) == /\ At(c, "erased") /\ journal' = [journal EXCEPT ![job[c].slug] = NoJournal]
             /\ Goto(c, "unlock")
             /\ UNCHANGED <<trees, specs, job, ghosts>>
-----------------------------------------------------------------------------
(* validateArchiveSpecPromotionPlan: the archive is the journal's, and each   *)
(* spec to replace is the whole file the change was opened against. What the  *)
(* code checks of the after-images and the README besides only refuses more.  *)
Recoverable(s) ==
  /\ journal[s].plan # NoPlan /\ journal[s].digest
  /\ \A c \in Range(Deltas[s]) : journal[s].plan.before[c] = at[s]["archive"].base[c]

(* recoverArchiveSpecPromotionUnderLock.                                     *)
Recover(c) ==
  LET s == job[c].slug
  IN  /\ At(c, "begin") /\ ~Archiving(c)
      /\ IF Recoverable(s)
         THEN /\ job' = [job EXCEPT ![c].plan = journal[s].plan, ![c].i = 1]
              /\ unsettled' = unsettled \union {s}
              /\ withdrawn' = IF job[c].mode = "rollback" THEN withdrawn \union {s} ELSE withdrawn
              /\ Goto(c, "entry")
         ELSE Goto(c, "unlock") /\ UNCHANGED <<job, ghosts>>
      /\ UNCHANGED <<trees, journal, specs>>
-----------------------------------------------------------------------------
(* applySpecPromotionPlan, one file at a time: promote and resume put the     *)
(* after-images in plan order; undo, which follows a failed promote, and      *)
(* rollback the before-images in reverse.                                     *)
Forward(c) == job[c].mode \in {"promote", "resume"}
Here(c) == LET e == Entries(job[c].slug)
           IN  (IF Forward(c) THEN e ELSE Reverse(e))[job[c].i]
Image(c, when) == job[c].plan[when][Here(c)]
Wanted(c) == Image(c, IF Forward(c) THEN "after" ELSE "before")
(* Mutant: any content is taken for one of the images.                       *)
AnyKnown(c, content) == content # Absent
Known(c, content) == content \in {Image(c, "before"), Image(c, "after")}

Claim(c) == claim[job[c].slug][Here(c)]
Candidate(c) == candidate[job[c].slug][Here(c)]
SetLive(c, content) == live' = [live EXCEPT ![Here(c)] = content]
SetClaim(c, content) == claim' = [claim EXCEPT ![job[c].slug][Here(c)] = content]
SetCandidate(c, content) == candidate' = [candidate EXCEPT ![job[c].slug][Here(c)] = content]

EditsOf(c, content) == IF Here(c) = State \/ content = Absent THEN {} ELSE content \cap Edit

Done(c) ==
  LET s == job[c].slug
  IN  CASE job[c].mode = "promote" ->
             /\ Note(s, "promotion-applied", TRUE, job[c].plan, "applied")
             /\ unsettled' = unsettled \ {s} /\ Goto(c, "finish") /\ UNCHANGED job
        [] job[c].mode = "undo" ->
             /\ Failed(c, job[c].plan, "rolled-back")
             /\ unsettled' = unsettled \ {s} /\ UNCHANGED job
        [] OTHER ->
             /\ Note(s, "recovery-required", journal[s].digest, job[c].plan,
                     IF Forward(c) THEN "resumed" ELSE "rolled-back")
             /\ unsettled' = unsettled \ {s} /\ Goto(c, "unlock") /\ UNCHANGED job

NextEntry(c) ==
  IF job[c].i < Len(Entries(job[c].slug))
  THEN /\ job' = [job EXCEPT ![c].i = @ + 1] /\ Goto(c, "entry")
       /\ UNCHANGED <<journal, unsettled>>
  ELSE Done(c)

(* Mutant: a promotion that fails is reported as rolled back.                *)
BreakOff(c) ==
  IF job[c].mode = "promote"
  THEN Failed(c, job[c].plan, "rolled-back") /\ unsettled' = unsettled \ {job[c].slug} /\ UNCHANGED job
  ELSE /\ Goto(c, "unlock") /\ UNCHANGED <<job, unsettled>>
       /\ IF job[c].mode = "undo" THEN Failed(c, job[c].plan, "recovery-required")
          ELSE UNCHANGED journal

Break(c) ==
  /\ CASE job[c].mode = "promote" -> /\ job' = [job EXCEPT ![c].mode = "undo", ![c].i = 1]
                                     /\ Goto(c, "entry") /\ UNCHANGED journal
       [] job[c].mode = "undo" -> Failed(c, job[c].plan, "recovery-required") /\ UNCHANGED job
       [] OTHER -> Goto(c, "unlock") /\ UNCHANGED <<job, journal>>
  /\ UNCHANGED unsettled

(* What an earlier attempt left is looked at; then the target is moved aside, *)
(* or written at once where there is none.                                    *)
Entry(c) ==
  LET now == live[Here(c)]
      kept == Claim(c)
  IN  /\ At(c, "entry")
      /\ candidate' = IF Candidate(c) = Linked /\ now # Absent
                      THEN [candidate EXCEPT ![job[c].slug][Here(c)] = Absent] ELSE candidate
      /\ IF \/ Candidate(c) \notin {Absent, Linked} /\ now # Absent
            \/ kept # Absent /\ ~Known(c, kept)
            \/ ~Known(c, now) /\ (kept # Absent => now # Absent)
         THEN Break(c)
         ELSE IF kept # Absent /\ now = Wanted(c) THEN NextEntry(c)
         ELSE /\ Goto(c, IF now = Absent THEN "candidate"
                         ELSE IF kept # Absent THEN "retain" ELSE "claim")
              /\ UNCHANGED <<job, journal, unsettled>>
      /\ UNCHANGED <<trees, live, claim, retained, withdrawn>>

(* renameSync of the target. A candidate another change left linked to it     *)
(* stays a link to the file moved.                                            *)
MovedAside(c) == candidate' = [s \in Change |-> [f \in File |->
                   IF f = Here(c) /\ candidate[s][f] = Linked THEN live[f] ELSE candidate[s][f]]]

ClaimTarget(c) == /\ At(c, "claim") /\ SetClaim(c, live[Here(c)]) /\ SetLive(c, Absent)
                  /\ MovedAside(c) /\ Goto(c, "recheck")
                  /\ UNCHANGED <<trees, retained, job, journal, ghosts>>

RetainTarget(c) == /\ At(c, "retain") /\ SetLive(c, Absent)
                   /\ retained' = retained \union EditsOf(c, live[Here(c)])
                   /\ MovedAside(c) /\ Goto(c, "candidate")
                   /\ UNCHANGED <<trees, claim, job, journal, ghosts>>

(* Was it an editor's file that was claimed? Then it is put back.            *)
Recheck(c) ==
  /\ At(c, "recheck")
  /\ IF Known(c, Claim(c)) THEN Goto(c, "candidate") /\ UNCHANGED <<job, journal, unsettled>>
     ELSE IF live[Here(c)] = Absent THEN Goto(c, "restore") /\ UNCHANGED <<job, journal, unsettled>>
     ELSE Break(c)
  /\ UNCHANGED <<trees, specs, withdrawn>>

Restore(c) == /\ At(c, "restore") /\ SetLive(c, Claim(c)) /\ SetClaim(c, Absent)
              /\ Break(c)
              /\ UNCHANGED <<trees, candidate, retained, withdrawn>>

WriteCandidate(c) ==
  /\ At(c, "candidate")
  /\ IF Wanted(c) = Absent
     THEN Goto(c, "verify") /\ UNCHANGED <<candidate, job, journal, unsettled>>
     ELSE IF Candidate(c) \notin {Absent, Wanted(c)} THEN Break(c) /\ UNCHANGED candidate
     ELSE /\ SetCandidate(c, Wanted(c)) /\ Goto(c, "link")
          /\ UNCHANGED <<job, journal, unsettled>>
  /\ UNCHANGED <<trees, live, claim, retained, withdrawn>>

(* Mutant: the candidate is renamed over whatever is there.                  *)
LinkOver(c) == /\ At(c, "link") /\ SetLive(c, Wanted(c)) /\ SetCandidate(c, Linked)
               /\ Goto(c, "verify")
               /\ UNCHANGED <<trees, claim, retained, job, journal, ghosts>>

(* linkSync fails when someone has recreated the target.                     *)
Link(c) ==
  /\ At(c, "link")
  /\ IF live[Here(c)] # Absent THEN Break(c) /\ UNCHANGED <<live, candidate>>
     ELSE /\ SetLive(c, Wanted(c)) /\ SetCandidate(c, Linked)
          /\ Goto(c, "verify") /\ UNCHANGED <<job, journal, unsettled>>
  /\ UNCHANGED <<trees, claim, retained, withdrawn>>

Verify(c) ==
  /\ At(c, "verify")
  /\ candidate' = IF Wanted(c) = Absent THEN candidate
                  ELSE [candidate EXCEPT ![job[c].slug][Here(c)] = Absent]
  /\ IF live[Here(c)] # Wanted(c) \/ (Claim(c) # Absent /\ ~Known(c, Claim(c)))
     THEN Break(c) ELSE NextEntry(c)
  /\ UNCHANGED <<trees, live, claim, retained, withdrawn>>

Promotion(c) == \/ Entry(c) \/ ClaimTarget(c) \/ RetainTarget(c) \/ Recheck(c)
                \/ Restore(c) \/ WriteCandidate(c) \/ Link(c) \/ Verify(c)
-----------------------------------------------------------------------------
(* The proposal's status, the links, the ADR and the pointer: the archive's   *)
(* digest is no longer the journal's until the journal is completed.          *)
Finish(c) == /\ At(c, "finish") /\ journal' = [journal EXCEPT ![job[c].slug].digest = FALSE]
             /\ Goto(c, "complete")
             /\ UNCHANGED <<trees, specs, job, ghosts>>

Complete(c) ==
  LET s == job[c].slug
  IN  /\ At(c, "complete")
      /\ IF at[s]["open"] # Absent THEN Failed(c, NoPlan, "none")
         ELSE /\ Note(s, "completed", TRUE, job[c].plan, journal[s].specs)
              /\ Goto(c, "final")
      /\ UNCHANGED <<trees, specs, job, ghosts>>

FinalCheck(c) == /\ At(c, "final")
                 /\ IF at[job[c].slug]["open"] # Absent THEN Failed(c, NoPlan, "none")
                    ELSE Goto(c, "unlock") /\ UNCHANGED journal
                 /\ UNCHANGED <<trees, specs, job, ghosts>>

Archive(c) == \/ Begin(c) \/ Mkdir(c) \/ Prepare(c) \/ Isolate(c) \/ Copy(c)
              \/ Plan(c) \/ Seal(c) \/ Publish(c) \/ Published(c) \/ Promote(c)
              \/ Unseal(c) \/ Erase(c) \/ Erased(c)
              \/ Finish(c) \/ Complete(c) \/ FinalCheck(c)
-----------------------------------------------------------------------------
(* The process is killed: the files stay as they are.                        *)
Deaths == FoldFunction(+, 0, run)
Die(c) == /\ pc[c] # "idle" /\ Deaths < MaxDeaths
          /\ run' = [run EXCEPT ![c] = @ + 1] /\ Goto(c, "idle")
          /\ seen' = [seen EXCEPT ![c] = NoLock] /\ job' = [job EXCEPT ![c] = NoJob]
          /\ UNCHANGED <<lock, trees, journal, specs, clash, ghosts, counts>>

(* A person saves a spec: by its name, or through a handle opened before the  *)
(* file was claimed.                                                          *)
SaveSpec(e, k) ==
  /\ e \notin edits /\ edits' = edits \union {e}
  /\ \/ live' = [live EXCEPT ![k] = With(@, e)] /\ UNCHANGED claim
     \/ \E s \in Change : /\ claim[s][k] # Absent
                          /\ claim' = [claim EXCEPT ![s][k] = With(@, e)] /\ UNCHANGED live
  /\ UNCHANGED <<lockVars, trees, journal, candidate, retained, job, clash, ghosts, events>>

Touch == events < MaxEvents /\ events' = events + 1
         /\ UNCHANGED <<lockVars, journal, specs, job, clash, ghosts, edits>>

(* A person edits the open change, `spec rebase --accept-current`, `change    *)
(* new` with the name of a change that is gone, `change abandon`.             *)
Author(s, tree, old) == /\ at' = [at EXCEPT ![s]["open"] = tree]
                        /\ authored' = [authored EXCEPT ![s] = (@ \ old) \union {tree}]
EditChange(s) == /\ Touch /\ at[s]["open"] # Absent
                 /\ Author(s, [at[s]["open"] EXCEPT !.rev = events'], {at[s]["open"]})
Rebase(s) == /\ Touch /\ at[s]["open"] # Absent
             /\ Author(s, Tree(events', Specs), {at[s]["open"]})
Reopen(s) == /\ Touch /\ at[s]["open"] = Absent
             /\ Author(s, Tree(events', Specs), {})
Abandon(s) == /\ Touch /\ at[s]["open"] # Absent /\ at[s]["abandoned"] = Absent
              /\ Move(s, "open", "abandoned") /\ UNCHANGED authored

Outside == \/ \E e \in Edit, k \in Savable : SaveSpec(e, k)
           \/ \E s \in Change : EditChange(s) \/ Rebase(s) \/ Reopen(s) \/ Abandon(s)

Step(c) == \/ \E s \in Change, mode \in {"archive", "resume", "rollback"} : Start(c, s, mode)
           \/ TakeLock(c) \/ Archive(c) \/ Recover(c) \/ Promotion(c) \/ Die(c)

Next == Outside \/ \E c \in Command : Step(c)
Spec == Init /\ [][Next]_vars
-----------------------------------------------------------------------------
Content == (SUBSET (Change \union Edit)) \union {Absent}
Stateful == [Capability -> Content] \union {Absent}
Spot == [File -> Content \union Stateful]
IsFile(f, content) == content \in IF f = State THEN Stateful ELSE Content
TreeType == [rev : 0..MaxEvents, base : [Capability -> Content]]
Working == {"begin", "mkdir", "prepare", "isolate", "copy", "plan", "seal", "publish",
            "published", "promote", "unseal", "erase", "erased", "entry", "claim", "retain",
            "recheck", "restore", "candidate", "link", "verify", "finish", "complete",
            "final", "unlock"}

(* The values of the state; every file holds what such a file can hold, and a *)
(* candidate is linked only to a target that is there.                       *)
TypeOK ==
  /\ lock \in {NoLock, Vacant} \union (Command \X (0..MaxDeaths))
  /\ pc \in [Command -> Working \union {"idle", "lock", "reap", "prune", "leave"}]
  /\ \A s \in Change :
       /\ \A p \in Place : at[s][p] # Absent => at[s][p] \in TreeType
       /\ journal[s].phase \in {"none", "bare", "prepared", "copied", "sealed", "published",
             "promotion-prepared", "promotion-applied", "completed", "recovery-required"}
       /\ \A f \in File : IsFile(f, claim[s][f]) /\ IF candidate[s][f] = Linked THEN live[f] # Absent
                                                       ELSE IsFile(f, candidate[s][f])
  /\ \A f \in File : IsFile(f, live[f])
  /\ retained \subseteq edits /\ edits \subseteq Edit

(* No two commands are between taking the lock and releasing it, though a     *)
(* dead owner's directory is emptied and replaced by any of them.            *)
OneArchiver == \A c, d \in Command : pc[c] \in Working /\ pc[d] \in Working => c = d

(* What a person saved into a living spec is never destroyed by a promotion,  *)
(* a rollback or a recovery that meets it: it is in the spec, or in a         *)
(* generation that was kept. But for one instant: a file that was claimed     *)
(* with a person's edit in it goes back by a rename that checked before that  *)
(* its place is free (:756), over what another person saved there since.      *)
Kept(e) == \/ e \in retained
           \/ \E k \in Capability :
                \/ live[k] # Absent /\ e \in live[k]
                \/ \E s \in Change : claim[s][k] # Absent /\ e \in claim[s][k]
Overtaken(c, e) == /\ pc[c] = "restore" /\ Here(c) \in Capability
                   /\ live[Here(c)] # Absent /\ e \in live[Here(c)]
                   /\ Claim(c) \cap Edit # {} /\ live' = [live EXCEPT ![Here(c)] = Claim(c)]
EditsKept == [][\A e \in edits' : (e \in edits => Kept(e)) =>
                  Kept(e)' \/ \E c \in Command : Overtaken(c, e)]_vars

(* Every change directory a person wrote, and did not replace, exists: still  *)
(* open, abandoned, archived, or as the original of a transaction.           *)
ChangeKept == \A s \in Change : \A t \in authored[s] :
                \E p \in Place \ {"authorized"} : at[s][p] = t

Edited(k) == live[k] # Absent /\ live[k] \cap Edit # {}
Holds(k, s) == live[k] # Absent /\ s \in live[k]

(* A promotion that was brought to an end is whole: applied or resumed, every *)
(* spec nobody has since saved over and the recorded state have the deltas of *)
(* the change; rolled back, or never begun, none has.                        *)
AllOrNone ==
  \A s \in Change \ unsettled : \A k \in Range(Deltas[s]) :
    IF journal[s].specs \in {"applied", "resumed"}
    THEN Edited(k) \/ live[k] = Absent \/ Holds(k, s)
    ELSE ~(journal[s].phase = "recovery-required" /\ journal[s].specs = "none") => ~Holds(k, s)

(* What a completed archive promoted is in the spec until its own rollback is *)
(* asked for: no other change's promotion, rollback or recovery takes it out. *)
PromotedStays == \A s \in Change \ withdrawn : journal[s].phase = "completed" =>
                   \A k \in Range(Deltas[s]) : Holds(k, s) \/ Edited(k) \/ live[k] = Absent

(* With nobody at work and every promotion settled, the recorded state is     *)
(* that of the specs, but for what people saved.                             *)
StateIsTrue == (unsettled = {} /\ \A c \in Command : pc[c] \notin Working) =>
                 /\ live[State] # Absent
                 /\ \A k \in Capability : Edited(k) \/ live[State][k] = live[k]

(* What the docs say of archive recover (docs/en/commands/                    *)
(* changes-and-verification.md:137-143): a promotion that is half done, some  *)
(* spec with the deltas of the change and some without, with nobody at work,  *)
(* can be rolled back or resumed.                                            *)
Half(s) == \E k, l \in Range(Deltas[s]) : Holds(k, s) /\ live[l] # Absent /\ ~Holds(l, s)
HalfIsRecoverable == \A s \in Change : Half(s) /\ (\A c \in Command : pc[c] \notin Working)
                                       => Recoverable(s)
=============================================================================
