------------------------ MODULE ArchiveChangeProofs ------------------------
(* For any number of commands, deaths and changes: at most one command is     *)
(* between taking the archive lock and releasing it, although any command     *)
(* may empty and replace the directory of a dead owner.                       *)
EXTENDS ArchiveChange, TLAPS

Marker == Command \X Nat

(* A command at work owns the marker in the directory, under the token of its *)
(* present life.                                                             *)
Owned == \A c \in Command : pc[c] \in Working => lock = Token(c)

(* What a command is about to unlink belongs to a life that is over: it can   *)
(* not become the marker of a command at work.                               *)
SeenIsDead == \A c \in Command :
                pc[c] = "reap" => seen[c] \in Marker /\ seen[c][2] < run[seen[c][1]]

Anywhere == Working \union {"idle", "lock", "reap", "prune", "leave"}

LockType == /\ lock \in {NoLock, Vacant} \union Marker
            /\ lock \in Marker => lock[2] <= run[lock[1]]
            /\ run \in [Command -> Nat]
            /\ pc \in [Command -> Anywhere]
            /\ seen \in [Command -> {NoLock} \union Marker]

LockInv == LockType /\ Owned /\ SeenIsDead

(* A step of the work itself: the lock is left alone and the command goes on  *)
(* to another place of its work.                                             *)
Works(c) == /\ pc[c] \in Working
            /\ UNCHANGED <<lock, run, seen>>
            /\ \E place \in Working : Goto(c, place)
-----------------------------------------------------------------------------
LEMMA BreakWorks ==
  ASSUME NEW c, Break(c)
  PROVE  \E place \in Working : Goto(c, place)
BY DEF Break, Failed, Working, Goto

LEMMA NextEntryWorks ==
  ASSUME NEW c, NextEntry(c)
  PROVE  \E place \in Working : Goto(c, place)
BY DEF NextEntry, Done, Failed, Working, Goto

LEMMA PromotionWorks ==
  ASSUME NEW c, Promotion(c)
  PROVE  Works(c)
<1>1. CASE Entry(c)
  BY <1>1, BreakWorks, NextEntryWorks DEF Entry, At, Works, Working, Goto
<1>2. CASE ClaimTarget(c)
  BY <1>2 DEF ClaimTarget, At, Works, Working, Goto
<1>3. CASE RetainTarget(c)
  BY <1>3 DEF RetainTarget, At, Works, Working, Goto
<1>4. CASE Recheck(c)
  BY <1>4, BreakWorks DEF Recheck, At, Works, Working, Goto
<1>5. CASE Restore(c)
  BY <1>5, BreakWorks DEF Restore, At, Works, Working, Goto
<1>6. CASE WriteCandidate(c)
  BY <1>6, BreakWorks DEF WriteCandidate, At, Works, Working, Goto
<1>7. CASE Link(c)
  BY <1>7, BreakWorks DEF Link, At, Works, Working, Goto
<1>8. CASE Verify(c)
  BY <1>8, BreakWorks, NextEntryWorks DEF Verify, At, Works, Working, Goto
<1>9. QED
  BY <1>1, <1>2, <1>3, <1>4, <1>5, <1>6, <1>7, <1>8 DEF Promotion

LEMMA ArchiveWorks ==
  ASSUME NEW c, Archive(c) \/ Recover(c)
  PROVE  Works(c)
<1>1. CASE Begin(c) \/ Recover(c)
  BY <1>1 DEF Begin, Recover, At, Works, Working, Goto
<1>2. CASE Mkdir(c) \/ Prepare(c) \/ Seal(c) \/ Publish(c) \/ Erase(c) \/ Erased(c) \/ Finish(c)
  BY <1>2 DEF Mkdir, Prepare, Seal, Publish, Erase, Erased, Finish, At, Works, Working, Goto
<1>3. CASE Isolate(c) \/ Copy(c) \/ Plan(c) \/ Unseal(c)
  BY <1>3 DEF Isolate, Copy, Plan, Unseal, At, Works, Working, Goto
<1>4. CASE Published(c) \/ Complete(c) \/ FinalCheck(c)
  BY <1>4 DEF Published, Complete, FinalCheck, Failed, At, Works, Working, Goto
<1>5. CASE Promote(c)
  BY <1>5 DEF Promote, At, Works, Working, Goto
<1>6. QED
  BY <1>1, <1>2, <1>3, <1>4, <1>5 DEF Archive
-----------------------------------------------------------------------------
(* The marker of a living command is neither of the two empty topologies.    *)
LEMMA MarkerIsHeld ==
  ASSUME LockInv, NEW c \in Command
  PROVE  Token(c) \in Marker /\ Token(c) # NoLock /\ Token(c) # Vacant
BY CommandAssumption DEF LockInv, LockType, Token, Marker, NoLock, Vacant

LEMMA PlacesApart ==
  /\ Working \subseteq Anywhere /\ "begin" \in Working
  /\ {"idle", "lock", "reap", "prune", "leave"} \subseteq Anywhere \ Working
<1>1. "begin" \in Working
  BY DEF Working
<1>2. "idle" \notin Working /\ "lock" \notin Working /\ "reap" \notin Working
  BY DEF Working
<1>3. "prune" \notin Working /\ "leave" \notin Working
  BY DEF Working
<1>4. QED
  BY <1>1, <1>2, <1>3 DEF Anywhere

LEMMA LockInitial == Init => LockInv
BY PlacesApart, CommandAssumption DEF Init, LockInv, LockType, Owned, SeenIsDead, NoLock, Vacant, Marker

(* The work of the owner changes nothing the invariant speaks of.            *)
LEMMA WorkKeeps ==
  ASSUME LockInv, NEW c \in Command, Works(c)
  PROVE  LockInv'
<1>1. PICK place \in Working : Goto(c, place)
  BY DEF Works
<1>2. place \in Anywhere /\ place # "reap"
  BY PlacesApart
<1>3. LockType'
  BY <1>1, <1>2 DEF LockInv, LockType, Works, Goto
<1>4. Owned'
  BY <1>1 DEF LockInv, LockType, Owned, Works, Goto, Token
<1>5. SeenIsDead'
  BY <1>1, <1>2 DEF LockInv, LockType, SeenIsDead, Works, Goto
<1>6. QED
  BY <1>3, <1>4, <1>5 DEF LockInv

(* The steps of the lock itself.                                             *)
LEMMA LockingKeeps ==
  ASSUME LockInv, NEW c \in Command, Locking(c)
  PROVE  LockInv'
<1> USE DEF LockInv, Goto
<1>1. CASE PublishLock(c)
  <2>1. LockType'
    BY <1>1, MarkerIsHeld, PlacesApart DEF LockType, PublishLock, Marker, Token, Held
  <2>2. \A d \in Command : pc[d] \notin Working
    BY <1>1, MarkerIsHeld DEF Owned, PublishLock, Held
  <2>3. Owned'
    BY <1>1, <2>2 DEF LockType, Owned, PublishLock, Token
  <2>4. SeenIsDead'
    BY <1>1 DEF LockType, SeenIsDead, PublishLock
  <2>5. QED BY <2>1, <2>3, <2>4
<1>2. CASE Inspect(c)
  <2>1. LockType'
    BY <1>2, PlacesApart, CommandAssumption DEF LockType, Inspect, Held, NoLock, Vacant, Marker
  <2>2. Owned'
    BY <1>2, MarkerIsHeld, PlacesApart DEF LockType, Owned, Inspect, Token
  <2>3. SeenIsDead'
    BY <1>2, MarkerIsHeld DEF LockType, SeenIsDead, Inspect, Held, Alive, Marker
  <2>4. QED BY <2>1, <2>2, <2>3
<1>3. CASE Reap(c)
  <2>1. seen[c] \in Marker /\ seen[c][2] < run[seen[c][1]]
    BY <1>3 DEF SeenIsDead, Reap
  <2>2. \A d \in Command : pc[d] \in Working => lock # seen[c]
    BY <2>1 DEF LockType, Owned, Token, Marker
  <2>3. LockType'
    BY <1>3, PlacesApart, CommandAssumption DEF LockType, Reap, NoLock, Vacant, Marker
  <2>4. Owned'
    BY <1>3, <2>2, PlacesApart DEF LockType, Owned, Reap, Token
  <2>5. SeenIsDead'
    BY <1>3 DEF LockType, SeenIsDead, Reap
  <2>6. QED BY <2>3, <2>4, <2>5
<1>4. CASE Prune(c) \/ Leave(c)
  <2>1. LockType'
    BY <1>4, PlacesApart, CommandAssumption DEF LockType, Prune, Leave, NoLock, Vacant, Marker
  <2>2. Owned'
    BY <1>4, MarkerIsHeld, PlacesApart DEF LockType, Owned, Prune, Leave, Token
  <2>3. SeenIsDead'
    BY <1>4 DEF LockType, SeenIsDead, Prune, Leave
  <2>4. QED BY <2>1, <2>2, <2>3
<1>5. CASE Unlock(c)
  <2>1. LockType'
    BY <1>5, PlacesApart, CommandAssumption DEF LockType, Unlock, Vacant, Marker
  <2>2. \A d \in Command : pc[d] \in Working => d = c
    BY <1>5 DEF Owned, Unlock, Token
  <2>3. Owned'
    BY <1>5, <2>2, PlacesApart DEF LockType, Owned, Unlock
  <2>4. SeenIsDead'
    BY <1>5 DEF LockType, SeenIsDead, Unlock
  <2>5. QED BY <2>1, <2>3, <2>4
<1>6. QED
  BY <1>1, <1>2, <1>3, <1>4, <1>5 DEF Locking

(* A death begins another life: its marker is dead from then on.             *)
LEMMA DeathKeeps ==
  ASSUME LockInv, NEW c \in Command, Die(c)
  PROVE  LockInv'
<1> USE DEF LockInv, Goto
<1>1. /\ run' = [run EXCEPT ![c] = run[c] + 1]
      /\ pc' = [pc EXCEPT ![c] = "idle"]
      /\ seen' = [seen EXCEPT ![c] = NoLock]
      /\ lock' = lock
  BY DEF Die
<1>2. \A d \in Command : run'[d] \in Nat /\ run[d] <= run'[d]
  BY <1>1 DEF LockType
<1>3. LockType'
  BY <1>1, <1>2, PlacesApart DEF LockType, Marker
<1>4. Owned'
  BY <1>1, PlacesApart DEF LockType, Owned, Token
<1>5. SeenIsDead'
  BY <1>1, <1>2 DEF LockType, SeenIsDead, Marker
<1>6. QED BY <1>3, <1>4, <1>5

LEMMA LockUntouched ==
  ASSUME LockInv, UNCHANGED lockVars
  PROVE  LockInv'
BY DEF LockInv, LockType, Owned, SeenIsDead, lockVars, Token

LEMMA LockStep == LockInv /\ [Next]_vars => LockInv'
<1> SUFFICES ASSUME LockInv, [Next]_vars PROVE LockInv'
    OBVIOUS
<1>1. CASE Outside
  BY <1>1, LockUntouched DEF Outside, SaveSpec, EditChange, Rebase, Reopen, Abandon, Touch, lockVars
<1>2. ASSUME NEW c \in Command, NEW s, NEW mode, Start(c, s, mode) PROVE LockInv'
  BY <1>2, PlacesApart DEF Start, Goto, LockInv, LockType, Owned, SeenIsDead, Token
<1>3. ASSUME NEW c \in Command, TakeLock(c) PROVE LockInv'
  BY <1>3, LockingKeeps DEF TakeLock
<1>4. ASSUME NEW c \in Command, Archive(c) \/ Recover(c) PROVE LockInv'
  BY <1>4, ArchiveWorks, WorkKeeps
<1>5. ASSUME NEW c \in Command, Promotion(c) PROVE LockInv'
  BY <1>5, PromotionWorks, WorkKeeps
<1>6. ASSUME NEW c \in Command, Die(c) PROVE LockInv'
  BY <1>6, DeathKeeps
<1>7. CASE UNCHANGED vars
  BY <1>7, LockUntouched DEF vars
<1>8. QED
  BY <1>1, <1>2, <1>3, <1>4, <1>5, <1>6, <1>7 DEF Next, Step

(* No two archive or recover commands work at once, whoever dies where and    *)
(* whoever empties whose directory.                                          *)
THEOREM ArchivesExclude == Spec => []OneArchiver
<1>1. LockInv => OneArchiver
  BY DEF LockInv, LockType, Owned, OneArchiver, Token
<1>2. QED
  BY <1>1, LockInitial, LockStep, PTL DEF Spec
-----------------------------------------------------------------------------
(* The work: what the command at work knows of its change, of the journal and *)
(* of the file it is at. Only one is at work, so what it knows stays true but *)
(* for what people do.                                                       *)
TreeSet == [rev : Nat, base : [Capability -> Content]]
Images(plan) == \A f \in File : IsFile(f, plan.before[f]) /\ IsFile(f, plan.after[f])
Clear(s) == at[s]["original"] = Absent /\ at[s]["authorized"] = Absent /\ at[s]["archive"] = Absent

Outset == {"lock", "reap", "prune", "begin"}
Entered == {"entry", "claim", "retain", "recheck", "restore", "candidate", "link", "verify"}
Shown == {"published", "promote", "finish", "complete", "final"}

JobShape(j) == j = [slug |-> j.slug, mode |-> j.mode, i |-> j.i, auth |-> j.auth, plan |-> j.plan]
JournalShape(j) == j = [phase |-> j.phase, digest |-> j.digest, plan |-> j.plan, specs |-> j.specs]

(* Its change, its place in the plan, and the plan once there is one.        *)
Aim(c) ==
  /\ pc[c] # "idle" => job[c].slug \in Change
  /\ pc[c] \in Outset => job[c].mode # "promote"
  /\ pc[c] \in Entered => job[c].i \in 1..Len(Entries(job[c].slug))
  /\ pc[c] = "seal" => \A f \in File : IsFile(f, job[c].plan.after[f])
  /\ pc[c] \in Entered \union Shown \union {"publish"} => Images(job[c].plan)

(* What stands in the places of its change.                                  *)
Ground(c) ==
  LET s == job[c].slug
  IN  /\ pc[c] \in {"mkdir", "prepare", "isolate", "erase", "erased"} => Clear(s)
      /\ pc[c] = "isolate" => journal[s].phase \notin {"none", "bare"}
      /\ pc[c] \in {"mkdir", "prepare", "isolate", "copy"} => job[c].auth # Absent
      /\ pc[c] \in {"copy", "plan", "seal", "publish", "unseal"} => at[s]["archive"] = Absent
      /\ pc[c] \in {"plan", "seal", "publish"} => at[s]["authorized"] # Absent
      /\ pc[c] \in Shown => at[s]["archive"] # Absent
      /\ pc[c] \in Entered /\ job[c].mode = "promote" => at[s]["archive"] # Absent

(* What it claims has no claim before it, and is an image of its plan or was  *)
(* saved over one.                                                           *)
Saved(c, content) == Here(c) \in Capability /\ content # Absent /\ content \cap Edit # {}
Grip(c) ==
  /\ pc[c] = "claim" => Claim(c) = Absent /\ (Known(c, live[Here(c)]) \/ Saved(c, live[Here(c)]))
  /\ pc[c] = "recheck" => Known(c, Claim(c)) \/ Saved(c, Claim(c))
  /\ pc[c] = "restore" => Saved(c, Claim(c))

Duties == \A c \in Command : Aim(c) /\ Ground(c) /\ Grip(c)

JobsShaped == job = [c \in Command |-> job[c]] /\ \A c \in Command : JobShape(job[c])
JournalsShaped == journal = [s \in Change |-> journal[s]] /\ \A s \in Change : JournalShape(journal[s])
Shapes ==
  /\ JobsShaped /\ JournalsShaped
  /\ at = [s \in Change |-> [p \in Place |-> at[s][p]]]
  /\ authored = [s \in Change |-> authored[s]]
  /\ live = [f \in File |-> live[f]] /\ claim = [s \in Change |-> [f \in File |-> claim[s][f]]]

Files ==
  /\ \A f \in File : IsFile(f, live[f])
  /\ \A s \in Change : \A f \in File : IsFile(f, claim[s][f])
  /\ edits \subseteq Edit /\ events \in Nat

(* A transaction that has no directory yet, or none any more, has no trees;   *)
(* one that is completed has its archive, which forbids the next.             *)
Journals == \A s \in Change :
  /\ journal[s].plan # NoPlan => Images(journal[s].plan)
  /\ journal[s].phase \in {"none", "bare"} => Clear(s)
  /\ journal[s].phase = "completed" => at[s]["archive"] # Absent

Trees == \A s \in Change :
  /\ \A p \in Place : at[s][p] \in TreeSet \union {Absent}
  /\ authored[s] \subseteq TreeSet

Standing == Shapes /\ Files /\ Journals /\ Trees /\ ChangeKept
ArchiveInv == LockInv /\ Standing /\ Duties
-----------------------------------------------------------------------------
(* The files, what they hold, and the order of a plan.                       *)
LEMMA FilesApart ==
  /\ State \notin Capability /\ State \in File /\ \A k \in Capability : k \in File
  /\ \A f \in File : f \in Capability \/ f = State
BY ArchiveAssumption DEF File, State

LEMMA AbsentApart ==
  /\ \A content \in SUBSET (Change \union Edit) : content # Absent
  /\ Absent \notin TreeSet /\ \A f \in File : IsFile(f, Absent)
<1>1. Absent \notin TreeSet
  BY ONLY ArchiveAssumption DEF ArchiveAssumption, TreeSet, Content
<1>2. \A f \in File : IsFile(f, Absent)
  <2>1. Absent \in Content /\ Absent \in Stateful
    BY DEF Content, Stateful
  <2>2. QED
    BY <2>1 DEF IsFile
<1>3. QED
  BY <1>1, <1>2, ArchiveAssumption

LEMMA WithIsContent ==
  ASSUME NEW content \in Content, NEW s \in Change \union Edit
  PROVE  /\ With(content, s) \in Content /\ With(content, s) # Absent /\ s \in With(content, s)
         /\ content # Absent => content \subseteq With(content, s)
<1>1. With(content, s) \in SUBSET (Change \union Edit) /\ s \in With(content, s)
  <2>1. CASE content = Absent
    BY <2>1 DEF With
  <2>2. CASE content # Absent
    <3>1. content \in SUBSET (Change \union Edit)
      BY <2>2 DEF Content
    <3>2. QED
      BY <2>2, <3>1 DEF With
  <2>3. QED
    BY <2>1, <2>2
<1>2. content # Absent => content \subseteq With(content, s)
  BY DEF With
<1>3. With(content, s) # Absent
  BY <1>1, AbsentApart
<1>4. QED
  BY <1>1, <1>2, <1>3 DEF Content

LEMMA SpecsAreContents ==
  ASSUME Files
  PROVE  Specs \in [Capability -> Content]
BY FilesApart DEF Files, Specs, IsFile

LEMMA EntriesAreFiles ==
  ASSUME NEW s \in Change
  PROVE  /\ Len(Entries(s)) \in Nat /\ 1 \in 1..Len(Entries(s))
         /\ \A i \in 1..Len(Entries(s)) : Entries(s)[i] \in File /\ Reverse(Entries(s))[i] \in File
<1>1. Deltas[s] \in Seq(File)
  BY FilesApart, ArchiveAssumption
<1>2. Entries(s) \in Seq(File) /\ Len(Entries(s)) = Len(Deltas[s]) + 1 /\ Len(Deltas[s]) \in Nat
  BY <1>1, FilesApart DEF Entries
<1>3. Len(Entries(s)) \in Nat /\ 1 \in 1..Len(Entries(s))
  BY <1>2
<1>4. ASSUME NEW i \in 1..Len(Entries(s))
      PROVE  Entries(s)[i] \in File /\ Reverse(Entries(s))[i] \in File
  <2>1. (Len(Entries(s)) - i) + 1 \in 1..Len(Entries(s))
    BY <1>3
  <2>2. Reverse(Entries(s))[i] = Entries(s)[(Len(Entries(s)) - i) + 1]
    BY DEF Reverse
  <2>3. QED
    BY <1>2, <2>1, <2>2
<1>5. QED
  BY <1>3, <1>4

LEMMA HereIsFile ==
  ASSUME NEW c \in Command, Aim(c), pc[c] \in Entered
  PROVE  job[c].slug \in Change /\ Here(c) \in File
<1>1. job[c].slug \in Change /\ job[c].i \in 1..Len(Entries(job[c].slug))
  BY DEF Aim, Entered
<1>2. QED
  BY <1>1, EntriesAreFiles DEF Here

LEMMA WantedIsFile ==
  ASSUME NEW c \in Command, Aim(c), pc[c] \in Entered
  PROVE  IsFile(Here(c), Wanted(c))
<1>1. Images(job[c].plan)
  BY DEF Aim, Entered
<1>2. QED
  BY <1>1, HereIsFile DEF Images, Wanted, Image

LEMMA AfterIsFile ==
  ASSUME Files, NEW s \in Change, NEW f \in File
  PROVE  IsFile(f, After(s)[f])
<1> DEFINE new == [k \in Capability |-> IF k \in Range(Deltas[s]) THEN With(live[k], s)
                                        ELSE IF live[State] = Absent THEN live[k]
                                        ELSE live[State][k]]
<1>1. \A k \in Capability : live[k] \in Content
  BY FilesApart DEF Files, IsFile
<1>2. live[State] = Absent \/ \A k \in Capability : live[State][k] \in Content
  BY FilesApart DEF Files, IsFile, Stateful
<1>3. ASSUME NEW k \in Capability PROVE new[k] \in Content
  BY <1>1, <1>2, WithIsContent
<1>4. new \in [Capability -> Content]
  BY <1>3
<1>5. After(s)[f] = IF f = State THEN new ELSE new[f]
  BY DEF After
<1>6. QED
  BY <1>3, <1>4, <1>5, FilesApart DEF IsFile, Stateful
-----------------------------------------------------------------------------
(* Every other command is somewhere outside the work, and stays there.       *)
LEMMA Others ==
  ASSUME ArchiveInv, NEW c \in Command, pc[c] \in Working, NEW place, Goto(c, place),
         \A d \in Command : d # c => job'[d] = job[d]
  PROVE  \A d \in Command : d # c => (Aim(d) /\ Ground(d) /\ Grip(d))'
<1> SUFFICES ASSUME NEW d \in Command, d # c PROVE (Aim(d) /\ Ground(d) /\ Grip(d))'
    OBVIOUS
<1>1. pc[d] \notin Working
  BY DEF ArchiveInv, LockInv, LockType, Owned, Token
<1>2. pc'[d] = pc[d] /\ job'[d] = job[d]
  BY DEF ArchiveInv, LockInv, LockType, Goto
<1>3. pc'[d] \notin {"begin", "seal", "publish", "mkdir", "prepare", "isolate", "erase", "erased", "copy",
                     "plan", "unseal", "claim", "recheck", "restore"} \union Shown \union Entered
  BY <1>1, <1>2 DEF Working, Shown, Entered
<1>4. Aim(d)
  BY DEF ArchiveInv, Duties
<1>5. (Aim(d))'
  BY <1>2, <1>3, <1>4 DEF Aim, Outset
<1>6. (Ground(d))'
  BY <1>3 DEF Ground
<1>7. (Grip(d))'
  BY <1>3 DEF Grip
<1>8. QED
  BY <1>5, <1>6, <1>7
-----------------------------------------------------------------------------
LEMMA ArchiveInitial == Init => ArchiveInv
<1> SUFFICES ASSUME Init PROVE ArchiveInv
    OBVIOUS
<1> DEFINE first == [c \in Capability |-> IF c \in NewCapability THEN Absent ELSE {}]
<1>1. first \in [Capability -> Content]
  BY DEF Content
<1>2. Tree(0, first) \in TreeSet /\ Tree(0, first) # Absent
  BY <1>1, AbsentApart DEF Tree, TreeSet
<1>3. /\ pc = [c \in Command |-> "idle"] /\ job = [c \in Command |-> NoJob]
      /\ journal = [s \in Change |-> NoJournal]
      /\ at = [s \in Change |-> [p \in Place |-> IF p = "open" THEN Tree(0, first) ELSE Absent]]
      /\ authored = [s \in Change |-> {Tree(0, first)}]
      /\ live = [f \in File |-> IF f = State THEN first ELSE first[f]]
      /\ claim = [s \in Change |-> [f \in File |-> Absent]]
      /\ edits = {} /\ events = 0
  BY DEF Init
<1>4. Duties
  BY <1>3 DEF Duties, Aim, Ground, Grip, Outset, Entered, Shown
<1>5. Shapes
  <2>1. JobsShaped
    BY <1>3 DEF JobsShaped, JobShape, NoJob
  <2>2. JournalsShaped
    BY <1>3 DEF JournalsShaped, JournalShape, NoJournal
  <2>3. QED
    BY <1>3, <2>1, <2>2 DEF Shapes
<1>6. Files
  BY <1>1, <1>3, FilesApart, AbsentApart DEF Files, IsFile, Stateful
<1>7. Journals
  BY <1>3 DEF Journals, Clear, NoJournal, Place
<1>8. Trees /\ ChangeKept
  BY <1>2, <1>3 DEF Trees, ChangeKept, Place
<1>9. QED
  BY <1>4, <1>5, <1>6, <1>7, <1>8, LockInitial DEF ArchiveInv, Standing
-----------------------------------------------------------------------------
(* A step that leaves the trees, the specs and the claims alone.             *)
LEMMA QuietStands ==
  ASSUME Standing, UNCHANGED <<trees, live, claim, counts>>, JobsShaped', JournalsShaped', Journals'
  PROVE  Standing'
<1>1. at' = at /\ authored' = authored /\ live' = live /\ claim' = claim /\ edits' = edits /\ events' = events
  BY DEF trees, counts
<1>2. Shapes'
  BY <1>1 DEF Standing, Shapes
<1>3. Files'
  BY <1>1 DEF Standing, Files
<1>4. Trees' /\ ChangeKept'
  BY <1>1 DEF Standing, Trees, ChangeKept
<1>5. QED
  BY <1>2, <1>3, <1>4 DEF Standing

(* What a note in the journal must be for it to stay true.                   *)
LEMMA NoteStands ==
  ASSUME Standing, at' = at, NEW s \in Change, NEW phase, NEW digest, NEW plan, NEW promotion,
         Note(s, phase, digest, plan, promotion),
         plan = NoPlan \/ Images(plan),
         phase \in {"none", "bare"} => Clear(s),
         phase = "completed" => at[s]["archive"] # Absent
  PROVE  JournalsShaped' /\ Journals'
<1> DEFINE j == [phase |-> phase, digest |-> digest, plan |-> plan, specs |-> promotion]
<1>1. journal' = [journal EXCEPT ![s] = j] /\ journal = [t \in Change |-> journal[t]]
  BY DEF Note, Standing, Shapes, JournalsShaped
<1>2. JournalShape(j) /\ j.phase = phase /\ j.plan = plan
  BY DEF JournalShape
<1> HIDE DEF j
<1>3. journal'[s] = j /\ \A t \in Change : t # s => journal'[t] = journal[t]
  BY <1>1
<1>4. JournalsShaped'
  BY <1>1, <1>2, <1>3 DEF Standing, Shapes, JournalsShaped
<1>5. ASSUME NEW t \in Change
      PROVE  /\ journal'[t].plan # NoPlan => Images(journal'[t].plan)
             /\ journal'[t].phase \in {"none", "bare"} => Clear(t)
             /\ journal'[t].phase = "completed" => at[t]["archive"] # Absent
  BY <1>2, <1>3 DEF Standing, Journals
<1>6. Journals'
  BY <1>5 DEF Journals, Clear
<1>7. QED
  BY <1>4, <1>6

LEMMA SilentStands ==
  ASSUME Standing, at' = at, journal' = journal
  PROVE  JournalsShaped' /\ Journals'
BY DEF Standing, Shapes, JournalsShaped, Journals, Clear

(* The job of the one command that has another.                              *)
LEMMA JobsStand ==
  ASSUME JobsShaped, NEW c \in Command, NEW j, JobShape(j), job' = [job EXCEPT ![c] = j]
  PROVE  /\ JobsShaped' /\ job'[c] = j
         /\ \A d \in Command : d # c => job'[d] = job[d]
BY DEF JobsShaped

LEMMA SameJobs ==
  ASSUME JobsShaped, job' = job
  PROVE  JobsShaped'
BY DEF JobsShaped
-----------------------------------------------------------------------------
(* The ways to change the fields of a job.                                   *)
LEMMA SetPlace ==
  ASSUME JobsShaped, NEW c \in Command, NEW i, job' = [job EXCEPT ![c].i = i]
  PROVE  /\ JobsShaped' /\ \A d \in Command : d # c => job'[d] = job[d]
         /\ job'[c].slug = job[c].slug /\ job'[c].mode = job[c].mode /\ job'[c].i = i
         /\ job'[c].auth = job[c].auth /\ job'[c].plan = job[c].plan
<1> DEFINE j == [job[c] EXCEPT !.i = i]
<1>1. j = [slug |-> job[c].slug, mode |-> job[c].mode, i |-> i, auth |-> job[c].auth, plan |-> job[c].plan]
  BY DEF JobsShaped, JobShape
<1>2. /\ JobShape(j)
      /\ j.slug = job[c].slug /\ j.mode = job[c].mode /\ j.i = i
      /\ j.auth = job[c].auth /\ j.plan = job[c].plan
  BY <1>1 DEF JobShape
<1>3. job' = [job EXCEPT ![c] = j]
  BY DEF JobsShaped
<1> HIDE DEF j
<1>4. QED
  BY <1>2, <1>3, JobsStand

LEMMA SetAuth ==
  ASSUME JobsShaped, NEW c \in Command, NEW auth, job' = [job EXCEPT ![c].auth = auth]
  PROVE  /\ JobsShaped' /\ \A d \in Command : d # c => job'[d] = job[d]
         /\ job'[c].slug = job[c].slug /\ job'[c].mode = job[c].mode /\ job'[c].i = job[c].i
         /\ job'[c].auth = auth /\ job'[c].plan = job[c].plan
<1> DEFINE j == [job[c] EXCEPT !.auth = auth]
<1>1. j = [slug |-> job[c].slug, mode |-> job[c].mode, i |-> job[c].i, auth |-> auth, plan |-> job[c].plan]
  BY DEF JobsShaped, JobShape
<1>2. /\ JobShape(j)
      /\ j.slug = job[c].slug /\ j.mode = job[c].mode /\ j.i = job[c].i
      /\ j.auth = auth /\ j.plan = job[c].plan
  BY <1>1 DEF JobShape
<1>3. job' = [job EXCEPT ![c] = j]
  BY DEF JobsShaped
<1> HIDE DEF j
<1>4. QED
  BY <1>2, <1>3, JobsStand

LEMMA SetPlan ==
  ASSUME JobsShaped, NEW c \in Command, NEW plan, job' = [job EXCEPT ![c].plan = plan]
  PROVE  /\ JobsShaped' /\ \A d \in Command : d # c => job'[d] = job[d]
         /\ job'[c].slug = job[c].slug /\ job'[c].mode = job[c].mode /\ job'[c].i = job[c].i
         /\ job'[c].auth = job[c].auth /\ job'[c].plan = plan
<1> DEFINE j == [job[c] EXCEPT !.plan = plan]
<1>1. j = [slug |-> job[c].slug, mode |-> job[c].mode, i |-> job[c].i, auth |-> job[c].auth, plan |-> plan]
  BY DEF JobsShaped, JobShape
<1>2. /\ JobShape(j)
      /\ j.slug = job[c].slug /\ j.mode = job[c].mode /\ j.i = job[c].i
      /\ j.auth = job[c].auth /\ j.plan = plan
  BY <1>1 DEF JobShape
<1>3. job' = [job EXCEPT ![c] = j]
  BY DEF JobsShaped
<1> HIDE DEF j
<1>4. QED
  BY <1>2, <1>3, JobsStand

LEMMA SetModeAndPlace ==
  ASSUME JobsShaped, NEW c \in Command, NEW mode, job' = [job EXCEPT ![c].mode = mode, ![c].i = 1]
  PROVE  /\ JobsShaped' /\ \A d \in Command : d # c => job'[d] = job[d]
         /\ job'[c].slug = job[c].slug /\ job'[c].mode = mode /\ job'[c].i = 1
         /\ job'[c].auth = job[c].auth /\ job'[c].plan = job[c].plan
<1> DEFINE k == [job[c] EXCEPT !.mode = mode]
           j == [k EXCEPT !.i = 1]
<1>1. /\ JobShape(k)
      /\ k.slug = job[c].slug /\ k.mode = mode /\ k.i = job[c].i
      /\ k.auth = job[c].auth /\ k.plan = job[c].plan
  BY DEF JobsShaped, JobShape
<1> HIDE DEF k
<1>2. j = [slug |-> k.slug, mode |-> k.mode, i |-> 1, auth |-> k.auth, plan |-> k.plan]
  BY <1>1 DEF JobShape
<1>3. /\ JobShape(j)
      /\ j.slug = k.slug /\ j.mode = k.mode /\ j.i = 1
      /\ j.auth = k.auth /\ j.plan = k.plan
  BY <1>2 DEF JobShape
<1>4. job' = [job EXCEPT ![c] = j]
  BY DEF JobsShaped, k
<1> HIDE DEF j
<1>5. QED
  BY <1>1, <1>3, <1>4, JobsStand

LEMMA SetPlanAndPlace ==
  ASSUME JobsShaped, NEW c \in Command, NEW plan, job' = [job EXCEPT ![c].plan = plan, ![c].i = 1]
  PROVE  /\ JobsShaped' /\ \A d \in Command : d # c => job'[d] = job[d]
         /\ job'[c].slug = job[c].slug /\ job'[c].mode = job[c].mode /\ job'[c].i = 1
         /\ job'[c].auth = job[c].auth /\ job'[c].plan = plan
<1> DEFINE k == [job[c] EXCEPT !.plan = plan]
           j == [k EXCEPT !.i = 1]
<1>1. /\ JobShape(k)
      /\ k.slug = job[c].slug /\ k.mode = job[c].mode /\ k.i = job[c].i
      /\ k.auth = job[c].auth /\ k.plan = plan
  BY DEF JobsShaped, JobShape
<1> HIDE DEF k
<1>2. j = [slug |-> k.slug, mode |-> k.mode, i |-> 1, auth |-> k.auth, plan |-> k.plan]
  BY <1>1 DEF JobShape
<1>3. /\ JobShape(j)
      /\ j.slug = k.slug /\ j.mode = k.mode /\ j.i = 1
      /\ j.auth = k.auth /\ j.plan = k.plan
  BY <1>2 DEF JobShape
<1>4. job' = [job EXCEPT ![c] = j]
  BY DEF JobsShaped, k
<1> HIDE DEF j
<1>5. QED
  BY <1>1, <1>3, <1>4, JobsStand

(* A promotion that breaks off, or is through with a file, goes back to the   *)
(* next file, or on to the end, or gives up; it keeps its change and plan.   *)
LEMMA Outcome ==
  ASSUME Standing, NEW c \in Command, Aim(c), pc[c] \in Entered, at' = at, Break(c) \/ NextEntry(c)
  PROVE  \E place \in {"entry", "finish", "unlock"} :
           /\ Goto(c, place) /\ JobsShaped' /\ JournalsShaped' /\ Journals'
           /\ \A d \in Command : d # c => job'[d] = job[d]
           /\ job'[c].slug = job[c].slug /\ job'[c].plan = job[c].plan
           /\ place = "entry" => job'[c].i \in 1..Len(Entries(job[c].slug))
           /\ place = "entry" /\ job'[c].mode = "promote" => job[c].mode = "promote"
           /\ place = "finish" => job[c].mode = "promote"
<1> DEFINE s == job[c].slug
           j == job[c]
<1>1. /\ s \in Change /\ j.i \in 1..Len(Entries(s)) /\ Images(j.plan)
      /\ 1 \in 1..Len(Entries(s)) /\ Len(Entries(s)) \in Nat
  BY EntriesAreFiles DEF Aim, Entered
<1>2. JobsShaped /\ JobShape(j)
  BY DEF Standing, Shapes, JobsShaped
<1>3. ASSUME NEW place \in {"finish", "unlock"}, Goto(c, place), job' = job, JournalsShaped', Journals',
             place = "finish" => j.mode = "promote"
      PROVE  \E q \in {"entry", "finish", "unlock"} :
               /\ Goto(c, q) /\ JobsShaped' /\ JournalsShaped' /\ Journals'
               /\ \A d \in Command : d # c => job'[d] = job[d]
               /\ job'[c].slug = s /\ job'[c].plan = j.plan
               /\ q = "entry" => job'[c].i \in 1..Len(Entries(s))
               /\ q = "entry" /\ job'[c].mode = "promote" => j.mode = "promote"
               /\ q = "finish" => j.mode = "promote"
  BY <1>2, <1>3, SameJobs
<1>4. ASSUME NEW phase \in {"promotion-applied", "recovery-required"}, NEW digest, NEW promotion,
             Note(s, phase, digest, j.plan, promotion)
      PROVE  JournalsShaped' /\ Journals'
  BY <1>1, <1>4, NoteStands
<1>5. CASE Break(c) /\ j.mode = "promote"
  <2>1. Goto(c, "entry") /\ journal' = journal /\ job' = [job EXCEPT ![c].mode = "undo", ![c].i = 1]
    BY <1>5 DEF Break
  <2>3. /\ JobsShaped' /\ \A d \in Command : d # c => job'[d] = job[d]
        /\ job'[c].slug = s /\ job'[c].plan = j.plan /\ job'[c].i = 1 /\ job'[c].mode = "undo"
    <3>1. c \in Command /\ JobsShaped /\ job' = [job EXCEPT ![c].mode = "undo", ![c].i = 1]
      BY <1>2, <2>1
    <3>2. /\ JobsShaped' /\ \A d \in Command : d # c => job'[d] = job[d]
          /\ job'[c].slug = job[c].slug /\ job'[c].plan = job[c].plan /\ job'[c].i = 1 /\ job'[c].mode = "undo"
      BY ONLY <3>1, SetModeAndPlace
    <3>3. QED
      BY <3>2
  <2>4. JournalsShaped' /\ Journals'
    BY <2>1, SilentStands
  <2>5. QED
    BY <1>1, <2>1, <2>3, <2>4
<1>6. CASE Break(c) /\ j.mode = "undo"
  BY <1>3, <1>4, <1>6 DEF Break, Failed
<1>7. CASE Break(c) /\ j.mode \notin {"promote", "undo"}
  BY <1>3, <1>7, SilentStands DEF Break
<1>8. CASE NextEntry(c) /\ j.i < Len(Entries(s))
  <2>1. Goto(c, "entry") /\ journal' = journal /\ job' = [job EXCEPT ![c].i = j.i + 1]
    BY <1>8 DEF NextEntry
  <2>3. /\ JobsShaped' /\ \A d \in Command : d # c => job'[d] = job[d]
        /\ job'[c].slug = s /\ job'[c].plan = j.plan /\ job'[c].i = j.i + 1 /\ job'[c].mode = j.mode
    BY <1>2, <2>1, SetPlace
  <2>4. JournalsShaped' /\ Journals'
    BY <2>1, SilentStands
  <2>5. j.i + 1 \in 1..Len(Entries(s))
    BY <1>1, <1>8
  <2>6. QED
    BY <2>1, <2>3, <2>4, <2>5
<1>9. CASE NextEntry(c) /\ ~(j.i < Len(Entries(s)))
  <2>1. Done(c)
    BY <1>9 DEF NextEntry
  <2>2. CASE j.mode = "promote"
    BY <1>3, <1>4, <2>1, <2>2 DEF Done
  <2>3. CASE j.mode = "undo"
    BY <1>3, <1>4, <2>1, <2>3 DEF Done, Failed
  <2>4. CASE j.mode \notin {"promote", "undo"}
    BY <1>3, <1>4, <2>1, <2>4 DEF Done
  <2>5. QED
    BY <2>2, <2>3, <2>4
<1>10. QED
  BY <1>5, <1>6, <1>7, <1>8, <1>9

LEMMA EnteredWorks == Entered \subseteq Working
BY DEF Entered, Working

LEMMA OutcomeDuties ==
  ASSUME ArchiveInv, NEW c \in Command, pc[c] \in Entered, at' = at, Break(c) \/ NextEntry(c)
  PROVE  JobsShaped' /\ JournalsShaped' /\ Journals' /\ Duties'
<1>1. Standing /\ Aim(c) /\ Ground(c) /\ pc \in [Command -> Anywhere]
  BY DEF ArchiveInv, Duties, LockInv, LockType
<1>2. PICK place \in {"entry", "finish", "unlock"} :
           /\ Goto(c, place) /\ JobsShaped' /\ JournalsShaped' /\ Journals'
           /\ \A d \in Command : d # c => job'[d] = job[d]
           /\ job'[c].slug = job[c].slug /\ job'[c].plan = job[c].plan
           /\ place = "entry" => job'[c].i \in 1..Len(Entries(job[c].slug))
           /\ place = "entry" /\ job'[c].mode = "promote" => job[c].mode = "promote"
           /\ place = "finish" => job[c].mode = "promote"
  BY <1>1, Outcome
<1>3. \A d \in Command : d # c => (Aim(d) /\ Ground(d) /\ Grip(d))'
  BY <1>2, Others, EnteredWorks
<1>4. pc'[c] = place
  BY <1>1, <1>2 DEF Goto
<1>5. (Aim(c))'
  BY <1>1, <1>2, <1>4 DEF Aim, Outset, Entered, Shown
<1>6. (Ground(c))'
  BY <1>1, <1>2, <1>4 DEF Ground, Clear, Entered, Shown
<1>7. (Grip(c))'
  BY <1>2, <1>4 DEF Grip
<1>8. QED
  BY <1>2, <1>3, <1>5, <1>6, <1>7 DEF Duties

(* A command that goes on with the same file knows what it knew.             *)
LEMMA Onward ==
  ASSUME ArchiveInv, NEW c \in Command, pc[c] \in Entered, at' = at, job' = job, journal' = journal,
         NEW place \in Entered, Goto(c, place), place \in {"claim", "recheck", "restore"} => (Grip(c))'
  PROVE  JobsShaped' /\ JournalsShaped' /\ Journals' /\ Duties'
<1>1. Standing /\ Aim(c) /\ Ground(c) /\ pc \in [Command -> Anywhere]
  BY DEF ArchiveInv, Duties, LockInv, LockType
<1>2. JobsShaped' /\ JournalsShaped' /\ Journals'
  BY <1>1, SilentStands, SameJobs DEF Standing, Shapes
<1>3. \A d \in Command : d # c => (Aim(d) /\ Ground(d) /\ Grip(d))'
  BY Others, EnteredWorks
<1>4. pc'[c] = place
  BY <1>1 DEF Goto
<1>5. (Aim(c))'
  BY <1>1, <1>4 DEF Aim, Outset, Entered, Shown
<1>6. (Ground(c))'
  BY <1>1, <1>4 DEF Ground, Clear, Entered, Shown
<1>7. (Grip(c))'
  BY <1>4 DEF Grip
<1>8. QED
  BY <1>2, <1>3, <1>5, <1>6, <1>7 DEF Duties
-----------------------------------------------------------------------------
LEMMA SameFile ==
  ASSUME NEW c, job' = job
  PROVE  /\ (Here(c))' = Here(c) /\ (Wanted(c))' = Wanted(c)
         /\ \A content : ((Known(c, content))' <=> Known(c, content))
         /\ \A content : ((Saved(c, content))' <=> Saved(c, content))
BY DEF Here, Wanted, Known, Image, Forward, Saved

LEMMA LiveIsSet ==
  ASSUME Standing, NEW h \in File, NEW content, IsFile(h, content), live' = [live EXCEPT ![h] = content]
  PROVE  /\ live' = [f \in File |-> live'[f]] /\ \A f \in File : IsFile(f, live'[f])
         /\ live'[h] = content /\ \A f \in File : f # h => live'[f] = live[f]
<1>1. live = [f \in File |-> live[f]] /\ \A f \in File : IsFile(f, live[f])
  BY DEF Standing, Shapes, Files
<1>2. /\ live' = [f \in File |-> live'[f]]
      /\ live'[h] = content /\ \A f \in File : f # h => live'[f] = live[f]
  BY <1>1
<1>3. QED
  BY <1>1, <1>2

LEMMA ClaimIsSet ==
  ASSUME Standing, NEW s \in Change, NEW h \in File, NEW content, IsFile(h, content),
         claim' = [claim EXCEPT ![s] = [claim[s] EXCEPT ![h] = content]]
  PROVE  /\ claim' = [t \in Change |-> [f \in File |-> claim'[t][f]]]
         /\ \A t \in Change : \A f \in File : IsFile(f, claim'[t][f])
         /\ claim'[s][h] = content
         /\ \A t \in Change : \A f \in File : t # s \/ f # h => claim'[t][f] = claim[t][f]
<1> DEFINE row == [claim[s] EXCEPT ![h] = content]
<1>1. /\ claim = [t \in Change |-> [f \in File |-> claim[t][f]]]
      /\ \A t \in Change : \A f \in File : IsFile(f, claim[t][f])
  BY DEF Standing, Shapes, Files
<1>2. claim[s] = [f \in File |-> claim[s][f]]
  BY <1>1
<1>3. row = [f \in File |-> row[f]] /\ row[h] = content /\ \A f \in File : f # h => row[f] = claim[s][f]
  BY <1>2
<1>4. claim' = [claim EXCEPT ![s] = row]
  BY <1>1
<1> HIDE DEF row
<1>5. claim'[s] = row /\ \A t \in Change : t # s => claim'[t] = claim[t]
  BY <1>1, <1>4
<1>6. \A t \in Change : claim'[t] = [f \in File |-> claim'[t][f]]
  BY <1>1, <1>3, <1>5
<1>7. claim' = [t \in Change |-> claim'[t]]
  BY <1>1, <1>4
<1>8. claim' = [t \in Change |-> [f \in File |-> claim'[t][f]]]
  BY <1>6, <1>7
<1>9. QED
  BY <1>1, <1>3, <1>5, <1>8

(* A step that changes specs and claims only.                                *)
LEMMA SpecsStand ==
  ASSUME Standing, UNCHANGED <<trees, counts>>, JobsShaped', JournalsShaped', Journals',
         live' = [f \in File |-> live'[f]], claim' = [t \in Change |-> [f \in File |-> claim'[t][f]]],
         \A f \in File : IsFile(f, live'[f]),
         \A t \in Change : \A f \in File : IsFile(f, claim'[t][f])
  PROVE  Standing'
<1>1. at' = at /\ authored' = authored /\ edits' = edits /\ events' = events
  BY DEF trees, counts
<1>2. Shapes'
  BY <1>1 DEF Standing, Shapes
<1>3. Files'
  BY <1>1 DEF Standing, Files
<1>4. Trees' /\ ChangeKept'
  BY <1>1 DEF Standing, Trees, ChangeKept
<1>5. QED
  BY <1>2, <1>3, <1>4 DEF Standing

LEMMA Working1 ==
  ASSUME ArchiveInv, NEW c \in Command, pc[c] \in Entered
  PROVE  /\ Standing /\ job[c].slug \in Change /\ Here(c) \in File /\ Aim(c) /\ Ground(c) /\ Grip(c)
         /\ IsFile(Here(c), Wanted(c)) /\ IsFile(Here(c), live[Here(c)]) /\ IsFile(Here(c), Claim(c))
<1>1. Standing /\ Aim(c) /\ Ground(c) /\ Grip(c)
  BY DEF ArchiveInv, Duties
<1>2. job[c].slug \in Change /\ Here(c) \in File /\ IsFile(Here(c), Wanted(c))
  BY <1>1, HereIsFile, WantedIsFile
<1>3. QED
  BY <1>1, <1>2 DEF Standing, Files, Claim

LEMMA EntryKeeps ==
  ASSUME ArchiveInv, NEW c \in Command, Entry(c)
  PROVE  Standing' /\ Duties'
<1> DEFINE now == live[Here(c)]
           kept == Claim(c)
<1>1. /\ pc[c] = "entry" /\ UNCHANGED <<trees, live, claim, counts>>
      /\ \/ Break(c) \/ NextEntry(c)
         \/ /\ job' = job /\ journal' = journal
            /\ \/ Goto(c, "candidate") \/ Goto(c, "retain")
               \/ Goto(c, "claim") /\ kept = Absent /\ Known(c, now)
  BY DEF Entry, At, counts
<1>2. pc[c] \in Entered /\ at' = at /\ live' = live /\ claim' = claim
  BY <1>1 DEF Entered, trees
<1>3. Standing
  BY DEF ArchiveInv
<1>4. JobsShaped' /\ JournalsShaped' /\ Journals' /\ Duties'
  <2>1. CASE Break(c) \/ NextEntry(c)
    BY <1>2, <2>1, OutcomeDuties
  <2>2. CASE job' = job /\ journal' = journal /\ Goto(c, "candidate")
    <3>1. "candidate" \in Entered /\ "candidate" \notin {"claim", "recheck", "restore"}
      BY DEF Entered
    <3>2. QED
      BY <1>2, <2>2, <3>1, Onward
  <2>3. CASE job' = job /\ journal' = journal /\ Goto(c, "retain")
    <3>1. "retain" \in Entered /\ "retain" \notin {"claim", "recheck", "restore"}
      BY DEF Entered
    <3>2. QED
      BY <1>2, <2>3, <3>1, Onward
  <2>4. CASE job' = job /\ journal' = journal /\ Goto(c, "claim") /\ kept = Absent /\ Known(c, now)
    <3>1. "claim" \in Entered /\ pc'[c] = "claim"
      BY <2>4 DEF Entered, Goto, ArchiveInv, LockInv, LockType
    <3>2. (Claim(c))' = Absent /\ (Known(c, live[Here(c)]))'
      BY <1>2, <2>4 DEF Claim, Here, Known, Image, Forward
    <3>3. (Grip(c))'
      BY <3>1, <3>2 DEF Grip
    <3>4. QED
      BY <1>2, <2>4, <3>1, <3>3, Onward
  <2>5. QED
    BY <1>1, <2>1, <2>2, <2>3, <2>4
<1>5. QED
  BY <1>1, <1>3, <1>4, QuietStands

LEMMA ClaimTargetKeeps ==
  ASSUME ArchiveInv, NEW c \in Command, ClaimTarget(c)
  PROVE  Standing' /\ Duties'
<1> DEFINE s == job[c].slug
           h == Here(c)
<1>1. /\ pc[c] = "claim" /\ UNCHANGED <<trees, job, journal, counts>> /\ Goto(c, "recheck")
      /\ claim' = [claim EXCEPT ![s][h] = live[h]] /\ live' = [live EXCEPT ![h] = Absent]
  BY DEF ClaimTarget, SetClaim, SetLive, At, counts
<1>2. pc[c] \in Entered /\ at' = at /\ "recheck" \in Entered
  BY <1>1 DEF Entered, trees
<1>3. /\ Standing /\ s \in Change /\ h \in File /\ IsFile(h, live[h]) /\ IsFile(h, Absent)
      /\ Known(c, live[h]) \/ Saved(c, live[h])
  BY <1>1, <1>2, Working1, AbsentApart DEF Grip
<1> HIDE DEF s, h
<1>4. /\ live' = [f \in File |-> live'[f]] /\ \A f \in File : IsFile(f, live'[f])
  BY <1>1, <1>3, LiveIsSet
<1>5. /\ claim' = [t \in Change |-> [f \in File |-> claim'[t][f]]]
      /\ \A t \in Change : \A f \in File : IsFile(f, claim'[t][f])
      /\ claim'[s][h] = live[h]
  <2>1. PICK content : content = live[h]
    OBVIOUS
  <2>2. Standing /\ s \in Change /\ h \in File /\ IsFile(h, content)
        /\ claim' = [claim EXCEPT ![s] = [claim[s] EXCEPT ![h] = content]]
    BY <1>1, <1>3, <2>1 DEF Standing, Shapes
  <2>3. /\ claim' = [t \in Change |-> [f \in File |-> claim'[t][f]]]
        /\ \A t \in Change : \A f \in File : IsFile(f, claim'[t][f])
        /\ claim'[s][h] = content
    BY ONLY <2>2, ClaimIsSet
  <2>4. QED
    BY <2>1, <2>3
<1>6. (Grip(c))'
  <2>1. pc'[c] = "recheck"
    BY <1>1 DEF Goto, ArchiveInv, LockInv, LockType
  <2>2. (Claim(c))' = live[h]
    BY <1>1, <1>5, SameFile DEF Claim, s, h
  <2>3. (Known(c, Claim(c)))' \/ (Saved(c, Claim(c)))'
    BY <1>1, <1>3, <2>2 DEF Known, Saved, Image, Here, Forward
  <2>4. QED
    BY <2>1, <2>3 DEF Grip
<1>7. JobsShaped' /\ JournalsShaped' /\ Journals' /\ Duties'
  BY <1>1, <1>2, <1>6, Onward
<1>8. QED
  BY <1>1, <1>3, <1>4, <1>5, <1>7, SpecsStand

LEMMA RetainTargetKeeps ==
  ASSUME ArchiveInv, NEW c \in Command, RetainTarget(c)
  PROVE  Standing' /\ Duties'
<1>1. /\ pc[c] = "retain" /\ UNCHANGED <<trees, claim, job, journal, counts>> /\ Goto(c, "candidate")
      /\ live' = [live EXCEPT ![Here(c)] = Absent]
  BY DEF RetainTarget, SetLive, At, counts
<1>2. /\ pc[c] \in Entered /\ at' = at
      /\ "candidate" \in Entered /\ "candidate" \notin {"claim", "recheck", "restore"}
  BY <1>1 DEF Entered, trees
<1>3. Standing /\ Here(c) \in File /\ IsFile(Here(c), Absent)
  BY <1>2, Working1, AbsentApart
<1>4. /\ live' = [f \in File |-> live'[f]] /\ \A f \in File : IsFile(f, live'[f])
  BY <1>1, <1>3, LiveIsSet
<1>5. JobsShaped' /\ JournalsShaped' /\ Journals' /\ Duties'
  BY <1>1, <1>2, Onward
<1>6. /\ claim' = [t \in Change |-> [f \in File |-> claim'[t][f]]]
      /\ \A t \in Change : \A f \in File : IsFile(f, claim'[t][f])
  BY <1>1, <1>3 DEF Standing, Shapes, Files
<1>7. QED
  BY <1>1, <1>3, <1>4, <1>5, <1>6, SpecsStand

LEMMA RecheckKeeps ==
  ASSUME ArchiveInv, NEW c \in Command, Recheck(c)
  PROVE  Standing' /\ Duties'
<1>1. /\ pc[c] = "recheck" /\ UNCHANGED <<trees, live, claim, counts>>
      /\ \/ Break(c)
         \/ job' = job /\ journal' = journal /\ Goto(c, "candidate")
         \/ job' = job /\ journal' = journal /\ Goto(c, "restore") /\ ~Known(c, Claim(c))
  BY DEF Recheck, At, specs, counts
<1>2. pc[c] \in Entered /\ at' = at /\ claim' = claim
  BY <1>1 DEF Entered, trees
<1>3. Standing /\ Grip(c)
  BY DEF ArchiveInv, Duties
<1>4. JobsShaped' /\ JournalsShaped' /\ Journals' /\ Duties'
  <2>1. CASE Break(c)
    BY <1>2, <2>1, OutcomeDuties
  <2>2. CASE job' = job /\ journal' = journal /\ Goto(c, "candidate")
    <3>1. "candidate" \in Entered /\ "candidate" \notin {"claim", "recheck", "restore"}
      BY DEF Entered
    <3>2. QED
      BY <1>2, <2>2, <3>1, Onward
  <2>3. CASE job' = job /\ journal' = journal /\ Goto(c, "restore") /\ ~Known(c, Claim(c))
    <3>1. "restore" \in Entered /\ pc'[c] = "restore"
      BY <2>3 DEF Entered, Goto, ArchiveInv, LockInv, LockType
    <3>2. Saved(c, Claim(c))
      BY <1>1, <1>3, <2>3 DEF Grip
    <3>3. (Saved(c, Claim(c)))'
      BY <1>2, <2>3, <3>2 DEF Saved, Claim, Here, Forward
    <3>4. (Grip(c))'
      BY <3>1, <3>3 DEF Grip
    <3>5. QED
      BY <1>2, <2>3, <3>1, <3>4, Onward
  <2>4. QED
    BY <1>1, <2>1, <2>2, <2>3
<1>5. QED
  BY <1>1, <1>3, <1>4, QuietStands

LEMMA RestoreKeeps ==
  ASSUME ArchiveInv, NEW c \in Command, Restore(c)
  PROVE  Standing' /\ Duties'
<1> DEFINE s == job[c].slug
           h == Here(c)
<1>1. /\ pc[c] = "restore" /\ UNCHANGED <<trees, counts>> /\ Break(c)
      /\ claim' = [claim EXCEPT ![s][h] = Absent] /\ live' = [live EXCEPT ![h] = Claim(c)]
  BY DEF Restore, SetClaim, SetLive, At, counts
<1>2. pc[c] \in Entered /\ at' = at
  BY <1>1 DEF Entered, trees
<1>3. Standing /\ s \in Change /\ h \in File /\ IsFile(h, Claim(c)) /\ IsFile(h, Absent)
  BY <1>1, <1>2, Working1, AbsentApart
<1>4. JobsShaped' /\ JournalsShaped' /\ Journals' /\ Duties'
  BY <1>1, <1>2, OutcomeDuties
<1> HIDE DEF s, h
<1>5. PICK content : content = Claim(c)
  OBVIOUS
<1>6. /\ live' = [f \in File |-> live'[f]] /\ \A f \in File : IsFile(f, live'[f])
  BY <1>1, <1>3, <1>5, LiveIsSet
<1>7. /\ claim' = [t \in Change |-> [f \in File |-> claim'[t][f]]]
      /\ \A t \in Change : \A f \in File : IsFile(f, claim'[t][f])
  <2>1. /\ Standing /\ s \in Change /\ h \in File /\ IsFile(h, Absent)
        /\ claim' = [claim EXCEPT ![s] = [claim[s] EXCEPT ![h] = Absent]]
    BY <1>1, <1>3 DEF Standing, Shapes
  <2>2. QED
    BY ONLY <2>1, ClaimIsSet
<1>8. QED
  BY <1>1, <1>3, <1>4, <1>6, <1>7, SpecsStand

LEMMA WriteCandidateKeeps ==
  ASSUME ArchiveInv, NEW c \in Command, WriteCandidate(c)
  PROVE  Standing' /\ Duties'
<1>1. /\ pc[c] = "candidate" /\ UNCHANGED <<trees, live, claim, counts>>
      /\ \/ Break(c)
         \/ job' = job /\ journal' = journal /\ \E place \in {"verify", "link"} : Goto(c, place)
  BY DEF WriteCandidate, At, counts
<1>2. pc[c] \in Entered /\ at' = at /\ Standing
  BY <1>1 DEF Entered, trees, ArchiveInv
<1>3. JobsShaped' /\ JournalsShaped' /\ Journals' /\ Duties'
  <2>1. CASE Break(c)
    BY <1>2, <2>1, OutcomeDuties
  <2>2. ASSUME NEW place \in {"verify", "link"}, job' = job, journal' = journal, Goto(c, place)
        PROVE  JobsShaped' /\ JournalsShaped' /\ Journals' /\ Duties'
    <3>1. place \in Entered /\ place \notin {"claim", "recheck", "restore"}
      BY DEF Entered
    <3>2. QED
      BY <1>2, <2>2, <3>1, Onward
  <2>3. QED
    BY <1>1, <2>1, <2>2
<1>4. QED
  BY <1>1, <1>2, <1>3, QuietStands

LEMMA LinkKeeps ==
  ASSUME ArchiveInv, NEW c \in Command, Link(c)
  PROVE  Standing' /\ Duties'
<1>1. /\ pc[c] = "link" /\ UNCHANGED <<trees, claim, counts>>
      /\ \/ Break(c) /\ live' = live
         \/ /\ job' = job /\ journal' = journal /\ Goto(c, "verify")
            /\ live' = [live EXCEPT ![Here(c)] = Wanted(c)]
  BY DEF Link, SetLive, At, counts
<1>2. /\ pc[c] \in Entered /\ at' = at
      /\ "verify" \in Entered /\ "verify" \notin {"claim", "recheck", "restore"}
  BY <1>1 DEF Entered, trees
<1>3. Standing /\ Here(c) \in File /\ IsFile(Here(c), Wanted(c))
  BY <1>2, Working1
<1>4. JobsShaped' /\ JournalsShaped' /\ Journals' /\ Duties'
  BY <1>1, <1>2, OutcomeDuties, Onward
<1>5. PICK content : content = Wanted(c)
  OBVIOUS
<1>6. /\ live' = [f \in File |-> live'[f]] /\ \A f \in File : IsFile(f, live'[f])
  <2>1. CASE live' = live
    BY <1>3, <2>1 DEF Standing, Shapes, Files
  <2>2. CASE live' = [live EXCEPT ![Here(c)] = Wanted(c)]
    BY <1>3, <1>5, <2>2, LiveIsSet
  <2>3. QED
    BY <1>1, <2>1, <2>2
<1>7. /\ claim' = [t \in Change |-> [f \in File |-> claim'[t][f]]]
      /\ \A t \in Change : \A f \in File : IsFile(f, claim'[t][f])
  BY <1>1, <1>3 DEF Standing, Shapes, Files
<1>8. QED
  BY <1>1, <1>3, <1>4, <1>6, <1>7, SpecsStand

LEMMA VerifyKeeps ==
  ASSUME ArchiveInv, NEW c \in Command, Verify(c)
  PROVE  Standing' /\ Duties'
<1>1. /\ pc[c] = "verify" /\ UNCHANGED <<trees, live, claim, counts>> /\ (Break(c) \/ NextEntry(c))
  BY DEF Verify, At, counts
<1>2. pc[c] \in Entered /\ at' = at /\ Standing
  BY <1>1 DEF Entered, trees, ArchiveInv
<1>3. JobsShaped' /\ JournalsShaped' /\ Journals' /\ Duties'
  BY <1>1, <1>2, OutcomeDuties
<1>4. QED
  BY <1>1, <1>2, <1>3, QuietStands
-----------------------------------------------------------------------------
(* The work on the change's directory. What a command at work there may       *)
(* conclude of itself and of the others.                                     *)
LEMMA Prior ==
  ASSUME ArchiveInv, NEW c \in Command, pc[c] \in Working
  PROVE  /\ Standing /\ JobsShaped /\ Aim(c) /\ Ground(c)
         /\ job[c].slug \in Change /\ JobShape(job[c]) /\ pc \in [Command -> Anywhere]
BY PlacesApart DEF ArchiveInv, Duties, Standing, Shapes, JobsShaped, Aim, LockInv, LockType

(* A command that goes on in its directory with the same job.                *)
LEMMA Advance ==
  ASSUME ArchiveInv, NEW c \in Command, pc[c] \in Working, job' = job, NEW place, Goto(c, place),
         place \notin Outset \union Entered \union {"idle"},
         pc'[c] = place => (Ground(c))',
         place = "seal" => \A f \in File : IsFile(f, job[c].plan.after[f]),
         place \in Shown \union {"publish"} => Images(job[c].plan)
  PROVE  JobsShaped' /\ Duties'
<1>1. JobsShaped /\ Aim(c) /\ pc'[c] = place
  BY Prior DEF Goto
<1>2. JobsShaped'
  BY <1>1, SameJobs
<1>3. \A d \in Command : d # c => (Aim(d) /\ Ground(d) /\ Grip(d))'
  BY Others
<1>4. (Aim(c))'
  BY <1>1, Prior DEF Aim
<1>5. (Grip(c))'
  BY <1>1 DEF Grip, Entered
<1>6. QED
  BY <1>1, <1>2, <1>3, <1>4, <1>5 DEF Duties

(* The steps that only note where the transaction stands, or give it up.     *)
LEMMA NotesKeep ==
  ASSUME ArchiveInv, NEW c \in Command, Mkdir(c) \/ Prepare(c) \/ Erase(c) \/ Erased(c)
  PROVE  Standing' /\ Duties'
<1> DEFINE s == job[c].slug
<1>1. /\ pc[c] \in {"mkdir", "prepare", "erase", "erased"} /\ UNCHANGED <<trees, live, claim, counts, job>>
      /\ \E place \in {"prepare", "isolate", "erased", "unlock"} :
           /\ Goto(c, place)
           /\ place \in {"prepare", "isolate"} => pc[c] \in {"mkdir", "prepare"}
      /\ \/ \E phase \in {"bare", "prepared"} : Note(s, phase, FALSE, NoPlan, "none")
         \/ journal' = [journal EXCEPT ![s] = NoJournal]
  BY DEF Mkdir, Prepare, Erase, Erased, At, specs
<1>2. pc[c] \in Working /\ at' = at
  BY <1>1 DEF Working, trees
<1>3. Standing /\ Ground(c) /\ s \in Change /\ JobsShaped /\ pc \in [Command -> Anywhere]
  BY <1>2, Prior
<1>4. Clear(s)
  BY <1>1, <1>3 DEF Ground
<1>5. JournalsShaped' /\ Journals'
  <2>1. ASSUME NEW phase \in {"bare", "prepared"}, Note(s, phase, FALSE, NoPlan, "none")
        PROVE  JournalsShaped' /\ Journals'
    BY <1>2, <1>3, <1>4, <2>1, NoteStands
  <2>2. CASE journal' = [journal EXCEPT ![s] = NoJournal]
    <3>1. Note(s, "none", FALSE, NoPlan, "none")
      BY <2>2 DEF Note, NoJournal
    <3>2. QED
      BY <1>2, <1>3, <1>4, <3>1, NoteStands
  <2>3. QED
    BY <1>1, <2>1, <2>2
<1>6. pc'[c] = "isolate" => journal'[s].phase = "prepared"
  <2>1. CASE Prepare(c)
    BY <1>3, <2>1 DEF Prepare, Note, Standing, Shapes, JournalsShaped
  <2>2. CASE Mkdir(c) \/ Erase(c) \/ Erased(c)
    BY <1>3, <2>2 DEF Mkdir, Erase, Erased, Goto
  <2>3. QED
    BY <2>1, <2>2
<1>7. JobsShaped' /\ Duties'
  <2>1. PICK place \in {"prepare", "isolate", "erased", "unlock"} :
           /\ Goto(c, place)
           /\ place \in {"prepare", "isolate"} => pc[c] \in {"mkdir", "prepare"}
    BY <1>1
  <2>2. place \notin Outset \union Entered \union {"idle", "seal", "publish"} \union Shown
    BY DEF Outset, Entered, Shown
  <2>3. pc'[c] = place => (Ground(c))'
    BY <1>1, <1>2, <1>3, <1>4, <1>6, <2>1, <2>2 DEF Ground, Clear, Entered, Shown
  <2>4. job' = job
    BY <1>1
  <2>5. QED
    BY <1>2, <2>1, <2>2, <2>3, <2>4, Advance
<1>8. QED
  BY <1>1, <1>3, <1>5, <1>7, QuietStands

(* A command that goes on with another plan, or another place in it.         *)
LEMMA Turn ==
  ASSUME ArchiveInv, NEW c \in Command, pc[c] \in Working, NEW place, Goto(c, place),
         place \notin {"claim", "recheck", "restore"},
         \A d \in Command : d # c => job'[d] = job[d],
         (Aim(c))', (Ground(c))'
  PROVE  Duties'
<1>1. pc'[c] = place
  BY Prior DEF Goto
<1>2. \A d \in Command : d # c => (Aim(d) /\ Ground(d) /\ Grip(d))'
  BY Others
<1>3. (Grip(c))'
  BY <1>1 DEF Grip
<1>4. QED
  BY <1>2, <1>3 DEF Duties

LEMMA LeaveOff ==
  ASSUME ArchiveInv, NEW c \in Command, pc[c] \in Working, job' = job,
         NEW place \in {"unseal", "unlock"}, Goto(c, place),
         place = "unseal" => at'[job[c].slug]["archive"] = Absent
  PROVE  JobsShaped' /\ Duties'
<1>1. place \notin Outset \union Entered \union Shown \union {"idle", "seal", "publish"}
  BY DEF Outset, Entered, Shown
<1>2. pc'[c] = place => (Ground(c))'
  BY <1>1 DEF Ground
<1>3. QED
  BY <1>1, <1>2, Advance

LEMMA BeginKeeps ==
  ASSUME ArchiveInv, NEW c \in Command, Begin(c)
  PROVE  Standing' /\ Duties'
<1> DEFINE s == job[c].slug
<1>1. /\ pc[c] = "begin" /\ UNCHANGED <<trees, journal, live, claim, counts>>
      /\ \/ Goto(c, "unlock") /\ job' = job
         \/ /\ ~Pending(s) /\ at[s]["archive"] = Absent /\ at[s]["open"] # Absent
            /\ Goto(c, "mkdir") /\ job' = [job EXCEPT ![c].auth = at[s]["open"]]
  BY DEF Begin, At, specs
<1>2. pc[c] \in Working /\ at' = at /\ journal' = journal
  BY <1>1 DEF Working, trees
<1>3. /\ Standing /\ Aim(c) /\ s \in Change /\ JobsShaped /\ pc \in [Command -> Anywhere]
  BY <1>2, Prior
<1>4. JobsShaped' /\ Duties'
  <2>1. CASE Goto(c, "unlock") /\ job' = job
    BY <1>2, <2>1, LeaveOff
  <2>2. CASE /\ ~Pending(s) /\ at[s]["archive"] = Absent /\ at[s]["open"] # Absent
             /\ Goto(c, "mkdir") /\ job' = [job EXCEPT ![c].auth = at[s]["open"]]
    <3>1. Clear(s)
      BY <1>3, <2>2 DEF Pending, Standing, Journals
    <3>2. PICK auth : auth = at[s]["open"]
      OBVIOUS
    <3>3. /\ JobsShaped' /\ \A d \in Command : d # c => job'[d] = job[d]
          /\ job'[c].slug = s /\ job'[c].auth = auth
      BY <1>3, <2>2, <3>2, SetAuth
    <3>4. pc'[c] = "mkdir"
      BY <1>3, <2>2 DEF Goto
    <3>5. (Aim(c))'
      BY <1>3, <3>3, <3>4 DEF Aim, Outset, Entered, Shown
    <3>6. (Ground(c))'
      BY <1>2, <2>2, <3>1, <3>2, <3>3, <3>4 DEF Ground, Clear, Entered, Shown
    <3>7. QED
      BY <1>2, <2>2, <3>3, <3>5, <3>6, Turn
  <2>3. QED
    BY <1>1, <2>1, <2>2
<1>5. QED
  BY <1>1, <1>2, <1>3, <1>4, QuietStands, SilentStands

LEMMA PlanKeeps ==
  ASSUME ArchiveInv, NEW c \in Command, Plan(c)
  PROVE  Standing' /\ Duties'
<1> DEFINE s == job[c].slug
<1>1. /\ pc[c] = "plan" /\ UNCHANGED <<trees, journal, live, claim, counts>>
      /\ \/ Goto(c, "unseal") /\ job' = job
         \/ Goto(c, "seal") /\ job' = [job EXCEPT ![c].plan = [after |-> After(s)]]
  BY DEF Plan, At, specs
<1>2. pc[c] \in Working /\ at' = at /\ journal' = journal
  BY <1>1 DEF Working, trees
<1>3. /\ Standing /\ Aim(c) /\ Ground(c) /\ s \in Change /\ JobsShaped /\ pc \in [Command -> Anywhere]
  BY <1>2, Prior
<1>4. JobsShaped' /\ Duties'
  <2>1. CASE Goto(c, "unseal") /\ job' = job
    <3>1. at'[s]["archive"] = Absent
      BY <1>1, <1>2, <1>3 DEF Ground
    <3>2. QED
      BY <1>2, <2>1, <3>1, LeaveOff
  <2>2. CASE Goto(c, "seal") /\ job' = [job EXCEPT ![c].plan = [after |-> After(s)]]
    <3>1. PICK plan : plan = [after |-> After(s)]
      OBVIOUS
    <3>2. /\ JobsShaped' /\ \A d \in Command : d # c => job'[d] = job[d]
          /\ job'[c].slug = s /\ job'[c].plan = plan
      BY <1>3, <2>2, <3>1, SetPlan
    <3>3. \A f \in File : IsFile(f, plan.after[f])
      BY <1>3, <3>1, AfterIsFile DEF Standing
    <3>4. pc'[c] = "seal"
      BY <1>3, <2>2 DEF Goto
    <3>5. (Aim(c))'
      BY <1>3, <3>2, <3>3, <3>4 DEF Aim, Outset, Entered, Shown
    <3>6. (Ground(c))'
      BY <1>1, <1>2, <1>3, <3>2, <3>4 DEF Ground, Clear, Entered, Shown
    <3>7. QED
      BY <1>2, <2>2, <3>2, <3>5, <3>6, Turn
  <2>3. QED
    BY <1>1, <2>1, <2>2
<1>5. QED
  BY <1>1, <1>2, <1>3, <1>4, QuietStands, SilentStands

LEMMA SealKeeps ==
  ASSUME ArchiveInv, NEW c \in Command, Seal(c)
  PROVE  Standing' /\ Duties'
<1> DEFINE s == job[c].slug
           p == [after |-> job[c].plan.after, before |-> live]
<1>1. /\ pc[c] = "seal" /\ UNCHANGED <<trees, live, claim, counts>>
      /\ Note(s, "sealed", FALSE, NoPlan, "none") /\ Goto(c, "publish")
      /\ job' = [job EXCEPT ![c].plan = [after |-> @.after, before |-> live]]
  BY DEF Seal, At, specs
<1>2. pc[c] \in Working /\ at' = at
  BY <1>1 DEF Working, trees
<1>3. /\ Standing /\ Aim(c) /\ Ground(c) /\ s \in Change /\ JobsShaped /\ pc \in [Command -> Anywhere]
  BY <1>2, Prior
<1>4. JournalsShaped' /\ Journals'
  BY <1>1, <1>2, <1>3, NoteStands
<1>5. job' = [job EXCEPT ![c].plan = p]
  BY <1>1, <1>3 DEF JobsShaped
<1>6. Images(p)
  BY <1>1, <1>3 DEF Aim, Images, Standing, Files
<1> HIDE DEF p
<1>7. /\ JobsShaped' /\ \A d \in Command : d # c => job'[d] = job[d]
      /\ job'[c].slug = s /\ job'[c].plan = p
  BY <1>3, <1>5, SetPlan
<1>8. pc'[c] = "publish"
  BY <1>1, <1>3 DEF Goto
<1>9. (Aim(c))'
  BY <1>3, <1>6, <1>7, <1>8 DEF Aim, Outset, Entered, Shown
<1>10. (Ground(c))'
  BY <1>1, <1>2, <1>3, <1>7, <1>8 DEF Ground, Clear, Entered, Shown
<1>11. QED
  BY <1>1, <1>2, <1>3, <1>4, <1>7, <1>9, <1>10, Turn, QuietStands

LEMMA PublishedKeeps ==
  ASSUME ArchiveInv, NEW c \in Command, Published(c)
  PROVE  Standing' /\ Duties'
<1> DEFINE s == job[c].slug
<1>1. /\ pc[c] = "published" /\ UNCHANGED <<trees, live, claim, counts, job>>
      /\ \/ Note(s, "recovery-required", FALSE, NoPlan, "none") /\ Goto(c, "unlock")
         \/ Note(s, "published", TRUE, NoPlan, "none") /\ Goto(c, "promote")
  BY DEF Published, Failed, At, specs
<1>2. pc[c] \in Working /\ at' = at /\ job' = job
  BY <1>1 DEF Working, trees
<1>3. /\ Standing /\ Aim(c) /\ Ground(c) /\ s \in Change /\ JobsShaped /\ pc \in [Command -> Anywhere]
  BY <1>2, Prior
<1>4. JournalsShaped' /\ Journals'
  BY <1>1, <1>2, <1>3, NoteStands
<1>5. JobsShaped' /\ Duties'
  <2>1. CASE Goto(c, "unlock")
    BY <1>2, <2>1, LeaveOff
  <2>2. CASE Goto(c, "promote")
    <3>1. "promote" \notin Outset \union Entered \union {"idle", "seal", "publish"} /\ "promote" \in Shown
      BY DEF Outset, Entered, Shown
    <3>2. Images(job[c].plan) /\ at[s]["archive"] # Absent
      BY <1>1, <1>3 DEF Aim, Ground, Shown
    <3>3. pc'[c] = "promote" => (Ground(c))'
      BY <1>2, <3>1, <3>2 DEF Ground
    <3>4. QED
      BY <1>2, <2>2, <3>1, <3>2, <3>3, Advance
  <2>3. QED
    BY <1>1, <2>1, <2>2
<1>6. QED
  BY <1>1, <1>3, <1>4, <1>5, QuietStands

LEMMA PromoteKeeps ==
  ASSUME ArchiveInv, NEW c \in Command, Promote(c)
  PROVE  Standing' /\ Duties'
<1> DEFINE s == job[c].slug
<1>1. /\ pc[c] = "promote" /\ UNCHANGED <<trees, live, claim, counts>>
      /\ \/ Goto(c, "finish") /\ job' = job /\ journal' = journal
         \/ /\ Note(s, "promotion-prepared", TRUE, job[c].plan, "prepared") /\ Goto(c, "entry")
            /\ job' = [job EXCEPT ![c].mode = "promote", ![c].i = 1]
  BY DEF Promote, At, specs
<1>2. pc[c] \in Working /\ at' = at
  BY <1>1 DEF Working, trees
<1>3. /\ Standing /\ Aim(c) /\ Ground(c) /\ s \in Change /\ JobsShaped /\ pc \in [Command -> Anywhere]
  BY <1>2, Prior
<1>4. Images(job[c].plan) /\ at[s]["archive"] # Absent
  BY <1>1, <1>3 DEF Aim, Ground, Shown
<1>5. JournalsShaped' /\ Journals'
  BY <1>1, <1>2, <1>3, <1>4, NoteStands, SilentStands
<1>6. JobsShaped' /\ Duties'
  <2>1. CASE Goto(c, "finish") /\ job' = job
    <3>1. "finish" \notin Outset \union Entered \union {"idle", "seal", "publish"} /\ "finish" \in Shown
      BY DEF Outset, Entered, Shown
    <3>2. pc'[c] = "finish" => (Ground(c))'
      BY <1>2, <1>4, <2>1, <3>1 DEF Ground
    <3>3. QED
      BY <1>2, <1>4, <2>1, <3>1, <3>2, Advance
  <2>2. CASE Goto(c, "entry") /\ job' = [job EXCEPT ![c].mode = "promote", ![c].i = 1]
    <3>1. /\ JobsShaped' /\ \A d \in Command : d # c => job'[d] = job[d]
          /\ job'[c].slug = s /\ job'[c].plan = job[c].plan /\ job'[c].i = 1
      BY <1>3, <2>2, SetModeAndPlace
    <3>2. pc'[c] = "entry"
      BY <1>3, <2>2 DEF Goto
    <3>3. 1 \in 1..Len(Entries(s))
      BY <1>3, EntriesAreFiles
    <3>4. (Aim(c))'
      BY <1>3, <1>4, <3>1, <3>2, <3>3 DEF Aim, Outset, Entered, Shown
    <3>5. (Ground(c))'
      BY <1>2, <1>4, <3>1, <3>2 DEF Ground, Clear, Entered, Shown
    <3>6. QED
      BY <1>2, <2>2, <3>1, <3>4, <3>5, Turn
  <2>3. QED
    BY <1>1, <2>1, <2>2
<1>7. QED
  BY <1>1, <1>3, <1>5, <1>6, QuietStands

LEMMA RecoverKeeps ==
  ASSUME ArchiveInv, NEW c \in Command, Recover(c)
  PROVE  Standing' /\ Duties'
<1> DEFINE s == job[c].slug
<1>1. /\ pc[c] = "begin" /\ UNCHANGED <<trees, journal, live, claim, counts>>
      /\ \/ Goto(c, "unlock") /\ job' = job
         \/ /\ journal[s].plan # NoPlan /\ Goto(c, "entry")
            /\ job' = [job EXCEPT ![c].plan = journal[s].plan, ![c].i = 1]
  BY DEF Recover, Recoverable, At, specs
<1>2. pc[c] \in Working /\ at' = at /\ journal' = journal
  BY <1>1 DEF Working, trees
<1>3. /\ Standing /\ Aim(c) /\ s \in Change /\ JobsShaped /\ pc \in [Command -> Anywhere]
  BY <1>2, Prior
<1>4. JobsShaped' /\ Duties'
  <2>1. CASE Goto(c, "unlock") /\ job' = job
    BY <1>2, <2>1, LeaveOff
  <2>2. CASE /\ journal[s].plan # NoPlan /\ Goto(c, "entry")
             /\ job' = [job EXCEPT ![c].plan = journal[s].plan, ![c].i = 1]
    <3>1. PICK plan : plan = journal[s].plan
      OBVIOUS
    <3>2. Images(plan)
      BY <1>3, <2>2, <3>1 DEF Standing, Journals
    <3>3. /\ JobsShaped' /\ \A d \in Command : d # c => job'[d] = job[d]
          /\ job'[c].slug = s /\ job'[c].plan = plan /\ job'[c].i = 1 /\ job'[c].mode = job[c].mode
      BY <1>3, <2>2, <3>1, SetPlanAndPlace
    <3>4. pc'[c] = "entry"
      BY <1>3, <2>2 DEF Goto
    <3>5. 1 \in 1..Len(Entries(s))
      BY <1>3, EntriesAreFiles
    <3>6. (Aim(c))'
      BY <1>3, <3>2, <3>3, <3>4, <3>5 DEF Aim, Outset, Entered, Shown
    <3>7. job[c].mode # "promote"
      BY <1>1, <1>3 DEF Aim, Outset
    <3>8. (Ground(c))'
      BY <3>3, <3>4, <3>7 DEF Ground, Shown
    <3>9. QED
      BY <1>2, <2>2, <3>3, <3>6, <3>8, Turn
  <2>3. QED
    BY <1>1, <2>1, <2>2
<1>5. QED
  BY <1>1, <1>2, <1>3, <1>4, QuietStands, SilentStands

LEMMA FinishKeeps ==
  ASSUME ArchiveInv, NEW c \in Command, Finish(c) \/ Complete(c) \/ FinalCheck(c)
  PROVE  Standing' /\ Duties'
<1> DEFINE s == job[c].slug
<1>1. /\ pc[c] \in {"finish", "complete", "final"} /\ UNCHANGED <<trees, live, claim, counts, job>>
      /\ \E place \in {"complete", "final", "unlock"} : Goto(c, place)
      /\ \/ journal' = [journal EXCEPT ![s].digest = FALSE]
         \/ journal' = journal
         \/ Note(s, "recovery-required", FALSE, NoPlan, "none")
         \/ \E promotion : Note(s, "completed", TRUE, job[c].plan, promotion)
  BY DEF Finish, Complete, FinalCheck, Failed, At, specs
<1>2. pc[c] \in Working /\ at' = at /\ job' = job
  BY <1>1 DEF Working, trees
<1>3. /\ Standing /\ Aim(c) /\ Ground(c) /\ s \in Change /\ JobsShaped /\ pc \in [Command -> Anywhere]
  BY <1>2, Prior
<1>4. Images(job[c].plan) /\ at[s]["archive"] # Absent
  BY <1>1, <1>3 DEF Aim, Ground, Shown
<1>5. JournalsShaped' /\ Journals'
  <2>1. CASE journal' = [journal EXCEPT ![s].digest = FALSE]
    <3>1. JournalShape(journal[s]) /\ journal = [t \in Change |-> journal[t]]
      BY <1>3 DEF Standing, Shapes, JournalsShaped
    <3>2. PICK digest : journal' = [journal EXCEPT ![s].digest = digest]
      BY <2>1
    <3>3. [journal[s] EXCEPT !.digest = digest]
            = [phase |-> journal[s].phase, digest |-> digest, plan |-> journal[s].plan, specs |-> journal[s].specs]
      BY <3>1 DEF JournalShape
    <3>4. Note(s, journal[s].phase, digest, journal[s].plan, journal[s].specs)
      BY <1>3, <3>1, <3>2, <3>3 DEF Note
    <3>5. /\ journal[s].plan = NoPlan \/ Images(journal[s].plan)
          /\ journal[s].phase \in {"none", "bare"} => Clear(s)
      BY <1>3 DEF Standing, Journals
    <3>6. PICK phase, plan, promotion : phase = journal[s].phase /\ plan = journal[s].plan /\ promotion = journal[s].specs
      OBVIOUS
    <3>7. QED
      BY <1>2, <1>3, <1>4, <3>4, <3>5, <3>6, NoteStands
  <2>2. CASE journal' = journal
    BY <1>2, <1>3, <2>2, SilentStands
  <2>3. CASE Note(s, "recovery-required", FALSE, NoPlan, "none")
    BY <1>2, <1>3, <2>3, NoteStands
  <2>4. ASSUME NEW promotion, Note(s, "completed", TRUE, job[c].plan, promotion)
        PROVE  JournalsShaped' /\ Journals'
    BY <1>2, <1>3, <1>4, <2>4, NoteStands
  <2>5. QED
    BY <1>1, <2>1, <2>2, <2>3, <2>4
<1>6. JobsShaped' /\ Duties'
  <2>1. PICK place \in {"complete", "final", "unlock"} : Goto(c, place)
    BY <1>1
  <2>2. place \notin Outset \union Entered \union {"idle", "seal", "publish"}
    BY DEF Outset, Entered
  <2>3. pc'[c] = place => (Ground(c))'
    BY <1>2, <1>4, <2>2 DEF Ground
  <2>4. QED
    BY <1>2, <1>4, <2>1, <2>2, <2>3, Advance
<1>7. QED
  BY <1>1, <1>3, <1>5, <1>6, QuietStands
-----------------------------------------------------------------------------
(* The directories. A row says where each copy of one change stands; it is    *)
(* right when all a person wrote is in it, outside the copy to publish.      *)
RowOf(row, own) == /\ row = [p \in Place |-> row[p]]
                   /\ \A p \in Place : row[p] \in TreeSet \union {Absent}
                   /\ own \subseteq TreeSet
                   /\ \A t \in own : \E p \in Place \ {"authorized"} : row[p] = t

LEMMA RowsAre ==
  ASSUME Standing, NEW s \in Change
  PROVE  RowOf(at[s], authored[s])
BY DEF Standing, Shapes, Trees, ChangeKept, RowOf

LEMMA RowStands ==
  ASSUME Standing, NEW s \in Change, NEW row, NEW own, RowOf(row, own),
         at' = [at EXCEPT ![s] = row], authored' = [authored EXCEPT ![s] = own]
  PROVE  /\ at' = [t \in Change |-> [p \in Place |-> at'[t][p]]] /\ authored' = [t \in Change |-> authored'[t]]
         /\ at'[s] = row /\ \A t \in Change : t # s => at'[t] = at[t]
         /\ Trees' /\ ChangeKept'
<1>1. at = [t \in Change |-> [p \in Place |-> at[t][p]]] /\ authored = [t \in Change |-> authored[t]]
  BY DEF Standing, Shapes
<1>2. at'[s] = row /\ \A t \in Change : t # s => at'[t] = at[t]
  BY <1>1
<1>3. authored'[s] = own /\ \A t \in Change : t # s => authored'[t] = authored[t]
  BY <1>1
<1>4. \A t \in Change : RowOf(at'[t], authored'[t])
  BY <1>2, <1>3, RowsAre
<1>5. at' = [t \in Change |-> at'[t]] /\ \A t \in Change : at'[t] = [p \in Place |-> at'[t][p]]
  BY <1>1, <1>4 DEF RowOf
<1>6. at' = [t \in Change |-> [p \in Place |-> at'[t][p]]]
  BY <1>5
<1>7. authored' = [t \in Change |-> authored'[t]]
  BY <1>1
<1>8. Trees' /\ ChangeKept'
  BY <1>4 DEF Trees, ChangeKept, RowOf
<1>9. QED
  BY <1>2, <1>6, <1>7, <1>8

(* A move takes the copy at one place to another.                            *)
LEMMA RowMoved ==
  ASSUME Standing, NEW s \in Change, NEW from \in Place, NEW to \in Place, from # to, Move(s, from, to)
  PROVE  \E row : /\ at' = [at EXCEPT ![s] = row] /\ row = [p \in Place |-> row[p]]
                  /\ row[to] = at[s][from] /\ row[from] = Absent
                  /\ \A p \in Place : p \notin {from, to} => row[p] = at[s][p]
<1> DEFINE half == [at[s] EXCEPT ![to] = at[s][from]]
           row == [half EXCEPT ![from] = Absent]
<1>1. at = [t \in Change |-> at[t]] /\ at[s] = [p \in Place |-> at[s][p]]
  BY DEF Standing, Shapes
<1>2. half = [p \in Place |-> half[p]] /\ half[to] = at[s][from]
      /\ \A p \in Place : p # to => half[p] = at[s][p]
  BY <1>1
<1>3. at' = [at EXCEPT ![s] = row]
  BY <1>1 DEF Move
<1> HIDE DEF half
<1>4. /\ row = [p \in Place |-> row[p]] /\ row[from] = Absent /\ row[to] = at[s][from]
      /\ \A p \in Place : p \notin {from, to} => row[p] = at[s][p]
  BY <1>2
<1>5. QED
  BY <1>3, <1>4

(* A step of the work on one change's directory leaves the rest alone.       *)
LEMMA PlacesStand ==
  ASSUME Standing, UNCHANGED <<live, claim, edits>>, events' \in Nat, JobsShaped', JournalsShaped', Journals',
         at' = [t \in Change |-> [p \in Place |-> at'[t][p]]], authored' = [t \in Change |-> authored'[t]],
         Trees', ChangeKept'
  PROVE  Standing'
<1>1. Shapes'
  BY DEF Standing, Shapes
<1>2. Files'
  BY DEF Standing, Files
<1>3. QED
  BY <1>1, <1>2 DEF Standing

LEMMA NoteMoves ==
  ASSUME Standing, NEW s \in Change, \A t \in Change : t # s => at'[t] = at[t],
         NEW phase \in {"copied", "recovery-required"}, Note(s, phase, FALSE, NoPlan, "none")
  PROVE  JournalsShaped' /\ Journals'
<1>1. PICK j : /\ j = [phase |-> phase, digest |-> FALSE, plan |-> NoPlan, specs |-> "none"]
               /\ journal' = [journal EXCEPT ![s] = j]
  BY DEF Note
<1>2. JournalShape(j) /\ j.plan = NoPlan /\ j.phase \notin {"none", "bare", "completed"}
  BY <1>1 DEF JournalShape
<1>3. journal = [t \in Change |-> journal[t]] /\ \A t \in Change : JournalShape(journal[t])
  BY DEF Standing, Shapes, JournalsShaped
<1>4. /\ journal' = [t \in Change |-> journal'[t]]
      /\ journal'[s] = j /\ \A t \in Change : t # s => journal'[t] = journal[t]
  BY <1>1, <1>3
<1>5. JournalsShaped'
  BY <1>2, <1>3, <1>4 DEF JournalsShaped
<1>6. Journals'
  BY <1>2, <1>4 DEF Standing, Journals, Clear
<1>7. QED
  BY <1>5, <1>6

LEMMA SilentMoves ==
  ASSUME Standing, NEW s \in Change, \A t \in Change : t # s => at'[t] = at[t], journal' = journal,
         journal[s].phase \in {"none", "bare"} => (Clear(s))',
         journal[s].phase = "completed" => at'[s]["archive"] # Absent
  PROVE  JournalsShaped' /\ Journals'
BY DEF Standing, Shapes, JournalsShaped, Journals, Clear

LEMMA IsolateKeeps ==
  ASSUME ArchiveInv, NEW c \in Command, Isolate(c)
  PROVE  Standing' /\ Duties'
<1> DEFINE s == job[c].slug
<1>1. /\ pc[c] = "isolate" /\ UNCHANGED <<authored, journal, live, claim, edits, events, job>>
      /\ \/ Goto(c, "unseal") /\ at' = at
         \/ Goto(c, "copy") /\ Move(s, "open", "original")
  BY DEF Isolate, At, specs, counts
<1>2. pc[c] \in Working
  BY <1>1 DEF Working
<1>3. /\ Standing /\ Aim(c) /\ Ground(c) /\ s \in Change /\ JobsShaped /\ pc \in [Command -> Anywhere]
  BY <1>2, Prior
<1>4. /\ Clear(s) /\ journal[s].phase \notin {"none", "bare"} /\ job[c].auth # Absent
  BY <1>1, <1>3 DEF Ground
<1>5. CASE Goto(c, "unseal") /\ at' = at
  <2>1. JobsShaped' /\ Duties'
    BY <1>1, <1>2, <1>4, <1>5, LeaveOff DEF Clear
  <2>2. UNCHANGED <<trees, live, claim, counts>>
    BY <1>1, <1>5 DEF trees, counts
  <2>3. QED
    BY <1>1, <1>3, <1>5, <2>1, <2>2, SilentStands, QuietStands
<1>6. CASE Goto(c, "copy") /\ Move(s, "open", "original")
  <2>1. "open" \in Place /\ "original" \in Place /\ "archive" \in Place
    BY DEF Place
  <2>2. PICK row : /\ at' = [at EXCEPT ![s] = row] /\ row = [p \in Place |-> row[p]]
                   /\ row["original"] = at[s]["open"] /\ row["open"] = Absent
                   /\ \A p \in Place : p \notin {"open", "original"} => row[p] = at[s][p]
    BY <1>3, <1>6, <2>1, RowMoved
  <2>3. RowOf(row, authored[s])
    <3>1. RowOf(at[s], authored[s])
      BY <1>3, RowsAre
    <3>2. \A p \in Place : row[p] \in TreeSet \union {Absent}
      BY <2>1, <2>2, <3>1 DEF RowOf
    <3>3. ASSUME NEW t \in authored[s] PROVE \E p \in Place \ {"authorized"} : row[p] = t
      <4>1. t # Absent
        BY <3>1, AbsentApart DEF RowOf
      <4>2. PICK p \in Place \ {"authorized"} : at[s][p] = t
        BY <3>1 DEF RowOf
      <4>3. p # "original"
        BY <1>4, <4>1, <4>2 DEF Clear
      <4>4. CASE p = "open"
        BY <2>1, <2>2, <4>2, <4>4
      <4>5. CASE p # "open"
        BY <2>2, <4>2, <4>3, <4>5
      <4>6. QED
        BY <4>4, <4>5
    <3>4. QED
      BY <2>2, <3>1, <3>2, <3>3 DEF RowOf
  <2>4. authored' = [authored EXCEPT ![s] = authored[s]]
    BY <1>1, <1>3 DEF Standing, Shapes
  <2>5. /\ at' = [t \in Change |-> [p \in Place |-> at'[t][p]]] /\ authored' = [t \in Change |-> authored'[t]]
        /\ at'[s] = row /\ \A t \in Change : t # s => at'[t] = at[t]
        /\ Trees' /\ ChangeKept'
    BY <1>3, <2>2, <2>3, <2>4, RowStands
  <2>6. at'[s]["archive"] = Absent
    BY <1>4, <2>1, <2>2, <2>5 DEF Clear
  <2>7. journal[s].phase # "completed"
    BY <1>3, <1>4 DEF Standing, Journals, Clear
  <2>8. JournalsShaped' /\ Journals'
    BY <1>1, <1>3, <1>4, <2>5, <2>7, SilentMoves
  <2>9. pc'[c] = "copy"
    BY <1>3, <1>6 DEF Goto
  <2>10. JobsShaped' /\ Duties'
    <3>1. "copy" \notin Outset \union Entered \union Shown \union {"idle", "seal", "publish"}
      BY DEF Outset, Entered, Shown
    <3>2. (Ground(c))'
      BY <1>1, <1>4, <2>6, <2>9, <3>1 DEF Ground
    <3>3. QED
      BY <1>1, <1>2, <1>6, <3>1, <3>2, Advance
  <2>11. QED
    BY <1>1, <1>3, <2>5, <2>8, <2>10, PlacesStand DEF Standing, Files
<1>7. QED
  BY <1>1, <1>5, <1>6

LEMMA CopyKeeps ==
  ASSUME ArchiveInv, NEW c \in Command, Copy(c)
  PROVE  Standing' /\ Duties'
<1> DEFINE s == job[c].slug
<1>1. /\ pc[c] = "copy" /\ UNCHANGED <<authored, live, claim, edits, events, job>>
      /\ \/ Goto(c, "unseal") /\ at' = at /\ journal' = journal
         \/ /\ at[s]["original"] = job[c].auth /\ at' = [at EXCEPT ![s]["authorized"] = at[s]["original"]]
            /\ Note(s, "copied", FALSE, NoPlan, "none") /\ Goto(c, "plan")
  BY DEF Copy, At, specs, counts
<1>2. pc[c] \in Working
  BY <1>1 DEF Working
<1>3. /\ Standing /\ Aim(c) /\ Ground(c) /\ s \in Change /\ JobsShaped /\ pc \in [Command -> Anywhere]
  BY <1>2, Prior
<1>4. job[c].auth # Absent /\ at[s]["archive"] = Absent
  BY <1>1, <1>3 DEF Ground
<1>5. CASE Goto(c, "unseal") /\ at' = at /\ journal' = journal
  <2>1. JobsShaped' /\ Duties'
    BY <1>1, <1>2, <1>4, <1>5, LeaveOff
  <2>2. UNCHANGED <<trees, live, claim, counts>>
    BY <1>1, <1>5 DEF trees, counts
  <2>3. QED
    BY <1>1, <1>3, <1>5, <2>1, <2>2, SilentStands, QuietStands
<1>6. CASE /\ at[s]["original"] = job[c].auth /\ at' = [at EXCEPT ![s]["authorized"] = at[s]["original"]]
           /\ Note(s, "copied", FALSE, NoPlan, "none") /\ Goto(c, "plan")
  <2>1. "authorized" \in Place /\ "original" \in Place /\ "archive" \in Place
    BY DEF Place
  <2>2. RowOf(at[s], authored[s])
    BY <1>3, RowsAre
  <2>3. PICK row : row = [at[s] EXCEPT !["authorized"] = at[s]["original"]]
    OBVIOUS
  <2>4. /\ row = [p \in Place |-> row[p]] /\ row["authorized"] = at[s]["original"]
        /\ \A p \in Place : p # "authorized" => row[p] = at[s][p]
    BY <2>1, <2>2, <2>3 DEF RowOf
  <2>5. RowOf(row, authored[s])
    BY <2>1, <2>2, <2>4 DEF RowOf
  <2>6. at' = [at EXCEPT ![s] = row] /\ authored' = [authored EXCEPT ![s] = authored[s]]
    BY <1>1, <1>3, <1>6, <2>3 DEF Standing, Shapes
  <2>7. /\ at' = [t \in Change |-> [p \in Place |-> at'[t][p]]] /\ authored' = [t \in Change |-> authored'[t]]
        /\ at'[s] = row /\ \A t \in Change : t # s => at'[t] = at[t]
        /\ Trees' /\ ChangeKept'
    BY <1>3, <2>5, <2>6, RowStands
  <2>8. JournalsShaped' /\ Journals'
    BY <1>3, <1>6, <2>7, NoteMoves
  <2>9. pc'[c] = "plan"
    BY <1>3, <1>6 DEF Goto
  <2>10. at'[s]["archive"] = Absent /\ at'[s]["authorized"] # Absent
    BY <1>4, <1>6, <2>1, <2>4, <2>7
  <2>11. JobsShaped' /\ Duties'
    <3>1. "plan" \notin Outset \union Entered \union Shown \union {"idle", "seal", "publish"}
      BY DEF Outset, Entered, Shown
    <3>2. (Ground(c))'
      BY <1>1, <2>9, <2>10, <3>1 DEF Ground
    <3>3. QED
      BY <1>1, <1>2, <1>6, <3>1, <3>2, Advance
  <2>12. QED
    BY <1>1, <1>3, <2>7, <2>8, <2>11, PlacesStand DEF Standing, Files
<1>7. QED
  BY <1>1, <1>5, <1>6

LEMMA PublishKeeps ==
  ASSUME ArchiveInv, NEW c \in Command, Publish(c)
  PROVE  Standing' /\ Duties'
<1> DEFINE s == job[c].slug
<1>1. /\ pc[c] = "publish" /\ UNCHANGED <<authored, journal, live, claim, edits, events, job>>
      /\ Goto(c, "published") /\ Move(s, "authorized", "archive")
  BY DEF Publish, At, specs, counts
<1>2. pc[c] \in Working
  BY <1>1 DEF Working
<1>3. /\ Standing /\ Aim(c) /\ Ground(c) /\ s \in Change /\ JobsShaped /\ pc \in [Command -> Anywhere]
  BY <1>2, Prior
<1>4. /\ at[s]["archive"] = Absent /\ at[s]["authorized"] # Absent /\ Images(job[c].plan)
  BY <1>1, <1>3 DEF Ground, Aim
<1>5. "authorized" \in Place /\ "archive" \in Place
  BY DEF Place
<1>6. PICK row : /\ at' = [at EXCEPT ![s] = row] /\ row = [p \in Place |-> row[p]]
                 /\ row["archive"] = at[s]["authorized"] /\ row["authorized"] = Absent
                 /\ \A p \in Place : p \notin {"authorized", "archive"} => row[p] = at[s][p]
  BY <1>1, <1>3, <1>5, RowMoved
<1>7. RowOf(row, authored[s])
  <2>1. RowOf(at[s], authored[s])
    BY <1>3, RowsAre
  <2>2. \A p \in Place : row[p] \in TreeSet \union {Absent}
    BY <1>5, <1>6, <2>1 DEF RowOf
  <2>3. ASSUME NEW t \in authored[s] PROVE \E p \in Place \ {"authorized"} : row[p] = t
    <3>1. t # Absent
      BY <2>1, AbsentApart DEF RowOf
    <3>2. PICK p \in Place \ {"authorized"} : at[s][p] = t
      BY <2>1 DEF RowOf
    <3>3. p # "archive"
      BY <1>4, <3>1, <3>2
    <3>4. QED
      BY <1>6, <3>2, <3>3
  <2>4. QED
    BY <1>6, <2>1, <2>2, <2>3 DEF RowOf
<1>8. authored' = [authored EXCEPT ![s] = authored[s]]
  BY <1>1, <1>3 DEF Standing, Shapes
<1>9. /\ at' = [t \in Change |-> [p \in Place |-> at'[t][p]]] /\ authored' = [t \in Change |-> authored'[t]]
      /\ at'[s] = row /\ \A t \in Change : t # s => at'[t] = at[t]
      /\ Trees' /\ ChangeKept'
  BY <1>3, <1>6, <1>7, <1>8, RowStands
<1>10. at'[s]["archive"] # Absent
  BY <1>4, <1>6, <1>9
<1>11. journal[s].phase \notin {"none", "bare"}
  BY <1>3, <1>4 DEF Standing, Journals, Clear
<1>12. JournalsShaped' /\ Journals'
  BY <1>1, <1>3, <1>9, <1>10, <1>11, SilentMoves
<1>13. JobsShaped' /\ Duties'
  <2>1. "published" \notin Outset \union Entered \union {"idle", "seal", "publish"}
    BY DEF Outset, Entered
  <2>2. pc'[c] = "published" => (Ground(c))'
    BY <1>1, <1>10, <2>1 DEF Ground
  <2>3. QED
    BY <1>1, <1>2, <1>4, <2>1, <2>2, Advance
<1>14. QED
  BY <1>1, <1>3, <1>9, <1>12, <1>13, PlacesStand DEF Standing, Files

LEMMA UnsealKeeps ==
  ASSUME ArchiveInv, NEW c \in Command, Unseal(c)
  PROVE  Standing' /\ Duties'
<1> DEFINE s == job[c].slug
           back == IF at[s]["original"] # Absent THEN at[s]["original"] ELSE at[s]["open"]
<1>1. /\ pc[c] = "unseal" /\ UNCHANGED <<authored, live, claim, edits, events, job>>
      /\ \/ /\ at' = [at EXCEPT ![s]["authorized"] = Absent]
            /\ Note(s, "recovery-required", FALSE, NoPlan, "none") /\ Goto(c, "unlock")
         \/ /\ at[s]["original"] = Absent \/ at[s]["open"] = Absent
            /\ at' = [at EXCEPT ![s]["authorized"] = Absent,
                                ![s]["open"] = IF at[s]["original"] # Absent THEN at[s]["original"] ELSE @,
                                ![s]["original"] = Absent]
            /\ Goto(c, "erase") /\ journal' = journal
  BY DEF Unseal, At, specs, counts
<1>2. pc[c] \in Working
  BY <1>1 DEF Working
<1>3. /\ Standing /\ Aim(c) /\ Ground(c) /\ s \in Change /\ JobsShaped /\ pc \in [Command -> Anywhere]
  BY <1>2, Prior
<1>4. at[s]["archive"] = Absent
  BY <1>1, <1>3 DEF Ground
<1>5. RowOf(at[s], authored[s]) /\ authored' = [authored EXCEPT ![s] = authored[s]]
  BY <1>1, <1>3, RowsAre DEF Standing, Shapes
<1>6. {"authorized", "archive", "open", "original"} \subseteq Place
  BY DEF Place
<1>7. PICK cut : cut = [at[s] EXCEPT !["authorized"] = Absent]
  OBVIOUS
<1>8. /\ cut = [p \in Place |-> cut[p]] /\ cut["authorized"] = Absent
      /\ \A p \in Place : p # "authorized" => cut[p] = at[s][p]
  BY <1>5, <1>6, <1>7 DEF RowOf
<1>9. CASE /\ at' = [at EXCEPT ![s]["authorized"] = Absent]
           /\ Note(s, "recovery-required", FALSE, NoPlan, "none") /\ Goto(c, "unlock")
  <2>1. RowOf(cut, authored[s])
    BY <1>5, <1>8 DEF RowOf
  <2>2. at' = [at EXCEPT ![s] = cut]
    BY <1>3, <1>7, <1>9 DEF Standing, Shapes
  <2>3. /\ at' = [t \in Change |-> [p \in Place |-> at'[t][p]]] /\ authored' = [t \in Change |-> authored'[t]]
        /\ at'[s] = cut /\ \A t \in Change : t # s => at'[t] = at[t]
        /\ Trees' /\ ChangeKept'
    BY <1>3, <1>5, <2>1, <2>2, RowStands
  <2>4. JournalsShaped' /\ Journals'
    BY <1>3, <1>9, <2>3, NoteMoves
  <2>5. JobsShaped' /\ Duties'
    BY <1>1, <1>2, <1>9, LeaveOff
  <2>6. QED
    BY <1>1, <1>3, <2>3, <2>4, <2>5, PlacesStand DEF Standing, Files
<1>10. CASE /\ at[s]["original"] = Absent \/ at[s]["open"] = Absent
            /\ at' = [at EXCEPT ![s]["authorized"] = Absent,
                                ![s]["open"] = IF at[s]["original"] # Absent THEN at[s]["original"] ELSE @,
                                ![s]["original"] = Absent]
            /\ Goto(c, "erase") /\ journal' = journal
  <2>1. PICK half : half = [cut EXCEPT !["open"] = back]
    OBVIOUS
  <2>2. /\ half = [p \in Place |-> half[p]] /\ half["open"] = back
        /\ \A p \in Place : p # "open" => half[p] = cut[p]
    BY <1>6, <1>8, <2>1
  <2>3. PICK row : row = [half EXCEPT !["original"] = Absent]
    OBVIOUS
  <2>4. /\ row = [p \in Place |-> row[p]] /\ row["original"] = Absent
        /\ \A p \in Place : p # "original" => row[p] = half[p]
    BY <1>6, <2>2, <2>3
  <2>5. /\ row["open"] = back /\ row["authorized"] = Absent /\ row["archive"] = Absent
        /\ \A p \in Place : p \notin {"open", "original", "authorized"} => row[p] = at[s][p]
    BY <1>4, <1>6, <1>8, <2>2, <2>4
  <2>6. at' = [at EXCEPT ![s] = row]
    <3>1. at = [t \in Change |-> at[t]] /\ cut["open"] = at[s]["open"]
      BY <1>3, <1>6, <1>8 DEF Standing, Shapes
    <3>2. PICK a : a = [at EXCEPT ![s]["authorized"] = Absent]
      OBVIOUS
    <3>3. a = [at EXCEPT ![s] = cut]
      BY <1>3, <1>7, <3>1, <3>2
    <3>4. a = [t \in Change |-> a[t]] /\ a[s] = cut
      BY <1>3, <3>1, <3>3
    <3>5. PICK b : b = [a EXCEPT ![s]["open"] = IF at[s]["original"] # Absent THEN at[s]["original"] ELSE @]
      OBVIOUS
    <3>6. b = [a EXCEPT ![s] = half]
      BY <1>3, <2>1, <3>1, <3>4, <3>5
    <3>7. b = [t \in Change |-> b[t]] /\ b[s] = half
      BY <1>3, <3>4, <3>6
    <3>8. at' = [b EXCEPT ![s]["original"] = Absent]
      BY <1>10, <3>2, <3>5
    <3>9. at' = [b EXCEPT ![s] = row]
      BY <1>3, <2>3, <3>7, <3>8
    <3>10. QED
      BY <1>3, <3>1, <3>3, <3>6, <3>9
  <2>7. RowOf(row, authored[s])
    <3>1. \A p \in Place : row[p] \in TreeSet \union {Absent}
      BY <1>5, <1>6, <2>4, <2>5 DEF RowOf
    <3>2. ASSUME NEW t \in authored[s] PROVE \E p \in Place \ {"authorized"} : row[p] = t
      <4>1. t # Absent
        BY <1>5, AbsentApart DEF RowOf
      <4>2. PICK p \in Place \ {"authorized"} : at[s][p] = t
        BY <1>5 DEF RowOf
      <4>3. CASE p \in {"open", "original"}
        BY <1>6, <1>10, <2>5, <4>1, <4>2, <4>3
      <4>4. CASE p \notin {"open", "original"}
        BY <2>5, <4>2, <4>4
      <4>5. QED
        BY <4>3, <4>4
    <3>3. QED
      BY <1>5, <2>4, <3>1, <3>2 DEF RowOf
  <2>8. /\ at' = [t \in Change |-> [p \in Place |-> at'[t][p]]] /\ authored' = [t \in Change |-> authored'[t]]
        /\ at'[s] = row /\ \A t \in Change : t # s => at'[t] = at[t]
        /\ Trees' /\ ChangeKept'
    BY <1>3, <1>5, <2>6, <2>7, RowStands
  <2>9. at'[s]["original"] = Absent /\ at'[s]["authorized"] = Absent /\ at'[s]["archive"] = Absent
    BY <2>4, <2>5, <2>8
  <2>10. journal[s].phase # "completed"
    BY <1>3, <1>4 DEF Standing, Journals
  <2>11. JournalsShaped' /\ Journals'
    <3>1. PICK slug \in Change : slug = s
      BY <1>3
    <3>2. (Clear(slug))'
      BY <2>9, <3>1 DEF Clear
    <3>3. QED
      BY <1>3, <1>10, <2>8, <2>10, <3>1, <3>2, SilentMoves
  <2>12. JobsShaped' /\ Duties'
    <3>1. "erase" \notin Outset \union Entered \union Shown \union {"idle", "seal", "publish"}
      BY DEF Outset, Entered, Shown
    <3>2. pc'[c] = "erase" => (Ground(c))'
      BY <1>1, <2>9, <3>1 DEF Ground, Clear
    <3>3. QED
      BY <1>1, <1>2, <1>10, <3>1, <3>2, Advance
  <2>13. QED
    BY <1>1, <1>3, <2>8, <2>11, <2>12, PlacesStand DEF Standing, Files
<1>11. QED
  BY <1>1, <1>9, <1>10
-----------------------------------------------------------------------------
(* What people do. No command's place, job or journal is touched.            *)
LEMMA Bystander ==
  ASSUME NEW d, Aim(d), Ground(d), pc'[d] = pc[d], job'[d] = job[d], journal' = journal,
         \A p \in {"original", "authorized", "archive"} : at'[job[d].slug][p] = at[job[d].slug][p]
  PROVE  (Aim(d) /\ Ground(d))'
<1>1. (Aim(d))'
  BY DEF Aim
<1>2. (Ground(d))'
  <2>1. /\ at'[job[d].slug]["original"] = at[job[d].slug]["original"]
        /\ at'[job[d].slug]["authorized"] = at[job[d].slug]["authorized"]
        /\ at'[job[d].slug]["archive"] = at[job[d].slug]["archive"]
    OBVIOUS
  <2>2. QED
    BY <2>1 DEF Ground, Clear
<1>3. QED
  BY <1>1, <1>2

LEMMA SameGrip ==
  ASSUME NEW d, Grip(d), pc'[d] = pc[d], job'[d] = job[d], live' = live, claim' = claim
  PROVE  (Grip(d))'
BY DEF Grip, Known, Saved, Claim, Here, Image, Forward

LEMMA SaveSpecKeeps ==
  ASSUME ArchiveInv, NEW e \in Edit, NEW k \in Savable, SaveSpec(e, k)
  PROVE  Standing' /\ Duties'
<1>1. /\ UNCHANGED <<pc, job, journal, at, authored, events>> /\ edits' = edits \union {e}
      /\ \/ live' = [live EXCEPT ![k] = With(live[k], e)] /\ claim' = claim
         \/ \E s \in Change : /\ claim[s][k] # Absent /\ live' = live
                              /\ claim' = [claim EXCEPT ![s][k] = With(claim[s][k], e)]
  <2>1. UNCHANGED <<pc, job, journal, at, authored, events>> /\ edits' = edits \union {e}
    BY DEF SaveSpec, lockVars, trees
  <2>2. Standing
    BY DEF ArchiveInv
  <2>3. /\ live = [f \in File |-> live[f]] /\ claim = [s \in Change |-> [f \in File |-> claim[s][f]]]
        /\ k \in File
    BY <2>2, FilesApart, ArchiveAssumption DEF Standing, Shapes
  <2>4. CASE live' = [live EXCEPT ![k] = With(@, e)] /\ claim' = claim
    BY <2>1, <2>3, <2>4
  <2>5. ASSUME NEW s \in Change, claim[s][k] # Absent, claim' = [claim EXCEPT ![s][k] = With(@, e)], live' = live
        PROVE  claim' = [claim EXCEPT ![s][k] = With(claim[s][k], e)]
    BY <2>3, <2>5
  <2>6. QED
    BY <2>1, <2>4, <2>5 DEF SaveSpec
<1>2. /\ Standing /\ k \in File /\ k \in Capability /\ e \in Change \union Edit
      /\ \A d \in Command : Aim(d) /\ Ground(d) /\ Grip(d)
  BY FilesApart, ArchiveAssumption DEF ArchiveInv, Duties
<1>3. live[k] \in Content /\ \A s \in Change : claim[s][k] \in Content
  BY <1>2, FilesApart DEF Standing, Files, IsFile
<1>4. \A content \in Content : IsFile(k, With(content, e)) /\ With(content, e) # Absent
                               /\ With(content, e) \cap Edit # {}
  <2>1. \A content \in Content : With(content, e) \in Content /\ With(content, e) # Absent /\ e \in With(content, e)
    BY <1>2, WithIsContent
  <2>2. QED
    BY <1>2, <2>1, FilesApart DEF IsFile
<1>5. \A d \in Command : (Aim(d) /\ Ground(d))'
  BY <1>1, <1>2, Bystander
<1>6. JobsShaped' /\ JournalsShaped' /\ Journals'
  BY <1>1, <1>2, SameJobs, SilentStands DEF Standing, Shapes
<1>7. CASE live' = [live EXCEPT ![k] = With(live[k], e)] /\ claim' = claim
  <2>1. PICK content : content = With(live[k], e)
    OBVIOUS
  <2>2. IsFile(k, content) /\ content # Absent /\ content \cap Edit # {}
    BY <1>3, <1>4, <2>1
  <2>3. /\ live' = [f \in File |-> live'[f]] /\ \A f \in File : IsFile(f, live'[f])
        /\ live'[k] = content /\ \A f \in File : f # k => live'[f] = live[f]
    BY <1>2, <1>7, <2>1, <2>2, LiveIsSet
  <2>4. ASSUME NEW d \in Command PROVE (Grip(d))'
    <3>1. CASE pc[d] = "claim"
      <4>1. Here(d) \in File
        BY <1>2, <3>1, HereIsFile DEF Entered
      <4>2. CASE Here(d) = k
        <5>1. Saved(d, live'[Here(d)])
          BY <1>2, <2>2, <2>3, <4>2 DEF Saved
        <5>2. QED
          BY <1>1, <1>2, <1>7, <3>1, <5>1 DEF Grip, Known, Saved, Claim, Here, Image, Forward
      <4>3. CASE Here(d) # k
        <5>1. live'[Here(d)] = live[Here(d)]
          BY <2>3, <4>1, <4>3
        <5>2. QED
          BY <1>1, <1>2, <1>7, <3>1, <5>1 DEF Grip, Known, Saved, Claim, Here, Image, Forward
      <4>4. QED
        BY <4>2, <4>3
    <3>2. CASE pc[d] # "claim"
      BY <1>1, <1>2, <1>7, <3>2 DEF Grip, Known, Saved, Claim, Here, Image, Forward
    <3>3. QED
      BY <3>1, <3>2
  <2>5. Shapes'
    BY <1>1, <1>2, <1>6, <1>7, <2>3 DEF Standing, Shapes
  <2>6. Files'
    BY <1>1, <1>2, <1>7, <2>3 DEF Standing, Files
  <2>7. Trees' /\ ChangeKept'
    BY <1>1, <1>2 DEF Standing, Trees, ChangeKept
  <2>8. QED
    BY <1>5, <1>6, <2>4, <2>5, <2>6, <2>7 DEF Standing, Duties
<1>8. ASSUME NEW s \in Change, claim[s][k] # Absent, live' = live,
             claim' = [claim EXCEPT ![s][k] = With(claim[s][k], e)]
      PROVE  Standing' /\ Duties'
  <2>1. PICK content : content = With(claim[s][k], e)
    OBVIOUS
  <2>2. IsFile(k, content) /\ content # Absent /\ content \cap Edit # {}
    BY <1>3, <1>4, <2>1
  <2>3. /\ Standing /\ s \in Change /\ k \in File /\ IsFile(k, content)
        /\ claim' = [claim EXCEPT ![s] = [claim[s] EXCEPT ![k] = content]]
    BY <1>2, <1>8, <2>1, <2>2 DEF Standing, Shapes
  <2>4. /\ claim' = [t \in Change |-> [f \in File |-> claim'[t][f]]]
        /\ \A t \in Change : \A f \in File : IsFile(f, claim'[t][f])
        /\ claim'[s][k] = content
    BY ONLY <2>3, ClaimIsSet
  <2>5. \A t \in Change : \A f \in File : t # s \/ f # k => claim'[t][f] = claim[t][f]
    BY ONLY <2>3, ClaimIsSet
  <2>6. ASSUME NEW d \in Command, pc[d] \in {"claim", "recheck", "restore"} PROVE (Grip(d))'
    <3>1. job[d].slug \in Change /\ Here(d) \in File
      BY <1>2, <2>6, HereIsFile DEF Entered
    <3>2. CASE job[d].slug = s /\ Here(d) = k
      <4>1. pc[d] # "claim"
        BY <1>2, <1>8, <3>2 DEF Grip, Claim
      <4>2. Saved(d, claim'[job[d].slug][Here(d)])
        BY <1>2, <2>2, <2>4, <3>2 DEF Saved
      <4>3. QED
        BY <1>1, <2>6, <4>1, <4>2 DEF Grip, Known, Saved, Claim, Here, Image, Forward
    <3>3. CASE job[d].slug # s \/ Here(d) # k
      <4>1. claim'[job[d].slug][Here(d)] = claim[job[d].slug][Here(d)]
        BY <2>5, <3>1, <3>3
      <4>2. QED
        <5>1. /\ (Here(d))' = Here(d) /\ (Claim(d))' = Claim(d) /\ pc'[d] = pc[d]
              /\ \A x : ((Known(d, x))' <=> Known(d, x)) /\ ((Saved(d, x))' <=> Saved(d, x))
          BY <1>1, <4>1 DEF Known, Saved, Claim, Here, Image, Forward
        <5>2. QED
          BY <1>2, <1>8, <5>1 DEF Grip
    <3>4. QED
      BY <3>2, <3>3
  <2>7. \A d \in Command : (Grip(d))'
    BY <1>1, <2>6 DEF Grip
  <2>8. Shapes'
    BY <1>1, <1>2, <1>6, <1>8, <2>4 DEF Standing, Shapes
  <2>9. Files'
    BY <1>1, <1>2, <1>8, <2>4 DEF Standing, Files
  <2>10. Trees' /\ ChangeKept'
    BY <1>1, <1>2 DEF Standing, Trees, ChangeKept
  <2>11. QED
    BY <1>5, <1>6, <2>7, <2>8, <2>9, <2>10 DEF Standing, Duties
<1>9. QED
  BY <1>1, <1>7, <1>8

(* A person's step in the change's own directory.                            *)
LEMMA PersonMoves ==
  ASSUME ArchiveInv, NEW s \in Change, NEW row, NEW own, RowOf(row, own), Touch,
         at' = [at EXCEPT ![s] = row], authored' = [authored EXCEPT ![s] = own],
         \A p \in {"original", "authorized", "archive"} : row[p] = at[s][p]
  PROVE  Standing' /\ Duties'
<1>1. /\ UNCHANGED <<pc, job, journal, live, claim, edits>> /\ events' = events + 1
      /\ Standing /\ \A d \in Command : Aim(d) /\ Ground(d) /\ Grip(d)
  BY DEF Touch, lockVars, specs, ArchiveInv, Duties
<1>2. /\ at' = [t \in Change |-> [p \in Place |-> at'[t][p]]] /\ authored' = [t \in Change |-> authored'[t]]
      /\ at'[s] = row /\ \A t \in Change : t # s => at'[t] = at[t]
      /\ Trees' /\ ChangeKept'
  BY <1>1, RowStands
<1>3. \A t \in Change : \A p \in {"original", "authorized", "archive"} : at'[t][p] = at[t][p]
  BY <1>2
<1>4. \A t \in Change : (Clear(t))' <=> Clear(t)
  <2>1. ASSUME NEW t \in Change PROVE (Clear(t))' <=> Clear(t)
    BY <1>3 DEF Clear
  <2>2. QED
    BY <2>1
<1>5. JournalsShaped' /\ Journals'
  BY <1>1, <1>3, <1>4 DEF Standing, Shapes, JournalsShaped, Journals
<1>6. JobsShaped'
  BY <1>1, SameJobs DEF Standing, Shapes
<1>7. events' \in Nat
  BY <1>1 DEF Standing, Files
<1>8. Standing'
  BY <1>1, <1>2, <1>5, <1>6, <1>7, PlacesStand
<1>9. ASSUME NEW d \in Command PROVE (Aim(d) /\ Ground(d) /\ Grip(d))'
  <2>1. (Grip(d))'
    BY <1>1, SameGrip
  <2>2. CASE job[d].slug \in Change
    BY <1>1, <1>3, <2>1, <2>2, Bystander
  <2>3. CASE pc[d] = "idle"
    <3>1. pc'[d] = "idle"
      BY <1>1, <2>3
    <3>2. (Aim(d))' /\ (Ground(d))'
      BY <3>1 DEF Aim, Ground, Outset, Entered, Shown
    <3>3. QED
      BY <2>1, <3>2
  <2>4. QED
    BY <1>1, <2>2, <2>3 DEF Aim
<1>10. QED
  BY <1>8, <1>9 DEF Duties

LEMMA AuthorMoves ==
  ASSUME ArchiveInv, NEW s \in Change, NEW tree \in TreeSet, NEW old, Touch, Author(s, tree, old),
         old = {at[s]["open"]}
  PROVE  Standing' /\ Duties'
<1>1. Standing /\ RowOf(at[s], authored[s]) /\ "open" \in Place
  BY RowsAre DEF ArchiveInv, Place
<1>2. PICK row : row = [at[s] EXCEPT !["open"] = tree]
  OBVIOUS
<1>3. PICK own : own = (authored[s] \ old) \union {tree}
  OBVIOUS
<1>4. /\ row = [p \in Place |-> row[p]] /\ row["open"] = tree
      /\ \A p \in Place : p # "open" => row[p] = at[s][p]
  BY <1>1, <1>2 DEF RowOf
<1>5. RowOf(row, own)
  <2>1. ASSUME NEW t \in own PROVE \E p \in Place \ {"authorized"} : row[p] = t
    <3>1. CASE t = tree
      BY <1>1, <1>4, <3>1
    <3>2. CASE t # tree
      <4>1. t \in authored[s] /\ t # at[s]["open"]
        BY <1>3, <3>2
      <4>2. PICK p \in Place \ {"authorized"} : at[s][p] = t
        BY <1>1, <4>1 DEF RowOf
      <4>3. QED
        BY <1>4, <4>1, <4>2
    <3>3. QED
      BY <3>1, <3>2
  <2>2. own \subseteq TreeSet /\ \A p \in Place : row[p] \in TreeSet \union {Absent}
    BY <1>1, <1>3, <1>4 DEF RowOf
  <2>3. QED
    BY <1>4, <2>1, <2>2 DEF RowOf
<1>6. at' = [at EXCEPT ![s] = row] /\ authored' = [authored EXCEPT ![s] = own]
  BY <1>1, <1>2, <1>3 DEF Author, Standing, Shapes
<1>7. \A p \in {"original", "authorized", "archive"} : row[p] = at[s][p]
  BY <1>4 DEF Place
<1>8. QED
  BY <1>5, <1>6, <1>7, PersonMoves

LEMMA PeopleKeep ==
  ASSUME ArchiveInv, NEW s \in Change, EditChange(s) \/ Rebase(s) \/ Reopen(s) \/ Abandon(s)
  PROVE  Standing' /\ Duties'
<1>1. Standing /\ RowOf(at[s], authored[s]) /\ "open" \in Place /\ Touch
  BY RowsAre DEF ArchiveInv, Place, EditChange, Rebase, Reopen, Abandon
<1>2. events' \in Nat /\ Specs \in [Capability -> Content]
  BY <1>1, SpecsAreContents DEF Touch, Standing, Files
<1>3. Tree(events', Specs) \in TreeSet
  BY <1>2 DEF Tree, TreeSet
<1>4. CASE EditChange(s)
  <2>1. at[s]["open"] \in TreeSet
    BY <1>1, <1>4 DEF EditChange, RowOf
  <2>2. [at[s]["open"] EXCEPT !.rev = events'] \in TreeSet
    BY <1>2, <2>1 DEF TreeSet
  <2>3. PICK tree \in TreeSet : tree = [at[s]["open"] EXCEPT !.rev = events']
    BY <2>2
  <2>4. Author(s, tree, {at[s]["open"]})
    BY <1>4, <2>3 DEF EditChange
  <2>5. QED
    BY <1>1, <2>4, AuthorMoves
<1>5. CASE Rebase(s)
  <2>1. PICK tree \in TreeSet : tree = Tree(events', Specs)
    BY <1>3
  <2>2. Author(s, tree, {at[s]["open"]})
    BY <1>5, <2>1 DEF Rebase
  <2>3. QED
    BY <1>1, <2>2, AuthorMoves
<1>6. CASE Reopen(s)
  <2>1. PICK tree \in TreeSet : tree = Tree(events', Specs)
    BY <1>3
  <2>2. authored[s] \ {} = authored[s] \ {at[s]["open"]}
    BY <1>1, <1>6, AbsentApart DEF Reopen, RowOf
  <2>3. Author(s, tree, {at[s]["open"]})
    BY <1>1, <1>6, <2>1, <2>2 DEF Reopen, Author, Standing, Shapes
  <2>4. QED
    BY <1>1, <2>3, AuthorMoves
<1>7. CASE Abandon(s)
  <2>1. "abandoned" \in Place /\ Move(s, "open", "abandoned") /\ authored' = authored /\ at[s]["abandoned"] = Absent
    BY <1>7 DEF Abandon, Place
  <2>2. PICK row : /\ at' = [at EXCEPT ![s] = row] /\ row = [p \in Place |-> row[p]]
                   /\ row["abandoned"] = at[s]["open"] /\ row["open"] = Absent
                   /\ \A p \in Place : p \notin {"open", "abandoned"} => row[p] = at[s][p]
    BY <1>1, <2>1, RowMoved
  <2>3. RowOf(row, authored[s])
    <3>1. ASSUME NEW t \in authored[s] PROVE \E p \in Place \ {"authorized"} : row[p] = t
      <4>1. t # Absent
        BY <1>1, AbsentApart DEF RowOf
      <4>2. PICK p \in Place \ {"authorized"} : at[s][p] = t
        BY <1>1 DEF RowOf
      <4>3. p # "abandoned"
        BY <2>1, <4>1, <4>2
      <4>4. CASE p = "open"
        BY <2>1, <2>2, <4>2, <4>4
      <4>5. CASE p # "open"
        BY <2>2, <4>2, <4>3, <4>5
      <4>6. QED
        BY <4>4, <4>5
    <3>2. \A p \in Place : row[p] \in TreeSet \union {Absent}
      BY <1>1, <2>1, <2>2 DEF RowOf
    <3>3. QED
      BY <1>1, <2>2, <3>1, <3>2 DEF RowOf
  <2>4. authored' = [authored EXCEPT ![s] = authored[s]]
    BY <1>1, <2>1 DEF Standing, Shapes
  <2>5. \A p \in {"original", "authorized", "archive"} : row[p] = at[s][p]
    BY <2>2 DEF Place
  <2>6. QED
    BY <1>1, <2>2, <2>3, <2>4, <2>5, PersonMoves
<1>8. QED
  BY <1>4, <1>5, <1>6, <1>7
-----------------------------------------------------------------------------
(* The steps outside the work: a command starts, waits for the lock, dies.   *)
LEMMA AsideStands ==
  ASSUME ArchiveInv, NEW c \in Command, NEW place \in Anywhere, Goto(c, place),
         UNCHANGED <<trees, journal, live, claim, edits>>, events' \in Nat,
         JobsShaped', \A d \in Command : d # c => job'[d] = job[d],
         (Aim(c) /\ Ground(c) /\ Grip(c))'
  PROVE  Standing' /\ Duties'
<1>1. Standing /\ pc \in [Command -> Anywhere] /\ \A d \in Command : Aim(d) /\ Ground(d) /\ Grip(d)
  BY DEF ArchiveInv, Duties, LockInv, LockType
<1>2. at' = at /\ authored' = authored /\ live' = live /\ claim' = claim /\ journal' = journal
  BY DEF trees
<1>3. ASSUME NEW d \in Command, d # c PROVE (Aim(d) /\ Ground(d) /\ Grip(d))'
  <2>1. pc'[d] = pc[d] /\ job'[d] = job[d]
    BY <1>1, <1>3 DEF Goto
  <2>2. QED
    BY <1>1, <1>2, <2>1, Bystander, SameGrip
<1>4. Duties'
  BY <1>3 DEF Duties
<1>5. JournalsShaped' /\ Journals'
  BY <1>1, <1>2, SilentStands
<1>6. Shapes'
  BY <1>1, <1>2, <1>5 DEF Standing, Shapes
<1>7. Files' /\ Trees' /\ ChangeKept'
  BY <1>1, <1>2 DEF Standing, Files, Trees, ChangeKept
<1>8. QED
  BY <1>4, <1>5, <1>6, <1>7 DEF Standing

LEMMA AwayIsClear ==
  ASSUME NEW c, pc'[c] \in {"idle", "lock", "reap", "prune", "leave", "begin"},
         pc'[c] # "idle" => job'[c].slug \in Change, pc'[c] \in Outset => job'[c].mode # "promote"
  PROVE  (Aim(c) /\ Ground(c) /\ Grip(c))'
<1>1. pc'[c] \notin Entered \union Shown \union {"seal", "publish"}
  BY DEF Entered, Shown
<1>2. (Aim(c))'
  BY <1>1 DEF Aim
<1>3. (Ground(c))'
  BY <1>1 DEF Ground
<1>4. (Grip(c))'
  BY DEF Grip
<1>5. QED
  BY <1>2, <1>3, <1>4

LEMMA StartKeeps ==
  ASSUME ArchiveInv, NEW c \in Command, NEW s \in Change, NEW mode \in {"archive", "resume", "rollback"},
         Start(c, s, mode)
  PROVE  Standing' /\ Duties'
<1>1. /\ UNCHANGED <<trees, journal, live, claim, edits>> /\ events' = events + 1 /\ Goto(c, "lock")
      /\ job' = [job EXCEPT ![c] = [NoJob EXCEPT !.slug = s, !.mode = mode]]
  BY DEF Start, specs
<1>2. Standing /\ JobsShaped /\ pc \in [Command -> Anywhere] /\ events \in Nat
  BY DEF ArchiveInv, Standing, Shapes, Files, LockInv, LockType
<1>3. PICK j : j = [NoJob EXCEPT !.slug = s, !.mode = mode]
  OBVIOUS
<1>4. JobShape(j) /\ j.slug = s /\ j.mode = mode
  <2>1. PICK k : k = [NoJob EXCEPT !.slug = s]
    OBVIOUS
  <2>2. JobShape(k) /\ k.slug = s
    BY <2>1 DEF JobShape, NoJob
  <2>3. j = [k EXCEPT !.mode = mode]
    BY <1>3, <2>1
  <2>4. QED
    BY <2>2, <2>3 DEF JobShape
<1>5. JobsShaped' /\ job'[c] = j /\ \A d \in Command : d # c => job'[d] = job[d]
  BY <1>1, <1>2, <1>3, <1>4, JobsStand
<1>6. pc'[c] = "lock" /\ "lock" \in Anywhere
  BY <1>1, <1>2, PlacesApart DEF Goto
<1>7. (Aim(c) /\ Ground(c) /\ Grip(c))'
  BY <1>4, <1>5, <1>6, AwayIsClear
<1>8. QED
  BY <1>1, <1>2, <1>5, <1>6, <1>7, AsideStands

LEMMA TakeLockKeeps ==
  ASSUME ArchiveInv, NEW c \in Command, TakeLock(c)
  PROVE  Standing' /\ Duties'
<1>1. /\ UNCHANGED <<trees, journal, live, claim, edits, events>> /\ Locking(c)
      /\ job' = job \/ (pc'[c] = "idle" /\ job' = [job EXCEPT ![c] = NoJob])
      /\ pc'[c] = "idle" => job' = [job EXCEPT ![c] = NoJob]
  BY DEF TakeLock, specs, counts
<1>2. /\ Standing /\ JobsShaped /\ pc \in [Command -> Anywhere] /\ events \in Nat /\ Aim(c)
  BY DEF ArchiveInv, Duties, Standing, Shapes, Files, LockInv, LockType
<1>3. PICK place \in {"idle", "lock", "reap", "prune", "leave", "begin"} :
         /\ Goto(c, place) /\ pc[c] # "idle" /\ (place \in Outset => pc[c] \in Outset)
  <2>1. CASE PublishLock(c)
    BY <2>1 DEF PublishLock, Outset
  <2>2. CASE Inspect(c)
    BY <1>2, <2>2 DEF Inspect, Outset, Goto
  <2>3. CASE Reap(c) \/ Prune(c)
    BY <2>3 DEF Reap, Prune, Outset
  <2>4. CASE Unlock(c) \/ Leave(c)
    BY <2>4 DEF Unlock, Leave, Outset
  <2>5. QED
    BY <1>1, <2>1, <2>2, <2>3, <2>4 DEF Locking
<1>4. pc'[c] = place /\ place \in Anywhere
  BY <1>2, <1>3, PlacesApart DEF Goto
<1>5. JobsShaped' /\ \A d \in Command : d # c => job'[d] = job[d]
  <2>1. CASE job' = job
    BY <1>2, <2>1, SameJobs
  <2>2. CASE job' = [job EXCEPT ![c] = NoJob]
    <3>1. JobShape(NoJob)
      BY DEF JobShape, NoJob
    <3>2. PICK j : j = NoJob
      OBVIOUS
    <3>3. QED
      BY <1>2, <2>2, <3>1, <3>2, JobsStand
  <2>3. QED
    BY <1>1, <2>1, <2>2
<1>6. (Aim(c) /\ Ground(c) /\ Grip(c))'
  <2>1. CASE place = "idle"
    BY <1>4, <2>1, AwayIsClear DEF Outset
  <2>2. CASE place # "idle"
    <3>1. job' = job /\ job[c].slug \in Change
      BY <1>1, <1>2, <1>3, <1>4, <2>2 DEF Aim
    <3>2. pc'[c] \in Outset => job'[c].mode # "promote"
      BY <1>2, <1>3, <1>4, <3>1 DEF Aim, Outset
    <3>3. QED
      BY <1>4, <3>1, <3>2, AwayIsClear
  <2>3. QED
    BY <2>1, <2>2
<1>7. QED
  BY <1>1, <1>2, <1>3, <1>4, <1>5, <1>6, AsideStands

LEMMA DieKeeps ==
  ASSUME ArchiveInv, NEW c \in Command, Die(c)
  PROVE  Standing' /\ Duties'
<1>1. /\ UNCHANGED <<trees, journal, live, claim, edits, events>> /\ Goto(c, "idle")
      /\ job' = [job EXCEPT ![c] = NoJob]
  BY DEF Die, specs, counts
<1>2. Standing /\ JobsShaped /\ pc \in [Command -> Anywhere] /\ events \in Nat
  BY DEF ArchiveInv, Standing, Shapes, Files, LockInv, LockType
<1>3. JobsShaped' /\ \A d \in Command : d # c => job'[d] = job[d]
  <2>1. JobShape(NoJob)
    BY DEF JobShape, NoJob
  <2>2. PICK j : j = NoJob
    OBVIOUS
  <2>3. QED
    BY <1>1, <1>2, <2>1, <2>2, JobsStand
<1>4. pc'[c] = "idle" /\ "idle" \in Anywhere
  BY <1>1, <1>2, PlacesApart DEF Goto
<1>5. (Aim(c) /\ Ground(c) /\ Grip(c))'
  BY <1>4, AwayIsClear DEF Outset
<1>6. QED
  BY <1>1, <1>2, <1>3, <1>4, <1>5, AsideStands

LEMMA WorkStands ==
  ASSUME ArchiveInv, NEW c \in Command, Archive(c) \/ Recover(c) \/ Promotion(c)
  PROVE  Standing' /\ Duties'
<1>1. CASE Archive(c)
  BY <1>1, BeginKeeps, NotesKeep, IsolateKeeps, CopyKeeps, PlanKeeps, SealKeeps, PublishKeeps, PublishedKeeps,
     PromoteKeeps, UnsealKeeps, FinishKeeps DEF Archive
<1>2. CASE Promotion(c)
  BY <1>2, EntryKeeps, ClaimTargetKeeps, RetainTargetKeeps, RecheckKeeps, RestoreKeeps, WriteCandidateKeeps,
     LinkKeeps, VerifyKeeps DEF Promotion
<1>3. QED
  BY <1>1, <1>2, RecoverKeeps

LEMMA ArchiveStep == ArchiveInv /\ [Next]_vars => ArchiveInv'
<1> SUFFICES ASSUME ArchiveInv, [Next]_vars PROVE ArchiveInv'
    OBVIOUS
<1>1. LockInv'
  BY LockStep DEF ArchiveInv
<1>2. CASE Outside
  BY <1>1, <1>2, SaveSpecKeeps, PeopleKeep DEF Outside, ArchiveInv
<1>3. ASSUME NEW c \in Command, Step(c) PROVE ArchiveInv'
  BY <1>1, <1>3, StartKeeps, TakeLockKeeps, WorkStands, DieKeeps DEF Step, ArchiveInv
<1>4. CASE UNCHANGED vars
  <2>1. /\ UNCHANGED <<pc, job, journal, live, claim, edits, events, at, authored>> /\ Standing
        /\ \A d \in Command : Aim(d) /\ Ground(d) /\ Grip(d)
    BY <1>4 DEF vars, lockVars, specs, counts, trees, ArchiveInv, Duties
  <2>2. Duties'
    BY <2>1, Bystander, SameGrip DEF Duties
  <2>3. JobsShaped' /\ JournalsShaped' /\ Journals'
    BY <2>1, SameJobs, SilentStands DEF Standing, Shapes
  <2>4. Standing'
    BY <2>1, <2>3, QuietStands DEF trees, counts
  <2>5. QED
    BY <1>1, <2>2, <2>4 DEF ArchiveInv
<1>5. QED
  BY <1>2, <1>3, <1>4 DEF Next

(* Whatever is archived, rolled back or recovered, and whoever dies where,    *)
(* a change directory a person wrote and did not replace exists.             *)
THEOREM ChangesAreKept == Spec => []ChangeKept
<1>1. ArchiveInv => ChangeKept
  BY DEF ArchiveInv, Standing
<1>2. QED
  BY <1>1, ArchiveInitial, ArchiveStep, PTL DEF Spec
-----------------------------------------------------------------------------
(* The edits people save into the specs.                                     *)
LEMMA EditsStay ==
  ASSUME NEW e, Kept(e), live' = live, claim' = claim, retained' = retained
  PROVE  (Kept(e))'
BY DEF Kept

(* A step of a promotion at one file leaves the edits where they were, or     *)
(* takes them along with the file.                                           *)
LEMMA EditsMove ==
  ASSUME ArchiveInv, NEW c \in Command, Promotion(c), NEW e \in edits, Kept(e)
  PROVE  (Kept(e))' \/ Overtaken(c, e)
<1> DEFINE s == job[c].slug
           h == Here(c)
<1>1. pc[c] \in Entered
  BY DEF Promotion, Entry, ClaimTarget, RetainTarget, Recheck, Restore, WriteCandidate, Link, Verify, At, Entered
<1>2. /\ Standing /\ s \in Change /\ h \in File /\ Grip(c) /\ e \in Edit
      /\ IsFile(h, live[h]) /\ IsFile(h, Claim(c)) /\ IsFile(h, Wanted(c)) /\ IsFile(h, Absent)
  BY <1>1, Working1, AbsentApart DEF Standing, Files
<1>3. CASE Entry(c) \/ Recheck(c) \/ WriteCandidate(c) \/ Verify(c)
  BY <1>3, EditsStay DEF Entry, Recheck, WriteCandidate, Verify, specs
<1>4. CASE ClaimTarget(c)
  <2>1. /\ claim' = [claim EXCEPT ![s][h] = live[h]] /\ live' = [live EXCEPT ![h] = Absent] /\ retained' = retained
        /\ claim[s][h] = Absent
    BY <1>2, <1>4 DEF ClaimTarget, SetClaim, SetLive, Grip, Claim, At
  <2> HIDE DEF s, h
  <2>2. live'[h] = Absent /\ \A f \in File : f # h => live'[f] = live[f]
    BY <1>2, <2>1, LiveIsSet
  <2>3. PICK content : content = live[h]
    OBVIOUS
  <2>4. /\ Standing /\ s \in Change /\ h \in File /\ IsFile(h, content)
        /\ claim' = [claim EXCEPT ![s] = [claim[s] EXCEPT ![h] = content]]
    BY <1>2, <2>1, <2>3 DEF Standing, Shapes
  <2>5. claim'[s][h] = content
    BY ONLY <2>4, ClaimIsSet
  <2>6. \A t \in Change : \A f \in File : t # s \/ f # h => claim'[t][f] = claim[t][f]
    BY ONLY <2>4, ClaimIsSet
  <2>7. CASE e \in retained
    BY <2>1, <2>7 DEF Kept
  <2>8. ASSUME NEW k \in Capability, live[k] # Absent, e \in live[k] PROVE (Kept(e))'
    BY <1>2, <2>2, <2>3, <2>5, <2>8, FilesApart DEF Kept
  <2>9. ASSUME NEW k \in Capability, NEW t \in Change, claim[t][k] # Absent, e \in claim[t][k] PROVE (Kept(e))'
    BY <1>2, <2>1, <2>6, <2>9, FilesApart DEF Kept
  <2>10. QED
    BY <2>7, <2>8, <2>9 DEF Kept
<1>5. CASE RetainTarget(c)
  <2>1. /\ live' = [live EXCEPT ![h] = Absent] /\ claim' = claim
        /\ retained' = retained \union EditsOf(c, live[h])
    BY <1>5 DEF RetainTarget, SetLive, At
  <2>2. live'[h] = Absent /\ \A f \in File : f # h => live'[f] = live[f]
    BY <1>2, <2>1, LiveIsSet
  <2>3. ASSUME NEW k \in Capability, live[k] # Absent, e \in live[k] PROVE (Kept(e))'
    <3>1. CASE k = h
      <4>1. e \in EditsOf(c, live[h])
        BY <1>2, <2>3, <3>1, FilesApart DEF EditsOf
      <4>2. QED
        BY <2>1, <4>1 DEF Kept
    <3>2. CASE k # h
      BY <2>2, <2>3, <3>2, FilesApart DEF Kept
    <3>3. QED
      BY <3>1, <3>2
  <2>4. QED
    BY <2>1, <2>3 DEF Kept
<1>6. CASE Restore(c)
  <2>1. /\ pc[c] = "restore" /\ claim' = [claim EXCEPT ![s][h] = Absent] /\ live' = [live EXCEPT ![h] = Claim(c)]
        /\ retained' = retained
    BY <1>6 DEF Restore, SetClaim, SetLive, At
  <2>2. h \in Capability /\ Claim(c) # Absent /\ Claim(c) \cap Edit # {} /\ Claim(c) = claim[s][h]
    BY <1>2, <2>1 DEF Grip, Saved, Claim
  <2> HIDE DEF s, h
  <2>3. PICK content : content = Claim(c)
    OBVIOUS
  <2>4. live'[h] = content /\ \A f \in File : f # h => live'[f] = live[f]
    BY <1>2, <2>1, <2>3, LiveIsSet
  <2>5. /\ Standing /\ s \in Change /\ h \in File /\ IsFile(h, Absent)
        /\ claim' = [claim EXCEPT ![s] = [claim[s] EXCEPT ![h] = Absent]]
    BY <1>2, <2>1 DEF Standing, Shapes
  <2>6. \A t \in Change : \A f \in File : t # s \/ f # h => claim'[t][f] = claim[t][f]
    BY ONLY <2>5, ClaimIsSet
  <2>7. CASE e \in retained
    BY <2>1, <2>7 DEF Kept
  <2>8. ASSUME NEW k \in Capability, live[k] # Absent, e \in live[k] PROVE (Kept(e))' \/ Overtaken(c, e)
    <3>1. CASE k = h
      BY <2>1, <2>2, <2>8, <3>1 DEF Overtaken, h
    <3>2. CASE k # h
      BY <2>4, <2>8, <3>2, FilesApart DEF Kept
    <3>3. QED
      BY <3>1, <3>2
  <2>9. ASSUME NEW k \in Capability, NEW t \in Change, claim[t][k] # Absent, e \in claim[t][k] PROVE (Kept(e))'
    <3>1. CASE t = s /\ k = h
      BY <2>2, <2>3, <2>4, <2>9, <3>1 DEF Kept
    <3>2. CASE t # s \/ k # h
      BY <2>6, <2>9, <3>2, FilesApart DEF Kept
    <3>3. QED
      BY <3>1, <3>2
  <2>10. QED
    BY <2>7, <2>8, <2>9 DEF Kept
<1>7. CASE Link(c)
  <2>1. /\ claim' = claim /\ retained' = retained
        /\ live' = live \/ (live[h] = Absent /\ live' = [live EXCEPT ![h] = Wanted(c)])
    BY <1>7 DEF Link, SetLive, At
  <2>2. PICK content : content = Wanted(c)
    OBVIOUS
  <2>3. ASSUME live[h] = Absent, live' = [live EXCEPT ![h] = Wanted(c)] PROVE (Kept(e))'
    <3>1. \A f \in File : f # h => live'[f] = live[f]
      BY <1>2, <2>2, <2>3, LiveIsSet
    <3>2. QED
      BY <2>1, <2>3, <3>1, FilesApart DEF Kept
  <2>4. QED
    BY <2>1, <2>3, EditsStay
<1>8. QED
  BY <1>3, <1>4, <1>5, <1>6, <1>7 DEF Promotion

(* Another person's save adds to what it is saved over.                      *)
LEMMA EditsGrow ==
  ASSUME ArchiveInv, NEW a \in Edit, NEW k \in Savable, SaveSpec(a, k), NEW e \in edits', e \in edits => Kept(e)
  PROVE  (Kept(e))'
<1>1. /\ edits' = edits \union {a} /\ retained' = retained
      /\ \/ live' = [live EXCEPT ![k] = With(@, a)] /\ claim' = claim
         \/ \E s \in Change : /\ claim[s][k] # Absent /\ claim' = [claim EXCEPT ![s][k] = With(@, a)] /\ live' = live
  BY DEF SaveSpec
<1>2. /\ Standing /\ k \in File /\ k \in Capability /\ a \in Change \union Edit
  BY FilesApart, ArchiveAssumption DEF ArchiveInv
<1>3. /\ live = [f \in File |-> live[f]] /\ claim = [s \in Change |-> [f \in File |-> claim[s][f]]]
      /\ live[k] \in Content /\ \A s \in Change : claim[s][k] \in Content
  BY <1>2, FilesApart DEF Standing, Shapes, Files, IsFile
<1>4. \A content \in Content : /\ With(content, a) # Absent /\ a \in With(content, a)
                               /\ content # Absent => content \subseteq With(content, a)
  BY <1>2, WithIsContent
<1>5. CASE live' = [live EXCEPT ![k] = With(@, a)] /\ claim' = claim
  <2>1. live'[k] = With(live[k], a) /\ \A f \in File : f # k => live'[f] = live[f]
    BY <1>2, <1>3, <1>5
  <2>2. live'[k] # Absent /\ a \in live'[k] /\ (live[k] # Absent => live[k] \subseteq live'[k])
    BY <1>3, <1>4, <2>1
  <2>3. CASE e = a
    BY <1>2, <2>2, <2>3 DEF Kept
  <2>4. CASE e # a
    <3>1. Kept(e)
      BY <1>1, <2>4
    <3>2. ASSUME NEW l \in Capability, live[l] # Absent, e \in live[l] PROVE live'[l] # Absent /\ e \in live'[l]
      BY <2>1, <2>2, <3>2, FilesApart
    <3>3. QED
      BY <1>1, <1>5, <3>1, <3>2 DEF Kept
  <2>5. QED
    BY <2>3, <2>4
<1>6. ASSUME NEW s \in Change, claim[s][k] # Absent, claim' = [claim EXCEPT ![s][k] = With(@, a)], live' = live
      PROVE  (Kept(e))'
  <2>1. PICK content : content = With(claim[s][k], a)
    OBVIOUS
  <2>2. /\ claim'[s][k] = content
        /\ \A t \in Change : \A f \in File : t # s \/ f # k => claim'[t][f] = claim[t][f]
    BY <1>2, <1>3, <1>6, <2>1
  <2>3. claim'[s][k] # Absent /\ a \in claim'[s][k] /\ claim[s][k] \subseteq claim'[s][k]
    BY <1>3, <1>4, <1>6, <2>1, <2>2
  <2>4. CASE e = a
    BY <1>2, <2>3, <2>4 DEF Kept
  <2>5. CASE e # a
    <3>1. Kept(e)
      BY <1>1, <2>5
    <3>2. ASSUME NEW l \in Capability, NEW t \in Change, claim[t][l] # Absent, e \in claim[t][l]
          PROVE  claim'[t][l] # Absent /\ e \in claim'[t][l]
      BY <2>2, <2>3, <3>2, FilesApart
    <3>3. QED
      BY <1>1, <1>6, <3>1, <3>2 DEF Kept
  <2>6. QED
    BY <2>4, <2>5
<1>7. QED
  BY <1>1, <1>5, <1>6

LEMMA EditsStep ==
  ASSUME ArchiveInv, [Next]_vars, NEW e \in edits', e \in edits => Kept(e)
  PROVE  (Kept(e))' \/ \E c \in Command : Overtaken(c, e)
<1>1. CASE \E a \in Edit, k \in Savable : SaveSpec(a, k)
  BY <1>1, EditsGrow
<1>2. ASSUME edits' = edits, live' = live, claim' = claim, retained' = retained
      PROVE  (Kept(e))'
  BY <1>2, EditsStay
<1>3. CASE \E s \in Change : EditChange(s) \/ Rebase(s) \/ Reopen(s) \/ Abandon(s)
  BY <1>2, <1>3 DEF EditChange, Rebase, Reopen, Abandon, Touch, specs
<1>4. ASSUME NEW c \in Command, Promotion(c) PROVE (Kept(e))' \/ Overtaken(c, e)
  <2>1. edits' = edits
    BY <1>4 DEF Promotion, Entry, ClaimTarget, RetainTarget, Recheck, Restore, WriteCandidate, Link, Verify, At, counts
  <2>2. QED
    BY <1>4, <2>1, EditsMove
<1>5. ASSUME NEW c \in Command, Archive(c) PROVE (Kept(e))'
  BY <1>2, <1>5 DEF Archive, Begin, Mkdir, Prepare, Isolate, Copy, Plan, Seal, Publish, Published, Promote,
     Unseal, Erase, Erased, Finish, Complete, FinalCheck, At, counts, specs
<1>6. ASSUME NEW c \in Command, Recover(c) \/ TakeLock(c) \/ Die(c) PROVE (Kept(e))'
  BY <1>2, <1>6 DEF Recover, TakeLock, Die, At, counts, specs
<1>7. ASSUME NEW c \in Command, NEW s, NEW mode, Start(c, s, mode) PROVE (Kept(e))'
  BY <1>2, <1>7 DEF Start, specs
<1>8. CASE UNCHANGED vars
  BY <1>2, <1>8 DEF vars, specs, counts
<1>9. QED
  BY <1>1, <1>3, <1>4, <1>5, <1>6, <1>7, <1>8 DEF Next, Outside, Step

(* What a person saved into a living spec is in the spec, or in a generation  *)
(* that was kept, but for the one rename that checks before it replaces.     *)
THEOREM EditsAreKept == Spec => EditsKept
<1>1. ArchiveInv /\ [Next]_vars => [\A e \in edits' : (e \in edits => Kept(e)) =>
                  Kept(e)' \/ \E c \in Command : Overtaken(c, e)]_vars
  BY EditsStep
<1>2. QED
  BY <1>1, ArchiveInitial, ArchiveStep, PTL DEF Spec, EditsKept
=============================================================================
