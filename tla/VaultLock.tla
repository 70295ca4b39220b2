------------------------------ MODULE VaultLock ------------------------------
(* withVaultPathLock of packages/vault: a lock on a Vault path, made of a    *)
(* directory <path>.lock that holds .owner.json (pid and token) and a file   *)
(* .lease-<token>.  The directory is built privately and published by one    *)
(* rename.  A lock whose owner died is reaped by its competitors, who race   *)
(* each other and the next owner.  Every filesystem call the competitors can *)
(* observe is one step, and a process can die between any two.               *)
(*                                                                           *)
(* A process makes one call here: a pid and a token are both the process, a  *)
(* second call of a living process is another process that did not die.  A   *)
(* retry of withPublicLockRetry repeats an observation, so it is the same    *)
(* step taken later.  The filesystem is POSIX: rename replaces an empty      *)
(* directory and fails on any other, rmdir fails unless it is empty.         *)
EXTENDS Naturals

CONSTANTS Process,   \* the processes that call withVaultPathLock
          NoOwner,   \* there is no .owner.json
          TornOwner  \* an .owner.json that does not parse

ASSUME OwnerAssumption == /\ NoOwner \notin Process
                          /\ TornOwner \notin Process
                          /\ NoOwner # TornOwner

VARIABLES
  present,  \* does the public lock directory exist
  owner,    \* whom its .owner.json names
  leases,   \* the tokens its .lease-<token> files name
  stamp,    \* identity of its birthtime and mtime: new on every change
  stale,    \* is its mtime older than staleMs
  alive,    \* the processes process.kill(pid, 0) still finds
  at,       \* where each process is
  seen,     \* the owner it observed, and the token it is releasing
  before    \* the stamp it observed first

lockVars  == <<present, owner, leases, stamp, stale>>
localVars == <<at, seen, before>>
vaultVars == <<lockVars, alive, localVars>>

Final == {"done", "busy", "failed", "crashed"}
Reaping == {"stat", "readOwner", "lease", "check", "recheck"}
Releasing == {"release", "unlinkLease", "reread", "unlinkOwner", "rmdir"}
Where == {"idle", "loop", "raced", "rename", "fn"}
           \union Reaping \union Releasing \union Final

LockTypeOK == /\ present \in BOOLEAN
              /\ owner \in Process \union {NoOwner, TornOwner}
              /\ leases \in SUBSET Process
              /\ stamp \in Nat
              /\ stale \in BOOLEAN
              /\ alive \in [Process -> BOOLEAN]
              /\ at \in [Process -> Where]
              /\ seen \in [Process -> Process \union {NoOwner, TornOwner}]
              /\ before \in [Process -> Nat]
              /\ ~present => owner = NoOwner /\ leases = {}

(* The Vault may hold what an owner without a lease left behind when it died *)
(* (a 0.58 lock, or one whose release was cut short).                        *)
LockInit == /\ alive \in [Process -> BOOLEAN]
            /\ present \in BOOLEAN
            /\ owner \in {NoOwner, TornOwner} \union {p \in Process : ~alive[p]}
            /\ ~present => owner = NoOwner
            /\ leases = {}
            /\ stamp = 0
            /\ stale = FALSE
            /\ at = [p \in Process |-> IF alive[p] THEN "idle" ELSE "crashed"]
            /\ seen = [p \in Process |-> NoOwner]
            /\ before = [p \in Process |-> 0]
-----------------------------------------------------------------------------
Goto(p, l) == at' = [at EXCEPT ![p] = l]

(* Any change to the directory gives it a new mtime.                         *)
Touch == stamp' = stamp + 1 /\ stale' = FALSE

Vacant == owner = NoOwner /\ leases = {}

(* The holder's own release ends its call whatever happens; a reaper goes    *)
(* back to the acquisition loop.                                             *)
Back(p) == IF seen[p] = p THEN "done" ELSE "loop"

Throw(p) == IF seen[p] = p THEN {"done"} ELSE {"failed", "busy"}
-----------------------------------------------------------------------------
(* One turn of the loop: what an earlier turn observed is forgotten.         *)
Attempt(p) ==
  /\ at[p] \in {"idle", "loop"}
  /\ Goto(p, IF present THEN "stat" ELSE "raced")
  /\ seen' = [seen EXCEPT ![p] = NoOwner]
  /\ before' = [before EXCEPT ![p] = 0]
  /\ UNCHANGED <<lockVars, alive>>

(* Mutant: the deadline is looked at only when the lock is free.             *)
GiveUpIfFree(p) == /\ at[p] = "loop"
                   /\ ~present
                   /\ Goto(p, "busy")
                   /\ UNCHANGED <<lockVars, alive, seen, before>>

(* The deadline has passed.  The first attempt does not look at it.          *)
GiveUp(p) == /\ at[p] = "loop"
             /\ Goto(p, "busy")
             /\ UNCHANGED <<lockVars, alive, seen, before>>

(* The pending directory is complete; look once more before publishing it.   *)
Raced(p) == /\ at[p] = "raced"
            /\ Goto(p, IF present THEN "loop" ELSE "rename")
            /\ UNCHANGED <<lockVars, alive, seen, before>>

(* Mutant: publishing replaces whatever directory is there.                  *)
RenameOver(p) == /\ at[p] = "rename"
                 /\ present' = TRUE
                 /\ owner' = p
                 /\ leases' = {p}
                 /\ Touch
                 /\ Goto(p, "fn")
                 /\ UNCHANGED <<alive, seen, before>>

(* rename(pending, lock): the directory arrives with its owner, its lease    *)
(* and the mtime it was built with, which may already be stale.              *)
Rename(p) ==
  /\ at[p] = "rename"
  /\ IF Vacant
       THEN /\ present' = TRUE
            /\ owner' = p
            /\ leases' = {p}
            /\ stamp' = stamp + 1
            /\ stale' \in BOOLEAN
            /\ Goto(p, "fn")
       ELSE Goto(p, "loop") /\ UNCHANGED lockVars
  /\ UNCHANGED <<alive, seen, before>>

(* fn() returned or threw: the finally block releases the caller's own token. *)
Finish(p) == /\ at[p] = "fn"
             /\ Goto(p, "release")
             /\ seen' = [seen EXCEPT ![p] = p]
             /\ UNCHANGED <<lockVars, alive, before>>
-----------------------------------------------------------------------------
(* reapDeadVaultLock                                                         *)
ReapStat(p) ==
  /\ at[p] = "stat"
  /\ Goto(p, IF present /\ stale THEN "readOwner" ELSE "loop")
  /\ before' = [before EXCEPT ![p] = stamp]
  /\ UNCHANGED <<lockVars, alive, seen>>

(* Mutant: age alone condemns an owner.                                      *)
ReapOldOwner(p) ==
  /\ at[p] = "readOwner"
  /\ seen' = [seen EXCEPT ![p] = owner]
  /\ Goto(p, IF ~present THEN "loop"
             ELSE IF owner \notin Process THEN "check"
             ELSE "lease")
  /\ UNCHANGED <<lockVars, alive, before>>

ReapReadOwner(p) ==
  /\ at[p] = "readOwner"
  /\ seen' = [seen EXCEPT ![p] = owner]
  /\ Goto(p, IF ~present THEN "loop"
             ELSE IF owner \notin Process THEN "check"
             ELSE IF alive[owner] THEN "loop"
             ELSE "lease")
  /\ UNCHANGED <<lockVars, alive, before>>

(* A dead owner with a lease is released in its name; one without a lease is *)
(* treated as legacy residue.                                                *)
ReapLease(p) ==
  /\ at[p] = "lease"
  /\ Goto(p, IF ~present THEN "loop"
             ELSE IF seen[p] \in leases THEN "release"
             ELSE "check")
  /\ UNCHANGED <<lockVars, alive, seen, before>>

(* readdir and stat: nothing but .owner.json, and unchanged since ReapStat.  *)
ReapCheck(p) ==
  /\ at[p] = "check"
  /\ Goto(p, IF present /\ leases = {} /\ stamp = before[p]
               THEN "recheck" ELSE "loop")
  /\ UNCHANGED <<lockVars, alive, seen, before>>

ReapRecheck(p) ==
  /\ at[p] = "recheck"
  /\ Goto(p, IF ~present \/ owner # seen[p] THEN "loop"
             ELSE IF owner = NoOwner THEN "rmdir"
             ELSE "unlinkOwner")
  /\ UNCHANGED <<lockVars, alive, seen, before>>
-----------------------------------------------------------------------------
(* releaseOwnedVaultLock, for the caller's token or for a dead owner's.      *)
Release(p) ==
  /\ at[p] = "release"
  /\ Goto(p, IF present /\ owner = seen[p] THEN "unlinkLease" ELSE Back(p))
  /\ UNCHANGED <<lockVars, alive, seen, before>>

UnlinkLease(p) ==
  /\ at[p] = "unlinkLease"
  /\ IF seen[p] \in leases
       THEN /\ leases' = leases \ {seen[p]}
            /\ Touch
            /\ Goto(p, "reread")
       ELSE Goto(p, Back(p)) /\ UNCHANGED <<leases, stamp, stale>>
  /\ UNCHANGED <<present, owner, alive, seen, before>>

Reread(p) ==
  /\ at[p] = "reread"
  /\ Goto(p, IF present /\ owner = seen[p] THEN "unlinkOwner" ELSE Back(p))
  /\ UNCHANGED <<lockVars, alive, seen, before>>

(* The owner file is removed by its name: whoever wrote it.                  *)
UnlinkOwner(p) ==
  /\ at[p] = "unlinkOwner"
  /\ IF owner # NoOwner
       THEN /\ owner' = NoOwner
            /\ Touch
            /\ Goto(p, "rmdir")
       ELSE Goto(p, Back(p)) /\ UNCHANGED <<owner, stamp, stale>>
  /\ UNCHANGED <<present, leases, alive, seen, before>>

(* rmdir throws when the directory is gone or is not empty.                  *)
Rmdir(p) ==
  /\ at[p] = "rmdir"
  /\ IF present /\ Vacant
       THEN /\ present' = FALSE
            /\ Touch
            /\ Goto(p, Back(p))
       ELSE /\ \E l \in Throw(p) : Goto(p, l)
            /\ UNCHANGED <<present, stamp, stale>>
  /\ UNCHANGED <<owner, leases, alive, seen, before>>
-----------------------------------------------------------------------------
(* The environment: time passes, processes die or exit.                      *)
Age == /\ present /\ ~stale
       /\ stale' = TRUE
       /\ UNCHANGED <<present, owner, leases, stamp, alive, localVars>>

Crash(p) == /\ alive[p]
            /\ alive' = [alive EXCEPT ![p] = FALSE]
            /\ Goto(p, IF at[p] \in Final THEN at[p] ELSE "crashed")
            /\ seen' = [seen EXCEPT ![p] = NoOwner]
            /\ before' = [before EXCEPT ![p] = 0]
            /\ UNCHANGED lockVars

Call(p) == \/ Attempt(p) \/ GiveUp(p) \/ Raced(p) \/ Rename(p) \/ Finish(p)
           \/ ReapStat(p) \/ ReapReadOwner(p) \/ ReapLease(p)
           \/ ReapCheck(p) \/ ReapRecheck(p)
           \/ Release(p) \/ UnlinkLease(p) \/ Reread(p)
           \/ UnlinkOwner(p) \/ Rmdir(p)

LockNext == \/ \E p \in Process : Call(p) \/ Crash(p)
            \/ Age

LockSpec == LockInit /\ [][LockNext]_vaultVars

(* A process that is not stopped runs and its fn() returns.  Its deadline    *)
(* passes once and stays passed, so a loop that goes on meets it.            *)
FairSpec == /\ LockSpec
            /\ \A p \in Process : WF_vaultVars(Call(p)) /\ SF_vaultVars(GiveUp(p))
-----------------------------------------------------------------------------
(* Two processes never run fn() at the same time, whatever reapers were      *)
(* paused in the middle of removing an earlier owner's lock.                 *)
MutualExclusion ==
  \A p, q \in Process : at[p] = "fn" /\ at[q] = "fn" => p = q

(* The lease of a process that has not begun its own release is in the       *)
(* public directory, alone: the filesystem CAS of the comment above          *)
(* releaseOwnedVaultLock.                                                    *)
Holding(p) == \/ at[p] = "fn"
              \/ at[p] \in {"release", "unlinkLease"} /\ seen[p] = p

LeaseKept == \A p \in Process : Holding(p) => present /\ leases = {p}

(* The comment at the partial-directory path: locks are published only with  *)
(* owner and lease, so an old partial directory is never a live acquisition. *)
PartialIsResidue ==
  present /\ owner = NoOwner => \A p \in Process : at[p] # "fn"

(* Every call returns: with fn() done, with BUSY or with an error.           *)
EveryCallReturns ==
  \A p \in Process : at[p] \in Where \ {"idle"} ~> at[p] \in Final

(* The directory protocol implements LeaseMutex: the holder is the process   *)
(* whose lease is in the public directory.                                   *)
Abstract == INSTANCE LeaseMutex
              WITH NoProcess <- NoOwner,
                   holder <- IF leases = {} THEN NoOwner
                             ELSE CHOOSE p \in Process : p \in leases,
                   running <- {p \in Process : at[p] = "fn"},
                   dead <- {p \in Process : ~alive[p]}

Mutex == Abstract!Spec
=============================================================================
