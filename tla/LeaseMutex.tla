----------------------------- MODULE LeaseMutex -----------------------------
(* What withVaultPathLock promises its callers, without directories, leases, *)
(* ages or reapers: at most one process runs its critical section, and the   *)
(* lock leaves a holder only once that holder has finished or has died.      *)
CONSTANTS Process,   \* the processes that call the lock
          NoProcess  \* nobody

VARIABLES holder,    \* the process the lock belongs to, or NoProcess
          running,   \* the processes inside their critical section
          dead       \* the processes that have died

vars == <<holder, running, dead>>

Init == /\ holder = NoProcess
        /\ running = {}
        /\ dead \in SUBSET Process

Acquire(p) == /\ holder = NoProcess
              /\ p \notin dead
              /\ holder' = p
              /\ running' = running \union {p}
              /\ UNCHANGED dead

Finish(p) == /\ p \in running
             /\ running' = running \ {p}
             /\ UNCHANGED <<holder, dead>>

(* The lock is freed, by its holder or by a reaper: never while the holder   *)
(* is running.                                                               *)
Free == /\ holder # NoProcess
        /\ holder \notin running
        /\ holder' = NoProcess
        /\ UNCHANGED <<running, dead>>

Die(p) == /\ p \notin dead
          /\ dead' = dead \union {p}
          /\ running' = running \ {p}
          /\ UNCHANGED holder

Next == \/ \E p \in Process : Acquire(p) \/ Finish(p) \/ Die(p)
        \/ Free

Spec == Init /\ [][Next]_vars
=============================================================================
