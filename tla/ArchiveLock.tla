---------------------------- MODULE ArchiveLock ----------------------------
(* The directory lock of archive and archive recover                          *)
(* (src/archive-operation-lock.mjs). The lock is a directory that holds one   *)
(* marker, named after its owner's token; a command prepares its own outside  *)
(* and renames it into place. On POSIX a rename replaces an empty directory.  *)
EXTENDS Naturals

CONSTANTS Command

ASSUME CommandAssumption == "none" \notin Command /\ "empty" \notin Command

VARIABLES
  lock,  \* the directory: NoLock, Empty, or the token of the marker in it
  run,   \* how often each command has died: its tokens die with it
  pc,    \* where each command is
  seen   \* the token whose marker a command is about to unlink

lockVars == <<lock, run, pc, seen>>

NoLock == <<"none", 0>>
Vacant == <<"empty", 0>>
Token(c) == <<c, run[c]>>
Held == lock \notin {NoLock, Vacant}

Goto(c, place) == pc' = [pc EXCEPT ![c] = place]

(* ownerProcessAlive of a token's owner.                                     *)
Alive(t) == run[t[1]] = t[2]

(* renameSync(pending, target).                                              *)
PublishLock(c) == /\ pc[c] = "lock" /\ ~Held
                  /\ lock' = Token(c) /\ Goto(c, "begin")
                  /\ UNCHANGED <<run, seen>>

(* inspectExistingLock, and the bound on attempts: a command that met another*)
(* topology tries again or gives up.                                         *)
Inspect(c) ==
  /\ pc[c] = "lock"
  /\ \/ lock = Vacant /\ lock' = NoLock /\ UNCHANGED <<pc, seen>>
     \/ /\ Held /\ Alive(lock)
        /\ Goto(c, "idle") /\ UNCHANGED <<lock, seen>>
     \/ /\ Held /\ ~Alive(lock)
        /\ seen' = [seen EXCEPT ![c] = lock] /\ Goto(c, "reap") /\ UNCHANGED lock
  /\ UNCHANGED run

(* Mutant: whatever marker is in the directory is unlinked.                  *)
ReapAny(c) == /\ pc[c] = "reap" /\ lock' = Vacant /\ Goto(c, "prune")
              /\ seen' = [seen EXCEPT ![c] = NoLock] /\ UNCHANGED run

(* unlinkSync of the dead owner's marker, then rmdirSync, which spares a      *)
(* directory that is no longer empty.                                        *)
Reap(c) ==
  /\ pc[c] = "reap"
  /\ IF lock = seen[c] THEN lock' = Vacant /\ Goto(c, "prune")
                       ELSE Goto(c, "idle") /\ UNCHANGED lock
  /\ seen' = [seen EXCEPT ![c] = NoLock]
  /\ UNCHANGED run

Prune(c) ==
  /\ pc[c] = "prune"
  /\ lock' = IF lock = Vacant THEN NoLock ELSE lock
  /\ \E place \in {"lock", "idle"} : Goto(c, place)
  /\ UNCHANGED <<run, seen>>

(* release: the marker, then the directory. When another command has renamed *)
(* its own over the emptied one, rmdirSync fails and the caller is told that *)
(* it lost its ownership.                                                    *)
Unlock(c) == /\ pc[c] = "unlock" /\ lock = Token(c)
             /\ lock' = Vacant /\ Goto(c, "leave")
             /\ UNCHANGED <<run, seen>>

Leave(c) == /\ pc[c] = "leave"
            /\ lock' = IF lock = Vacant THEN NoLock ELSE lock
            /\ Goto(c, "idle")
            /\ UNCHANGED <<run, seen>>

Locking(c) == PublishLock(c) \/ Inspect(c) \/ Reap(c) \/ Prune(c) \/ Unlock(c) \/ Leave(c)
=============================================================================
