--------------------------- MODULE ReceiptLedger ---------------------------
(* The receipt ledger of packages/evidence: an append-only hash chain, a      *)
(* checkpoint that anchors a prefix of it, the v1 bytes it grew from, and a   *)
(* lock file that is created exclusively, then written, then removed by name. *)
(* A hash stands for what it is computed from: a chain is its records and the *)
(* legacy prefix it starts at, a checkpoint the chain it covers.              *)
EXTENDS Naturals, Sequences, SequencesExt

CONSTANTS Proc, Draft, None,
          V1,           \* the v1 ledgers there may be at the start
          IdOf,         \* kind and subject of a draft: its receipt_id
          Reaper,       \* the processes that may meet a stale lock
          Slow,         \* may a process pause for a lease before it writes its lock
          MaxCrashes    \* bound: deaths and I/O errors

ASSUME LedgerAssumption == /\ Slow \in BOOLEAN /\ MaxCrashes \in Nat
                           /\ Reaper \subseteq Proc
                           /\ None \notin Proc \union Draft
                           /\ <<>> \in V1 /\ V1 \subseteq Seq(Draft)
                           /\ None \notin [version : {1, 2}, base : Seq(Draft),
                                           records : Seq(Draft)]

VARIABLES
  ledger,      \* version, the legacy prefix of its genesis, and its records
  checkpoint,  \* None, or the chain that it anchors
  legacy,      \* the v1 bytes kept aside
  lock,        \* NoLock, or its creator, whether it is written, whether its lease is over
  pc, want,    \* where a process is, and the draft it appends (None: a read)
  buf,         \* the ledger it read under the lock
  acked,       \* drafts whose append returned
  crashes

files == <<ledger, checkpoint, legacy>>
vars == <<files, lock, pc, want, buf, acked, crashes>>

NoLock == [by |-> None, text |-> FALSE, old |-> FALSE, there |-> FALSE]
Chain(base, records) == [version |-> 2, base |-> base, records |-> records]

Inside == {"read", "legacy", "migrate", "anchor", "decide", "write", "checkpoint", "release"}

Init == /\ \E r \in V1 : ledger = [version |-> IF r = <<>> THEN 2 ELSE 1,
                                   base |-> <<>>, records |-> r]
        /\ checkpoint = None /\ legacy = <<>>
        /\ lock = NoLock
        /\ pc = [p \in Proc |-> "idle"] /\ want = [p \in Proc |-> None]
        /\ buf = [p \in Proc |-> Chain(<<>>, <<>>)]
        /\ acked = {} /\ crashes = 0

(* readReceiptLedger: what it accepts.                                       *)
Covers(c, l) == c.base = l.base /\ IsPrefix(c.records, l.records)

Readable == IF checkpoint = None THEN ledger.records = <<>> \/ ledger.version = 1
            ELSE ledger.version = 2 /\ ledger.base = legacy /\ Covers(checkpoint, ledger)

Goto(p, place) == pc' = [pc EXCEPT ![p] = place]
-----------------------------------------------------------------------------
(* acquireLock, inspection, and removal of a stale lock.                     *)
Begin(p, d) == /\ pc[p] = "idle" /\ Goto(p, "acquire")
               /\ want' = [want EXCEPT ![p] = d]
               /\ UNCHANGED <<files, lock, buf, acked, crashes>>

Create(p) == /\ pc[p] = "acquire" /\ ~lock.there
             /\ lock' = [by |-> p, text |-> FALSE, old |-> FALSE, there |-> TRUE]
             /\ Goto(p, "publish")
             /\ UNCHANGED <<files, want, buf, acked, crashes>>

(* The token goes to the file p created; what is checked afterwards is only  *)
(* that a lock file is there.                                                *)
Publish(p) == /\ pc[p] = "publish"
              /\ lock' = IF lock.by = p THEN [lock EXCEPT !.text = TRUE] ELSE lock
              /\ Goto(p, IF lock.there THEN "read" ELSE "idle")
              /\ want' = [want EXCEPT ![p] = IF lock.there THEN @ ELSE None]
              /\ UNCHANGED <<files, buf, acked, crashes>>

(* A token that cannot be written: the file of that name is removed.         *)
PublishFails(p) == /\ pc[p] = "publish" /\ Goto(p, "idle")
                   /\ crashes < MaxCrashes /\ crashes' = crashes + 1
                   /\ lock' = NoLock /\ want' = [want EXCEPT ![p] = None]
                   /\ UNCHANGED <<files, buf, acked>>

(* An unwritten lock is judged by its age, a written one also by its owner.  *)
Stale == lock.there /\ lock.old /\ (lock.text => lock.by = None)

(* removeLockIfUnchanged looks once more at the lock that was judged stale,  *)
(* and then unlinks by name whatever is there.                               *)
Inspect(p) == /\ pc[p] = "acquire" /\ p \in Reaper /\ Stale
              /\ Goto(p, "unlink")
              /\ UNCHANGED <<files, lock, want, buf, acked, crashes>>

Unlink(p) == /\ pc[p] = "unlink" /\ Goto(p, "acquire")
             /\ lock' = NoLock
             /\ UNCHANGED <<files, want, buf, acked, crashes>>

(* lockWaitMs is over: BUSY.                                                 *)
GiveUp(p) == /\ pc[p] = "acquire" /\ lock.there
             /\ Goto(p, "idle") /\ want' = [want EXCEPT ![p] = None]
             /\ UNCHANGED <<files, lock, buf, acked, crashes>>
-----------------------------------------------------------------------------
(* readReceiptLedgerUnlocked and the v1 migration.                           *)
Read(p) == /\ pc[p] = "read"
           /\ buf' = [buf EXCEPT ![p] = ledger]
           /\ Goto(p, IF ~Readable THEN "release"
                      ELSE IF ledger.version = 1 THEN "legacy" ELSE "decide")
           /\ want' = [want EXCEPT ![p] = IF Readable THEN @ ELSE None]
           /\ UNCHANGED <<files, lock, acked, crashes>>

KeepLegacy(p) == /\ pc[p] = "legacy" /\ Goto(p, "migrate")
                 /\ legacy' = legacy \o buf[p].records
                 /\ buf' = [buf EXCEPT ![p] = Chain(legacy', buf[p].records)]
                 /\ UNCHANGED <<ledger, checkpoint, lock, want, acked, crashes>>

Migrate(p) == /\ pc[p] = "migrate" /\ Goto(p, "anchor")
              /\ ledger' = buf[p]
              /\ UNCHANGED <<checkpoint, legacy, lock, want, buf, acked, crashes>>

Anchor(p) == /\ pc[p] = "anchor" /\ Goto(p, "decide")
             /\ checkpoint' = buf[p]
             /\ UNCHANGED <<ledger, legacy, lock, want, buf, acked, crashes>>
-----------------------------------------------------------------------------
(* appendReceipt.                                                            *)
Existing(p) == {r \in Range(buf[p].records) : IdOf[r] = IdOf[want[p]]}

(* A draft whose receipt exists is answered with it, once the checkpoint is  *)
(* current; another content under its identity is a conflict.                *)
Decide(p) ==
  /\ pc[p] = "decide"
  /\ \/ want[p] = None /\ Goto(p, "release") /\ UNCHANGED want
     \/ want[p] # None /\ Existing(p) = {} /\ Goto(p, "write") /\ UNCHANGED want
     \/ /\ want[p] # None /\ want[p] \in Existing(p)
        /\ Goto(p, IF checkpoint = buf[p] THEN "release" ELSE "checkpoint")
        /\ UNCHANGED want
     \/ /\ want[p] # None /\ Existing(p) \ {want[p]} # {}
        /\ Goto(p, "release") /\ want' = [want EXCEPT ![p] = None]
  /\ UNCHANGED <<files, lock, buf, acked, crashes>>

(* Mutant: the checkpoint is published before the ledger.                    *)
CheckpointFirst(p) == /\ pc[p] = "write" /\ Goto(p, "checkpoint")
                      /\ buf' = [buf EXCEPT ![p].records = Append(@, want[p])]
                      /\ checkpoint' = buf'[p]
                      /\ UNCHANGED <<ledger, legacy, lock, want, acked, crashes>>

Write(p) == /\ pc[p] = "write" /\ Goto(p, "checkpoint")
            /\ buf' = [buf EXCEPT ![p].records = Append(@, want[p])]
            /\ ledger' = buf'[p]
            /\ UNCHANGED <<checkpoint, legacy, lock, want, acked, crashes>>

PublishCheckpoint(p) == /\ pc[p] = "checkpoint" /\ Goto(p, "release")
                        /\ checkpoint' = buf[p]
                        /\ UNCHANGED <<ledger, legacy, lock, want, buf, acked, crashes>>

(* A write fails before its rename; the error releases the lock as well.     *)
Fail(p) == /\ pc[p] \in {"legacy", "migrate", "anchor", "write", "checkpoint"}
           /\ crashes < MaxCrashes /\ crashes' = crashes + 1
           /\ Goto(p, "release") /\ want' = [want EXCEPT ![p] = None]
           /\ UNCHANGED <<files, lock, buf, acked>>

(* releaseLock, in the finally: a lock that is not p's is left, and the call *)
(* is an error whatever it did.                                              *)
Release(p) == /\ pc[p] = "release" /\ Goto(p, "idle")
              /\ IF lock.by = p
                 THEN /\ lock' = NoLock
                      /\ acked' = acked \union ({want[p]} \ {None})
                 ELSE UNCHANGED <<lock, acked>>
              /\ want' = [want EXCEPT ![p] = None]
              /\ buf' = [buf EXCEPT ![p] = Chain(<<>>, <<>>)]
              /\ UNCHANGED <<files, crashes>>
-----------------------------------------------------------------------------
(* Time, and death: the name p is then that of another process.              *)
Age == /\ lock.there /\ ~lock.old /\ (Slow \/ lock.text \/ lock.by = None)
       /\ lock' = [lock EXCEPT !.old = TRUE]
       /\ UNCHANGED <<files, pc, want, buf, acked, crashes>>

Die(p) == /\ pc[p] # "idle" /\ crashes < MaxCrashes
          /\ crashes' = crashes + 1 /\ Goto(p, "idle")
          /\ lock' = IF lock.by = p THEN [lock EXCEPT !.by = None] ELSE lock
          /\ want' = [want EXCEPT ![p] = None]
          /\ buf' = [buf EXCEPT ![p] = Chain(<<>>, <<>>)]
          /\ UNCHANGED <<files, acked>>

Step(p) == \/ Create(p) \/ Publish(p) \/ Inspect(p) \/ Unlink(p) \/ GiveUp(p)
           \/ Read(p) \/ KeepLegacy(p) \/ Migrate(p) \/ Anchor(p)
           \/ Decide(p) \/ Write(p) \/ PublishCheckpoint(p) \/ Release(p)

Next == \/ \E p \in Proc : \/ \E d \in Draft \union {None} : Begin(p, d)
                           \/ Step(p) \/ PublishFails(p) \/ Fail(p) \/ Die(p)
        \/ Age

Spec == Init /\ [][Next]_vars
-----------------------------------------------------------------------------
Drafts(records) == Range(records)

(* The files, the lock and every process have the shapes they are given.     *)
TypeOK ==
  /\ ledger.version \in {1, 2} /\ Drafts(ledger.records) \subseteq Draft
  /\ ledger.version = 1 => checkpoint = None
  /\ Drafts(legacy) \subseteq Draft /\ acked \subseteq Draft
  /\ lock.by \in Proc \union {None} /\ lock.there \in BOOLEAN /\ lock.text \in BOOLEAN
  /\ \A p \in Proc : want[p] \in Draft \union {None}
  /\ crashes \in 0..MaxCrashes

(* An append that returned is in the ledger for good: no other append, no    *)
(* migration, no crash and no error after it loses the record.               *)
Durable == acked \subseteq Drafts(ledger.records)

(* tests/receipt-ledger.test.mjs:226: a checkpoint publish that a fault cut  *)
(* off is recovered. Not the first one: a ledger without a checkpoint is     *)
(* TRUNCATED for every later call, the repeated append included.             *)
AlwaysReadable == ~lock.there => Readable
=============================================================================
