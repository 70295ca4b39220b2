--------------------------- MODULE DeliveryProofs ---------------------------
(* For any processes, deliveries, contexts and drafts: a delivery that says   *)
(* it ended has its receipt in a readable ledger, and only such a delivery    *)
(* loses its binding. Two reapers of one stale lock can both unlink, and a    *)
(* pause of a lease before a lock is written makes a living owner's lock      *)
(* stale; the theorems are about the ledger without the two.                 *)
EXTENDS Delivery, SequenceTheorems, TLAPS

Placed == {"publish"} \union Inside

(* Nobody but the reaper unlinks, and what it unlinks has no owner: who is    *)
(* inside holds the lock.                                                    *)
Exclusive ==
  /\ lock = [by |-> lock.by, text |-> lock.text, old |-> lock.old, there |-> lock.there]
  /\ lock.there \in BOOLEAN
  /\ lock.by # None => lock.there
  /\ lock.old /\ ~lock.text => lock.by = None
  /\ \A p \in Proc : pc[p] \in Placed => lock.by = p
  /\ \A p \in Proc : pc[p] \in Inside => lock.text
  /\ \A p \in Proc : pc[p] = "unlink" => p \in Reaper /\ lock.there /\ lock.by = None

(* A ledger and a chain are records over sequences of drafts.                 *)
ChainShape(l) == /\ l = [version |-> l.version, base |-> l.base, records |-> l.records]
                 /\ l.records \in Seq(Draft) /\ l.base \in Seq(Draft)

LedgerShapes == /\ ChainShape(ledger) /\ legacy \in Seq(Draft)
                /\ checkpoint # None => ChainShape(checkpoint)
                /\ ledger.version \in {1, 2}
                /\ pc = [p \in Proc |-> pc[p]] /\ want = [p \in Proc |-> want[p]]
                /\ buf = [p \in Proc |-> buf[p]]
                /\ \A p \in Proc : want[p] \in Draft \union {None}

(* A published checkpoint covers a prefix of the ledger for good, and what a  *)
(* process inside has read is the ledger, at the stage of the migration that  *)
(* its place says.                                                           *)
Anchored ==
  /\ ledger.version = 2 => ledger.base = legacy
  /\ ledger.version = 1 => checkpoint = None
  /\ checkpoint # None => Covers(checkpoint, ledger)
  /\ \A p \in Proc : pc[p] = "legacy" => buf[p] = ledger /\ ledger.version = 1
  /\ \A p \in Proc : pc[p] = "migrate" =>
       ledger.version = 1 /\ buf[p] = Chain(legacy, ledger.records)
  /\ \A p \in Proc : pc[p] = "anchor" => checkpoint = None
  /\ \A p \in Proc : pc[p] \in {"anchor", "decide", "write", "checkpoint"} =>
       ledger.version = 2 /\ buf[p] = ledger
  /\ \A p \in Proc : pc[p] = "write" => want[p] # None
  /\ \A p \in Proc : pc[p] = "checkpoint" => want[p] \in Range(ledger.records)
  /\ \A p \in Proc : pc[p] = "release" /\ want[p] # None =>
       checkpoint # None /\ want[p] \in Range(checkpoint.records)

LedgerInv == LedgerShapes /\ Exclusive /\ Anchored

(* Receipts that a state or a command relies on are under the checkpoint.     *)
Covered(r) == r # None /\ checkpoint # None /\ r \in Range(checkpoint.records)

CommandShape(c) == c = [at |-> c.at, id |-> c.id, of |-> c.of, rev |-> c.rev,
                        receipt |-> c.receipt]

CommandShapes ==
  /\ state = [d \in Id |-> state[d]] /\ command = [p \in Proc |-> command[p]]
  /\ context = [c \in Context |-> [rev |-> context[c].rev, id |-> context[c].id]]
  /\ \A p \in Proc : CommandShape(command[p]) /\ command[p].rev \in Nat
  /\ \A c \in Context : context[c].rev \in Nat

(* A command is inside the ledger exactly while it calls it, for its receipt  *)
(* or for none, and persists a receipt only once it is covered.              *)
Commands ==
  /\ \A p \in Proc : command[p].at # "idle" => command[p].id \in Id /\ command[p].of \in Context
  /\ \A p \in Proc : command[p].at \in {"append", "appending", "persist"} =>
       command[p].receipt \in Draft /\ command[p].receipt.of = command[p].id
  /\ \A p \in Proc : pc[p] # "idle" <=> command[p].at \in {"appending", "looking"}
  /\ \A p \in Proc : command[p].at = "appending" => want[p] \in {command[p].receipt, None}
  /\ \A p \in Proc : command[p].at = "looking" => want[p] = None
  /\ \A p \in Proc : command[p].at = "persist" => Covered(command[p].receipt)

EndsCovered ==
  \A d \in Id :
    /\ state[d].status \in {"absent", "active", "completed", "abandoned"}
    /\ state[d].status # "absent" => state[d].of \in Context
    /\ state[d].status \in {"absent", "active"} => state[d].receipt = None
    /\ state[d].status \in {"completed", "abandoned"} =>
         Covered(state[d].receipt) /\ state[d].receipt.of = d

ReceiptInv == LedgerInv /\ CommandShapes /\ Commands /\ EndsCovered

-----------------------------------------------------------------------------
(* Bindings, where no two starts run for one id.                              *)
Opening == {"create", "bind", "undo"}
Closing == {"append", "appending", "persist", "look", "looking", "clear"}

(* A start owns its id: it has no end, no binding and no command that ends it.*)
Starts ==
  /\ \A p, q \in Proc : (/\ command[p].at \in Opening /\ command[q].at \in Opening
                         /\ command[p].id = command[q].id) => p = q
  /\ \A p \in Proc : command[p].at \in Opening =>
       /\ state[command[p].id].receipt = None
       /\ \A c \in Context : context[c].id # command[p].id
       /\ \A q \in Proc : command[q].at \in Closing => command[q].id # command[p].id
  /\ \A p \in Proc : command[p].at = "bind" => state[command[p].id].status = "active"

Bounds ==
  \A c \in Context : context[c].id # None =>
    context[c].id \in Id /\ state[context[c].id].status # "absent"

(* The revision that an ending command read names the binding it read, for as *)
(* long as it is the context's.                                               *)
Closes ==
  \A p \in Proc : command[p].at \in Closing =>
    /\ state[command[p].id].status # "absent"
    /\ command[p].rev <= context[command[p].of].rev
    /\ command[p].rev = context[command[p].of].rev => context[command[p].of].id = command[p].id
    /\ command[p].at \in {"look", "looking", "clear"} => state[command[p].id].receipt # None

BindingInv == ReceiptInv /\ Starts /\ Bounds /\ Closes
-----------------------------------------------------------------------------
(* Prefixes and ranges of sequences.                                         *)
LEMMA PrefixOfItself ==
  ASSUME NEW S, NEW s \in Seq(S) PROVE IsPrefix(s, s)
  BY DEF IsPrefix

LEMMA PrefixOfLonger ==
  ASSUME NEW S, NEW s \in Seq(S), NEW t \in Seq(S), NEW x \in S, IsPrefix(s, t)
  PROVE  IsPrefix(s, Append(t, x))
<1>1. Len(s) \in Nat /\ Len(t) \in Nat /\ Len(s) <= Len(t) /\ Len(Append(t, x)) = Len(t) + 1
  BY DEF IsPrefix
<1>2. \A i \in 1..Len(s) : Append(t, x)[i] = t[i]
  BY <1>1
<1>3. SubSeq(Append(t, x), 1, Len(s)) = SubSeq(t, 1, Len(s))
  BY <1>1, <1>2
<1> QED BY <1>1, <1>3 DEF IsPrefix

LEMMA PrefixHolds ==
  ASSUME NEW S, NEW s \in Seq(S), NEW t \in Seq(S), IsPrefix(s, t)
  PROVE  Range(s) \subseteq Range(t)
<1> SUFFICES ASSUME NEW i \in 1..Len(s) PROVE s[i] \in Range(t)
  BY DEF Range
<1>1. Len(s) \in Nat /\ Len(t) \in Nat /\ Len(s) <= Len(t) /\ SubSeq(s, 1, Len(s)) = SubSeq(t, 1, Len(s))
  BY DEF IsPrefix
<1>2. SubSeq(s, 1, Len(s))[i] = s[i] /\ SubSeq(t, 1, Len(s))[i] = t[i]
  BY <1>1
<1>3. s[i] = t[i] /\ i \in 1..Len(t)
  BY <1>1, <1>2
<1> QED BY <1>3 DEF Range

LEMMA RangeOfLonger ==
  ASSUME NEW S, NEW t \in Seq(S), NEW x \in S
  PROVE  x \in Range(Append(t, x)) /\ Range(t) \subseteq Range(Append(t, x))
<1>1. /\ Append(t, x) \in Seq(S) /\ Len(Append(t, x)) = Len(t) + 1 /\ Len(t) \in Nat
      /\ DOMAIN Append(t, x) = 1..Len(t) + 1 /\ DOMAIN t = 1..Len(t)
  OBVIOUS
<1>2. Append(t, x)[Len(t) + 1] = x /\ \A i \in 1..Len(t) : Append(t, x)[i] = t[i]
  BY <1>1
<1> QED BY <1>1, <1>2 DEF Range

-----------------------------------------------------------------------------
(* The lock and the ledger.                                                  *)
LEMMA NoneIsApart == None \notin Proc /\ None \notin Draft /\ None \notin Id /\ None \notin Context
  BY LedgerAssumption, DeliveryAssumption

(* One process at most is past the creation of the lock.                     *)
LEMMA OneInside ==
  ASSUME LedgerInv, NEW p \in Proc, pc[p] \in Placed, NEW q \in Proc \ {p}
  PROVE  pc[q] \notin Placed
  BY DEF LedgerInv, Exclusive

(* A call goes to a place outside the lock, or stays inside, and the files    *)
(* stay what they were.                                                      *)
LEMMA CallMoves ==
  ASSUME LedgerInv, NEW p \in Proc, NEW place, Goto(p, place),
         want' = [want EXCEPT ![p] = want'[p]], want'[p] \in Draft \union {None},
         buf' = [buf EXCEPT ![p] = buf'[p]], UNCHANGED files
  PROVE  /\ LedgerShapes' /\ pc'[p] = place
         /\ \A q \in Proc \ {p} : pc'[q] = pc[q] /\ want'[q] = want[q] /\ buf'[q] = buf[q]
  BY DEF LedgerInv, LedgerShapes, ChainShape, Goto, files

LEMMA BeginLeads ==
  ASSUME LedgerInv, NEW p \in Proc, NEW d \in Draft \union {None}, Begin(p, d)
  PROVE  LedgerInv' /\ pc'[p] # "idle" /\ want'[p] = d
         /\ \A q \in Proc \ {p} : pc'[q] = pc[q] /\ want'[q] = want[q]
<1>1. /\ pc[p] = "idle" /\ pc'[p] = "acquire" /\ want'[p] = d /\ UNCHANGED <<files, lock>> /\ LedgerShapes'
      /\ \A q \in Proc \ {p} : pc'[q] = pc[q] /\ want'[q] = want[q] /\ buf'[q] = buf[q]
  BY CallMoves DEF LedgerInv, LedgerShapes, Begin
<1>2. Exclusive'
  BY <1>1 DEF LedgerInv, Exclusive, Placed, Inside
<1>3. Anchored'
  BY <1>1 DEF LedgerInv, Anchored, Covers, files
<1> QED BY <1>1, <1>2, <1>3 DEF LedgerInv

(* At most one process unlinks stale locks.                                  *)
OneReaper == \A p, q \in Reaper : p = q

LEMMA CreateLeads ==
  ASSUME LedgerInv, OneReaper, ~Slow, NEW p \in Proc, Create(p)
  PROVE  LedgerInv'
<1>1. /\ pc[p] = "acquire" /\ pc'[p] = "publish" /\ want'[p] = want[p] /\ UNCHANGED files /\ LedgerShapes'
      /\ \A q \in Proc \ {p} : pc'[q] = pc[q] /\ want'[q] = want[q] /\ buf'[q] = buf[q]
  BY CallMoves DEF LedgerInv, LedgerShapes, Create
<1>2. Exclusive'
  BY <1>1, NoneIsApart DEF LedgerInv, Exclusive, Placed, Inside, Create
<1>3. Anchored'
  BY <1>1 DEF LedgerInv, Anchored, Covers, files
<1> QED BY <1>1, <1>2, <1>3 DEF LedgerInv

LEMMA PublishLeads ==
  ASSUME LedgerInv, OneReaper, ~Slow, NEW p \in Proc, Publish(p)
  PROVE  LedgerInv'
<1>1. /\ pc[p] = "publish" /\ pc'[p] = (IF lock.there THEN "read" ELSE "idle") /\ UNCHANGED files /\ LedgerShapes'
      /\ \A q \in Proc \ {p} : pc'[q] = pc[q] /\ want'[q] = want[q] /\ buf'[q] = buf[q]
  BY CallMoves DEF LedgerInv, LedgerShapes, Publish
<1>2. Exclusive'
  BY <1>1, NoneIsApart DEF LedgerInv, Exclusive, Placed, Inside, Publish
<1>3. Anchored'
  BY <1>1 DEF LedgerInv, Anchored, Covers, files
<1> QED BY <1>1, <1>2, <1>3 DEF LedgerInv

LEMMA PublishFailsLeads ==
  ASSUME LedgerInv, OneReaper, ~Slow, NEW p \in Proc, PublishFails(p)
  PROVE  LedgerInv'
<1>1. /\ pc[p] = "publish" /\ pc'[p] = "idle" /\ UNCHANGED files /\ LedgerShapes'
      /\ \A q \in Proc \ {p} : pc'[q] = pc[q] /\ want'[q] = want[q] /\ buf'[q] = buf[q]
  BY CallMoves DEF LedgerInv, LedgerShapes, PublishFails
<1>2. Exclusive'
  BY <1>1, NoneIsApart DEF LedgerInv, Exclusive, Placed, Inside, PublishFails, NoLock
<1>3. Anchored'
  BY <1>1 DEF LedgerInv, Anchored, Covers, files
<1> QED BY <1>1, <1>2, <1>3 DEF LedgerInv

LEMMA InspectLeads ==
  ASSUME LedgerInv, OneReaper, ~Slow, NEW p \in Proc, Inspect(p)
  PROVE  LedgerInv'
<1>1. /\ pc[p] = "acquire" /\ pc'[p] = "unlink" /\ want'[p] = want[p] /\ UNCHANGED files /\ LedgerShapes'
      /\ \A q \in Proc \ {p} : pc'[q] = pc[q] /\ want'[q] = want[q] /\ buf'[q] = buf[q]
  BY CallMoves DEF LedgerInv, LedgerShapes, Inspect
<1>2. Exclusive'
  BY <1>1, NoneIsApart DEF LedgerInv, Exclusive, Placed, Inside, Inspect, Stale
<1>3. Anchored'
  BY <1>1 DEF LedgerInv, Anchored, Covers, files
<1> QED BY <1>1, <1>2, <1>3 DEF LedgerInv

LEMMA UnlinkLeads ==
  ASSUME LedgerInv, OneReaper, ~Slow, NEW p \in Proc, Unlink(p)
  PROVE  LedgerInv'
<1>1. /\ pc[p] = "unlink" /\ pc'[p] = "acquire" /\ want'[p] = want[p] /\ UNCHANGED files /\ LedgerShapes'
      /\ \A q \in Proc \ {p} : pc'[q] = pc[q] /\ want'[q] = want[q] /\ buf'[q] = buf[q]
  BY CallMoves DEF LedgerInv, LedgerShapes, Unlink
<1>2. Exclusive'
  BY <1>1, NoneIsApart DEF LedgerInv, Exclusive, Placed, Inside, Unlink, NoLock, OneReaper
<1>3. Anchored'
  BY <1>1 DEF LedgerInv, Anchored, Covers, files
<1> QED BY <1>1, <1>2, <1>3 DEF LedgerInv

LEMMA GiveUpLeads ==
  ASSUME LedgerInv, OneReaper, ~Slow, NEW p \in Proc, GiveUp(p)
  PROVE  LedgerInv'
<1>1. /\ pc[p] = "acquire" /\ pc'[p] = "idle" /\ UNCHANGED files /\ LedgerShapes'
      /\ \A q \in Proc \ {p} : pc'[q] = pc[q] /\ want'[q] = want[q] /\ buf'[q] = buf[q]
  BY CallMoves DEF LedgerInv, LedgerShapes, GiveUp
<1>2. Exclusive'
  BY <1>1, NoneIsApart DEF LedgerInv, Exclusive, Placed, Inside, GiveUp
<1>3. Anchored'
  BY <1>1 DEF LedgerInv, Anchored, Covers, files
<1> QED BY <1>1, <1>2, <1>3 DEF LedgerInv

LEMMA ReadLeads ==
  ASSUME LedgerInv, NEW p \in Proc, Read(p)
  PROVE  LedgerInv'
<1>1. /\ pc[p] = "read" /\ pc'[p] = (IF ~Readable THEN "release"
                                     ELSE IF ledger.version = 1 THEN "legacy" ELSE "decide")
      /\ buf'[p] = ledger /\ (~Readable => want'[p] = None) /\ UNCHANGED <<files, lock>> /\ LedgerShapes'
      /\ \A q \in Proc \ {p} : pc'[q] = pc[q] /\ want'[q] = want[q] /\ buf'[q] = buf[q]
  BY CallMoves DEF LedgerInv, LedgerShapes, Read
<1>2. Exclusive'
  BY <1>1 DEF LedgerInv, Exclusive, Placed, Inside
<1>3. Anchored'
  BY <1>1 DEF LedgerInv, LedgerShapes, Anchored, Covers, files
<1> QED BY <1>1, <1>2, <1>3 DEF LedgerInv

LEMMA LedgerIsThere ==
  ASSUME LedgerInv PROVE ledger # None
<1>1. ledger \in [version : {1, 2}, base : Seq(Draft), records : Seq(Draft)]
  BY DEF LedgerInv, LedgerShapes, ChainShape
<1> QED BY <1>1, LedgerAssumption

(* While one process is inside, nobody else has read anything.               *)
LEMMA FilesGoAlone ==
  ASSUME LedgerInv, NEW p \in Proc, pc[p] \in Inside, pc'[p] \in Inside,
         \A q \in Proc \ {p} : pc'[q] = pc[q], UNCHANGED lock
  PROVE  Exclusive' /\ \A q \in Proc \ {p} : pc'[q] \notin Placed
<1>1. Exclusive'
  BY DEF LedgerInv, Exclusive, Placed, Inside
<1> QED BY <1>1, OneInside DEF Placed

LEMMA KeepLegacyLeads ==
  ASSUME LedgerInv, NEW p \in Proc, KeepLegacy(p)
  PROVE  LedgerInv' /\ UNCHANGED checkpoint
<1>1. /\ pc[p] = "legacy" /\ pc'[p] = "migrate" /\ buf[p] = ledger /\ ledger.version = 1
      /\ legacy' = legacy \o ledger.records /\ buf'[p] = Chain(legacy', ledger.records)
      /\ checkpoint = None /\ UNCHANGED <<ledger, checkpoint, lock, want>>
      /\ \A q \in Proc \ {p} : pc'[q] = pc[q]
  BY DEF LedgerInv, LedgerShapes, Anchored, KeepLegacy, Goto
<1>2. legacy \o ledger.records \in Seq(Draft)
  BY ConcatProperties DEF LedgerInv, LedgerShapes, ChainShape
<1> LedgerShapes'
  BY <1>1, <1>2 DEF LedgerInv, LedgerShapes, ChainShape, KeepLegacy, Goto
<1>3. Exclusive' /\ \A q \in Proc \ {p} : pc'[q] \notin Placed
  BY <1>1, FilesGoAlone DEF Inside
<1>4. Anchored'
  BY <1>1, <1>3 DEF LedgerInv, LedgerShapes, Anchored, Placed, Inside
<1> QED BY <1>1, <1>2, <1>3, <1>4 DEF LedgerInv

LEMMA MigrateLeads ==
  ASSUME LedgerInv, NEW p \in Proc, Migrate(p)
  PROVE  LedgerInv' /\ UNCHANGED checkpoint
<1>1. /\ pc[p] = "migrate" /\ pc'[p] = "anchor" /\ ledger' = Chain(legacy, ledger.records)
      /\ checkpoint = None /\ buf'[p] = ledger' /\ UNCHANGED <<checkpoint, legacy, lock, want>>
      /\ \A q \in Proc \ {p} : pc'[q] = pc[q]
  BY DEF LedgerInv, LedgerShapes, Anchored, Migrate, Goto
<1>2. ledger'.version = 2 /\ ledger'.base = legacy /\ ledger'.records = ledger.records /\ ChainShape(ledger)'
  BY <1>1 DEF LedgerInv, LedgerShapes, ChainShape, Chain
<1>3. LedgerShapes'
  BY <1>1, <1>2 DEF LedgerInv, LedgerShapes, ChainShape, Migrate, Goto
<1>4. Exclusive' /\ \A q \in Proc \ {p} : pc'[q] \notin Placed
  BY <1>1, FilesGoAlone DEF Inside
<1>5. Anchored'
  BY <1>1, <1>2, <1>4 DEF LedgerInv, LedgerShapes, Anchored, Placed, Inside
<1> QED BY <1>1, <1>3, <1>4, <1>5 DEF LedgerInv

LEMMA AnchorLeads ==
  ASSUME LedgerInv, NEW p \in Proc, Anchor(p)
  PROVE  LedgerInv' /\ checkpoint = None
<1>1. /\ pc[p] = "anchor" /\ pc'[p] = "decide" /\ checkpoint = None /\ checkpoint' = ledger
      /\ ledger.version = 2 /\ buf'[p] = ledger /\ UNCHANGED <<ledger, legacy, lock, want>>
      /\ \A q \in Proc \ {p} : pc'[q] = pc[q]
  BY DEF LedgerInv, LedgerShapes, Anchored, Anchor, Goto
<1>2. LedgerShapes'
  BY <1>1 DEF LedgerInv, LedgerShapes, ChainShape, Anchor, Goto
<1>3. Exclusive' /\ \A q \in Proc \ {p} : pc'[q] \notin Placed
  BY <1>1, FilesGoAlone DEF Inside
<1>4. Covers(checkpoint, ledger)'
  BY <1>1, PrefixOfItself DEF LedgerInv, LedgerShapes, ChainShape, Covers
<1>5. Anchored'
  BY <1>1, <1>3, <1>4 DEF LedgerInv, LedgerShapes, Anchored, Placed, Inside
<1> QED BY <1>1, <1>2, <1>3, <1>5 DEF LedgerInv

LEMMA DecideLeads ==
  ASSUME LedgerInv, NEW p \in Proc, Decide(p)
  PROVE  LedgerInv' /\ UNCHANGED checkpoint
<1>1. /\ pc[p] = "decide" /\ UNCHANGED <<files, lock, buf>> /\ buf[p] = ledger /\ ledger.version = 2
      /\ \A q \in Proc \ {p} : pc'[q] = pc[q] /\ want'[q] = want[q]
      /\ \/ pc'[p] = "release" /\ want'[p] = None
         \/ pc'[p] = "write" /\ want'[p] = want[p] /\ want[p] # None
         \/ /\ want'[p] = want[p] /\ want[p] # None /\ want[p] \in Range(ledger.records)
            /\ pc'[p] = (IF checkpoint = ledger THEN "release" ELSE "checkpoint")
  BY DEF LedgerInv, LedgerShapes, Anchored, Decide, Existing, Goto
<1>2. LedgerShapes'
  BY <1>1 DEF LedgerInv, LedgerShapes, ChainShape, Decide, Goto, files
<1>3. Exclusive' /\ \A q \in Proc \ {p} : pc'[q] \notin Placed
  BY <1>1, FilesGoAlone DEF Inside
<1>4. ledger # None
  BY LedgerIsThere
<1>5. Anchored'
  BY <1>1, <1>3, <1>4 DEF LedgerInv, LedgerShapes, Anchored, Placed, Inside, files, Covers
<1> QED BY <1>1, <1>2, <1>3, <1>5 DEF LedgerInv, files

LEMMA WriteLeads ==
  ASSUME LedgerInv, NEW p \in Proc, Write(p)
  PROVE  LedgerInv' /\ UNCHANGED checkpoint
<1>1. /\ pc[p] = "write" /\ pc'[p] = "checkpoint" /\ UNCHANGED <<checkpoint, legacy, lock, want>>
      /\ want[p] \in Draft /\ buf[p] = ledger /\ ledger.version = 2
      /\ buf' = [buf EXCEPT ![p].records = Append(@, want[p])] /\ ledger' = buf'[p]
      /\ \A q \in Proc \ {p} : pc'[q] = pc[q]
  BY DEF LedgerInv, LedgerShapes, Anchored, Write, Goto
<1> DEFINE old == ledger.records
           d == want[p]
<1>2. /\ ledger = [version |-> ledger.version, base |-> ledger.base, records |-> old]
      /\ old \in Seq(Draft) /\ ledger.base \in Seq(Draft) /\ d \in Draft
  BY <1>1 DEF LedgerInv, LedgerShapes, ChainShape
<1>3. /\ ledger' = [version |-> ledger.version, base |-> ledger.base, records |-> Append(old, d)]
      /\ buf'[p] = ledger'
  BY <1>1, <1>2 DEF LedgerInv, LedgerShapes
<1>4. Append(old, d) \in Seq(Draft)
  BY <1>2, AppendProperties
<1>5. checkpoint # None => /\ checkpoint.base = ledger.base
                           /\ IsPrefix(checkpoint.records, Append(old, d))
  BY <1>2, PrefixOfLonger DEF LedgerInv, LedgerShapes, ChainShape, Anchored, Covers
<1>6. d \in Range(Append(old, d))
  BY <1>2, RangeOfLonger
<1>7. LedgerShapes'
  <2>1. buf' = [q \in Proc |-> buf'[q]] /\ pc' = [q \in Proc |-> pc'[q]]
    BY <1>1 DEF LedgerInv, LedgerShapes, Write, Goto
  <2>2. ChainShape(ledger)' /\ ledger'.version = ledger.version
    BY <1>2, <1>3, <1>4 DEF ChainShape
  <2> QED BY <1>1, <2>1, <2>2 DEF LedgerInv, LedgerShapes, ChainShape
<1>8. /\ ledger'.version = 2 /\ ledger'.base = ledger.base /\ ledger'.records = Append(old, d)
      /\ d = want'[p]
  BY <1>1, <1>3
<1>9. Exclusive' /\ \A q \in Proc \ {p} : pc'[q] \notin Placed
  BY <1>1, FilesGoAlone DEF Inside
<1> HIDE DEF old, d
<1>10. Anchored'
  BY <1>1, <1>3, <1>5, <1>6, <1>8, <1>9 DEF LedgerInv, Anchored, Covers, Placed, Inside
<1> QED BY <1>1, <1>7, <1>9, <1>10 DEF LedgerInv

LEMMA PublishCheckpointLeads ==
  ASSUME LedgerInv, NEW p \in Proc, PublishCheckpoint(p)
  PROVE  LedgerInv' /\ checkpoint' = ledger
<1>1. /\ pc[p] = "checkpoint" /\ pc'[p] = "release" /\ checkpoint' = ledger
      /\ ledger.version = 2 /\ UNCHANGED <<ledger, legacy, lock, want, buf>>
      /\ want[p] \in Range(ledger.records)
      /\ \A q \in Proc \ {p} : pc'[q] = pc[q]
  BY DEF LedgerInv, LedgerShapes, Anchored, PublishCheckpoint, Goto
<1>2. LedgerShapes'
  BY <1>1 DEF LedgerInv, LedgerShapes, ChainShape, PublishCheckpoint, Goto
<1>3. Exclusive' /\ \A q \in Proc \ {p} : pc'[q] \notin Placed
  BY <1>1, FilesGoAlone DEF Inside
<1>4. Covers(checkpoint, ledger)'
  BY <1>1, PrefixOfItself DEF LedgerInv, LedgerShapes, ChainShape, Covers
<1>5. Anchored'
  BY <1>1, <1>3, <1>4, LedgerIsThere DEF LedgerInv, LedgerShapes, Anchored, Placed, Inside
<1> QED BY <1>1, <1>2, <1>3, <1>5 DEF LedgerInv

LEMMA FailLeads ==
  ASSUME LedgerInv, NEW p \in Proc, Fail(p)
  PROVE  LedgerInv'
<1>1. /\ pc[p] \in Inside /\ pc'[p] = "release" /\ want'[p] = None /\ UNCHANGED <<files, lock>>
      /\ LedgerShapes'
      /\ \A q \in Proc \ {p} : pc'[q] = pc[q] /\ want'[q] = want[q] /\ buf'[q] = buf[q]
  BY CallMoves DEF LedgerInv, LedgerShapes, Fail, Inside
<1>2. Exclusive'
  BY <1>1 DEF LedgerInv, Exclusive, Placed, Inside
<1>3. Anchored'
  BY <1>1 DEF LedgerInv, Anchored, Covers, files
<1> QED BY <1>1, <1>2, <1>3 DEF LedgerInv

LEMMA ReleaseLeads ==
  ASSUME LedgerInv, NEW p \in Proc, Release(p)
  PROVE  LedgerInv' /\ lock.by = p
<1>1. lock.by = p /\ pc[p] = "release"
  BY DEF LedgerInv, Exclusive, Placed, Inside, Release
<1>2. /\ pc'[p] = "idle" /\ lock' = NoLock /\ UNCHANGED files /\ LedgerShapes'
      /\ \A q \in Proc \ {p} : pc'[q] = pc[q] /\ want'[q] = want[q] /\ buf'[q] = buf[q]
  BY <1>1, CallMoves DEF LedgerInv, LedgerShapes, Release
<1>3. Exclusive'
  BY <1>1, <1>2, NoneIsApart DEF LedgerInv, Exclusive, Placed, Inside, NoLock
<1>4. Anchored'
  BY <1>2 DEF LedgerInv, Anchored, Covers, files
<1> QED BY <1>1, <1>2, <1>3, <1>4 DEF LedgerInv

LEMMA DieLeads ==
  ASSUME LedgerInv, NEW p \in Proc, Die(p)
  PROVE  LedgerInv' /\ UNCHANGED checkpoint /\ pc'[p] = "idle"
         /\ \A q \in Proc \ {p} : pc'[q] = pc[q] /\ want'[q] = want[q]
<1>1. /\ pc'[p] = "idle" /\ UNCHANGED files /\ LedgerShapes'
      /\ \A q \in Proc \ {p} : pc'[q] = pc[q] /\ want'[q] = want[q] /\ buf'[q] = buf[q]
  BY CallMoves DEF LedgerInv, LedgerShapes, Die
<1>2. Exclusive'
  BY <1>1, NoneIsApart DEF LedgerInv, Exclusive, Placed, Inside, Die
<1>3. Anchored'
  BY <1>1 DEF LedgerInv, Anchored, Covers, files
<1> QED BY <1>1, <1>2, <1>3 DEF LedgerInv, files

LEMMA AgeLeads ==
  ASSUME LedgerInv, ~Slow, Age
  PROVE  LedgerInv'
<1>1. UNCHANGED <<files, pc, want, buf>>
  BY DEF Age
<1>2. LedgerShapes' /\ Anchored'
  BY <1>1 DEF LedgerInv, LedgerShapes, ChainShape, Anchored, Covers, files
<1>3. /\ lock' = [by |-> lock'.by, text |-> lock'.text, old |-> lock'.old, there |-> lock'.there]
      /\ lock'.by = lock.by /\ lock'.text = lock.text /\ lock'.there = lock.there
      /\ lock.text \/ lock.by = None
  BY DEF LedgerInv, Exclusive, Age
<1>4. Exclusive'
  BY <1>1, <1>3 DEF LedgerInv, Exclusive
<1> QED BY <1>2, <1>4 DEF LedgerInv

(* Every step of a process inside the ledger.                                *)
LEMMA StepLeads ==
  ASSUME LedgerInv, OneReaper, ~Slow, NEW p \in Proc, Step(p) \/ PublishFails(p) \/ Fail(p)
  PROVE  /\ LedgerInv' /\ pc[p] # "idle" /\ want'[p] \in {want[p], None}
         /\ \A q \in Proc \ {p} : pc'[q] = pc[q] /\ want'[q] = want[q]
         /\ UNCHANGED checkpoint \/ checkpoint = None \/ checkpoint' = ledger
<1>1. LedgerInv'
  BY CreateLeads, PublishLeads, PublishFailsLeads, InspectLeads, UnlinkLeads, GiveUpLeads,
     ReadLeads, KeepLegacyLeads, MigrateLeads, AnchorLeads, DecideLeads, WriteLeads,
     PublishCheckpointLeads, FailLeads, ReleaseLeads DEF Step
<1>2. UNCHANGED checkpoint \/ checkpoint = None \/ checkpoint' = ledger
  BY AnchorLeads, PublishCheckpointLeads
     DEF Step, Create, Publish, PublishFails, Inspect, Unlink, GiveUp, Read, KeepLegacy,
         Migrate, Decide, Write, Fail, Release, files
<1>3. /\ pc[p] # "idle" /\ pc' = [pc EXCEPT ![p] = pc'[p]]
      /\ want' = want \/ want' = [want EXCEPT ![p] = None] \/ want' = [want EXCEPT ![p] = @]
  BY DEF Step, Create, Publish, PublishFails, Inspect, Unlink, GiveUp, Read, KeepLegacy,
         Migrate, Anchor, Decide, Write, PublishCheckpoint, Fail, Release, Goto, LedgerInv, LedgerShapes
<1> QED BY <1>1, <1>2, <1>3 DEF LedgerInv, LedgerShapes

(* What a checkpoint covers is in the ledger, and every later checkpoint      *)
(* covers it.                                                                *)
LEMMA CoveredIsThere ==
  ASSUME LedgerInv, NEW r, Covered(r) PROVE Readable /\ r \in Range(ledger.records)
<1>1. /\ checkpoint # None /\ ledger.version = 2 /\ ledger.base = legacy /\ Covers(checkpoint, ledger)
      /\ ChainShape(ledger) /\ ChainShape(checkpoint)
  BY DEF LedgerInv, LedgerShapes, Anchored, Covered
<1>2. Range(checkpoint.records) \subseteq Range(ledger.records)
  BY <1>1, PrefixHolds DEF Covers, ChainShape
<1> QED BY <1>1, <1>2 DEF Covered, Readable

LEMMA CoveredStays ==
  ASSUME LedgerInv, UNCHANGED checkpoint \/ checkpoint = None \/ checkpoint' = ledger
  PROVE  \A r : Covered(r) => Covered(r)'
<1> SUFFICES ASSUME NEW r, Covered(r), checkpoint' = ledger PROVE Covered(r)'
  BY DEF Covered
<1>1. r \in Range(ledger.records)
  BY CoveredIsThere
<1> QED BY <1>1, LedgerIsThere DEF Covered

LEMMA LedgerRests ==
  ASSUME LedgerInv, UNCHANGED ledgerVars
  PROVE  LedgerInv' /\ \A r : Covered(r) => Covered(r)'
  BY DEF LedgerInv, LedgerShapes, ChainShape, Exclusive, Anchored, Covers, Covered, ledgerVars, files

(* One process moves; the states and the contexts rest.                      *)
LEMMA CommandMoves ==
  ASSUME CommandShapes, NEW p \in Proc, NEW c, command' = [command EXCEPT ![p] = c],
         CommandShape(c), c.rev \in Nat
  PROVE  /\ command'[p] = c /\ \A q \in Proc \ {p} : command'[q] = command[q]
         /\ command' = [q \in Proc |-> command'[q]]
         /\ \A q \in Proc : CommandShape(command'[q]) /\ command'[q].rev \in Nat
         /\ UNCHANGED <<state, context>> => CommandShapes'
  BY DEF CommandShapes, CommandShape

LEMMA PlaceMoves ==
  ASSUME CommandShapes, NEW p \in Proc, NEW place, Moves(p, place)
  PROVE  /\ command'[p] = [command[p] EXCEPT !.at = place] /\ command'[p].at = place
         /\ command'[p].id = command[p].id /\ command'[p].of = command[p].of
         /\ command'[p].rev = command[p].rev /\ command'[p].receipt = command[p].receipt
         /\ \A q \in Proc \ {p} : command'[q] = command[q]
         /\ command' = [q \in Proc |-> command'[q]]
         /\ \A q \in Proc : CommandShape(command'[q]) /\ command'[q].rev \in Nat
         /\ UNCHANGED <<state, context>> => CommandShapes'
<1> DEFINE old == command[p]
           new == [old EXCEPT !.at = place]
<1>1. CommandShape(old) /\ old.rev \in Nat
  BY DEF CommandShapes
<1>2. /\ new.at = place /\ new.id = old.id /\ new.of = old.of /\ new.rev = old.rev
      /\ new.receipt = old.receipt /\ CommandShape(new)
  BY <1>1 DEF CommandShape
<1>3. command' = [command EXCEPT ![p] = new]
  BY DEF Moves, CommandShapes
<1> HIDE DEF new
<1>4. new.rev \in Nat
  BY <1>1, <1>2
<1>5. command'[p] = new
  BY <1>2, <1>3, <1>4, CommandMoves
<1> QED BY <1>2, <1>3, <1>4, <1>5, CommandMoves DEF new

LEMMA CommandEnds ==
  ASSUME CommandShapes, NEW p \in Proc, Ends(p)
  PROVE  /\ command'[p] = NoCommand /\ command'[p].at = "idle"
         /\ \A q \in Proc \ {p} : command'[q] = command[q]
         /\ command' = [q \in Proc |-> command'[q]]
         /\ \A q \in Proc : CommandShape(command'[q]) /\ command'[q].rev \in Nat
         /\ UNCHANGED <<state, context>> => CommandShapes'
<1>1. CommandShape(NoCommand) /\ NoCommand.rev \in Nat /\ NoCommand.at = "idle"
  BY DEF NoCommand, CommandShape
<1> QED BY <1>1, CommandMoves DEF Ends

LEMMA CommandCalls ==
  ASSUME CommandShapes, NEW p \in Proc, NEW place, NEW d, NEW c \in Context, NEW r,
         Calls(p, place, d, c, r)
  PROVE  /\ command'[p].at = place /\ command'[p].id = d /\ command'[p].of = c
         /\ command'[p].rev = context[c].rev /\ command'[p].receipt = r
         /\ \A q \in Proc \ {p} : command'[q] = command[q]
         /\ UNCHANGED <<state, context>> => CommandShapes'
<1> DEFINE new == [at |-> place, id |-> d, of |-> c, rev |-> context[c].rev, receipt |-> r]
<1>1. CommandShape(new) /\ new.rev \in Nat
  BY DEF CommandShape, CommandShapes
<1>2. command' = [command EXCEPT ![p] = new]
  BY DEF Calls
<1>3. new.at = place /\ new.id = d /\ new.of = c /\ new.rev = context[c].rev /\ new.receipt = r
  OBVIOUS
<1> HIDE DEF new
<1> QED BY <1>1, <1>2, <1>3, CommandMoves

LEMMA Rebinds ==
  ASSUME CommandShapes, NEW c \in Context, NEW d, Rebind(c, d)
  PROVE  /\ context'[c] = [rev |-> context[c].rev + 1, id |-> d]
         /\ \A e \in Context \ {c} : context'[e] = context[e]
         /\ context' = [e \in Context |-> [rev |-> context'[e].rev, id |-> context'[e].id]]
         /\ \A e \in Context : context'[e].rev \in Nat
<1>1. context[c].rev \in Nat /\ \A e \in Context : context[e] = [rev |-> context[e].rev, id |-> context[e].id]
  BY DEF CommandShapes
<1>2. /\ context'[c] = [rev |-> context[c].rev + 1, id |-> d]
      /\ \A e \in Context \ {c} : context'[e] = context[e]
      /\ context' = [e \in Context |-> context'[e]]
  BY DEF CommandShapes, Rebind
<1>3. \A e \in Context : context'[e] = [rev |-> context'[e].rev, id |-> context'[e].id]
  BY <1>1, <1>2
<1>4. \A e \in Context : context'[e].rev \in Nat
  BY <1>1, <1>2 DEF CommandShapes
<1> QED BY <1>2, <1>3, <1>4

-----------------------------------------------------------------------------
(* Every command keeps the ends covered.                                     *)
LEMMA StartEnds ==
  ASSUME ReceiptInv, NEW p \in Proc, NEW d \in Id, NEW c \in Context, Start(p, d, c)
  PROVE  /\ ReceiptInv'
         /\ pc[p] = "idle" /\ command[p].at = "idle" /\ UNCHANGED <<state, context>>
         /\ state[d] = Absent /\ context[c].id = None /\ (UniqueIds => ~Starting(d))
         /\ command'[p].at = "create" /\ command'[p].id = d /\ command'[p].of = c
         /\ \A q \in Proc \ {p} : command'[q] = command[q]
<1>1. /\ UNCHANGED ledgerVars /\ CommandShapes'
      /\ pc[p] = "idle" /\ command[p].at = "idle" /\ UNCHANGED <<state, context>>
      /\ state[d] = Absent /\ context[c].id = None /\ (UniqueIds => ~Starting(d))
      /\ command'[p].at = "create" /\ command'[p].id = d /\ command'[p].of = c
      /\ \A q \in Proc \ {p} : command'[q] = command[q]
  BY CommandCalls DEF ReceiptInv, Start, Idles, NoCommand, vars, ledgerVars
<1>2. LedgerInv' /\ \A e : Covered(e) => Covered(e)'
  BY <1>1, LedgerRests DEF ReceiptInv
<1>3. Commands'
  BY <1>1, <1>2 DEF ReceiptInv, Commands, EndsCovered, ledgerVars
<1>4. EndsCovered'
  BY <1>1, <1>2, <1>3 DEF ReceiptInv, Commands, EndsCovered
<1> QED BY <1>1, <1>2, <1>3, <1>4 DEF ReceiptInv

LEMMA WriteStateEnds ==
  ASSUME ReceiptInv, NEW p \in Proc, WriteState(p)
  PROVE  /\ ReceiptInv'
         /\ UNCHANGED context
         /\ command[p].at = "create" /\ command'[p].at = "bind" /\ command[p].id \in Id
         /\ command'[p].id = command[p].id /\ command'[p].of = command[p].of
         /\ command'[p].rev = command[p].rev /\ command'[p].receipt = command[p].receipt
         /\ \A q \in Proc \ {p} : command'[q] = command[q]
         /\ state'[command[p].id].status = "active" /\ state'[command[p].id].receipt = None
         /\ \A d \in Id \ {command[p].id} : state'[d] = state[d]
<1>1. /\ UNCHANGED ledgerVars /\ CommandShapes'
      /\ UNCHANGED context
      /\ command[p].at = "create" /\ command'[p].at = "bind" /\ command[p].id \in Id
      /\ command'[p].id = command[p].id /\ command'[p].of = command[p].of
         /\ command'[p].rev = command[p].rev /\ command'[p].receipt = command[p].receipt
      /\ \A q \in Proc \ {p} : command'[q] = command[q]
      /\ state'[command[p].id] = [status |-> "active", of |-> command[p].of, receipt |-> None]
      /\ \A d \in Id \ {command[p].id} : state'[d] = state[d]
  BY PlaceMoves DEF ReceiptInv, CommandShapes, Commands, WriteState, vars, ledgerVars
<1>2. LedgerInv' /\ \A e : Covered(e) => Covered(e)'
  BY <1>1, LedgerRests DEF ReceiptInv
<1>3. Commands'
  BY <1>1, <1>2 DEF ReceiptInv, Commands, EndsCovered, ledgerVars
<1>4. EndsCovered'
  BY <1>1, <1>2, <1>3 DEF ReceiptInv, Commands, EndsCovered
<1> QED BY <1>1, <1>2, <1>3, <1>4 DEF ReceiptInv

LEMMA BindEnds ==
  ASSUME ReceiptInv, NEW p \in Proc, Bind(p)
  PROVE  /\ ReceiptInv'
         /\ UNCHANGED state
         /\ command[p].at = "bind" /\ command'[p].at = "idle" /\ command[p].of \in Context /\ command[p].id \in Id
         /\ \A q \in Proc \ {p} : command'[q] = command[q]
         /\ context'[command[p].of].rev = context[command[p].of].rev + 1
         /\ context'[command[p].of].id = command[p].id
         /\ \A c \in Context \ {command[p].of} : context'[c] = context[c]
<1>1. /\ UNCHANGED ledgerVars /\ CommandShapes'
      /\ UNCHANGED state
      /\ command[p].at = "bind" /\ command'[p].at = "idle" /\ command[p].of \in Context /\ command[p].id \in Id
      /\ \A q \in Proc \ {p} : command'[q] = command[q]
      /\ context'[command[p].of] = [rev |-> context[command[p].of].rev + 1, id |-> command[p].id]
      /\ \A c \in Context \ {command[p].of} : context'[c] = context[c]
  <2>1. /\ command[p].at = "bind" /\ command[p].of \in Context /\ command[p].id \in Id
        /\ UNCHANGED <<ledgerVars, state>> /\ Ends(p) /\ Rebind(command[p].of, command[p].id)
    BY DEF ReceiptInv, Commands, Bind, vars, ledgerVars
  <2> QED BY <2>1, CommandEnds, Rebinds DEF ReceiptInv, CommandShapes
<1>2. LedgerInv' /\ \A e : Covered(e) => Covered(e)'
  BY <1>1, LedgerRests DEF ReceiptInv
<1>3. Commands'
  BY <1>1, <1>2 DEF ReceiptInv, Commands, EndsCovered, ledgerVars
<1>4. EndsCovered'
  BY <1>1, <1>2, <1>3 DEF ReceiptInv, Commands, EndsCovered
<1> QED BY <1>1, <1>2, <1>3, <1>4 DEF ReceiptInv

LEMMA BindFailsEnds ==
  ASSUME ReceiptInv, NEW p \in Proc, BindFails(p)
  PROVE  /\ ReceiptInv'
         /\ UNCHANGED <<state, context>>
         /\ command[p].at = "bind" /\ command'[p].at = "undo"
         /\ command'[p].id = command[p].id /\ command'[p].of = command[p].of
         /\ command'[p].rev = command[p].rev /\ command'[p].receipt = command[p].receipt
         /\ \A q \in Proc \ {p} : command'[q] = command[q]
<1>1. /\ UNCHANGED ledgerVars /\ CommandShapes'
      /\ UNCHANGED <<state, context>>
      /\ command[p].at = "bind" /\ command'[p].at = "undo"
      /\ command'[p].id = command[p].id /\ command'[p].of = command[p].of
         /\ command'[p].rev = command[p].rev /\ command'[p].receipt = command[p].receipt
      /\ \A q \in Proc \ {p} : command'[q] = command[q]
  BY PlaceMoves DEF ReceiptInv, BindFails
<1>2. LedgerInv' /\ \A e : Covered(e) => Covered(e)'
  BY <1>1, LedgerRests DEF ReceiptInv
<1>3. Commands'
  BY <1>1, <1>2 DEF ReceiptInv, Commands, EndsCovered, ledgerVars
<1>4. EndsCovered'
  BY <1>1, <1>2, <1>3 DEF ReceiptInv, Commands, EndsCovered
<1> QED BY <1>1, <1>2, <1>3, <1>4 DEF ReceiptInv

LEMMA RemoveStateEnds ==
  ASSUME ReceiptInv, NEW p \in Proc, RemoveState(p)
  PROVE  /\ ReceiptInv'
         /\ UNCHANGED context
         /\ command[p].at = "undo" /\ command'[p].at = "idle" /\ command[p].id \in Id
         /\ \A q \in Proc \ {p} : command'[q] = command[q]
         /\ state'[command[p].id] = Absent
         /\ \A d \in Id \ {command[p].id} : state'[d] = state[d]
<1>1. /\ UNCHANGED ledgerVars /\ CommandShapes'
      /\ UNCHANGED context
      /\ command[p].at = "undo" /\ command'[p].at = "idle" /\ command[p].id \in Id
      /\ \A q \in Proc \ {p} : command'[q] = command[q]
      /\ state'[command[p].id] = Absent
      /\ \A d \in Id \ {command[p].id} : state'[d] = state[d]
  BY CommandEnds DEF ReceiptInv, CommandShapes, Commands, RemoveState, vars, ledgerVars
<1>2. LedgerInv' /\ \A e : Covered(e) => Covered(e)'
  BY <1>1, LedgerRests DEF ReceiptInv
<1>3. Commands'
  BY <1>1, <1>2 DEF ReceiptInv, Commands, EndsCovered, ledgerVars
<1>4. EndsCovered'
  BY <1>1, <1>2, <1>3 DEF ReceiptInv, Commands, EndsCovered, Absent
<1> QED BY <1>1, <1>2, <1>3, <1>4 DEF ReceiptInv

LEMMA CloseEnds ==
  ASSUME ReceiptInv, NEW p \in Proc, NEW r \in Draft, r.of \in Id, Close(p, r.of, r)
  PROVE  /\ ReceiptInv'
         /\ pc[p] = "idle" /\ command[p].at = "idle" /\ UNCHANGED <<state, context>>
         /\ state[r.of].status = "active" /\ context[state[r.of].of].id = r.of /\ state[r.of].of \in Context
         /\ command'[p].at = "append" /\ command'[p].id = r.of /\ command'[p].of = state[r.of].of
         /\ command'[p].rev = context[state[r.of].of].rev /\ command'[p].receipt = r
         /\ \A q \in Proc \ {p} : command'[q] = command[q]
<1>1. /\ UNCHANGED ledgerVars /\ CommandShapes'
      /\ pc[p] = "idle" /\ command[p].at = "idle" /\ UNCHANGED <<state, context>>
      /\ state[r.of].status = "active" /\ context[state[r.of].of].id = r.of /\ state[r.of].of \in Context
      /\ command'[p].at = "append" /\ command'[p].id = r.of /\ command'[p].of = state[r.of].of
      /\ command'[p].rev = context[state[r.of].of].rev /\ command'[p].receipt = r
      /\ \A q \in Proc \ {p} : command'[q] = command[q]
  BY CommandCalls DEF ReceiptInv, EndsCovered, Close, Idles, NoCommand, vars, ledgerVars
<1>2. LedgerInv' /\ \A e : Covered(e) => Covered(e)'
  BY <1>1, LedgerRests DEF ReceiptInv
<1>3. Commands'
  BY <1>1, <1>2 DEF ReceiptInv, Commands, EndsCovered, ledgerVars
<1>4. EndsCovered'
  BY <1>1, <1>2, <1>3 DEF ReceiptInv, Commands, EndsCovered
<1> QED BY <1>1, <1>2, <1>3, <1>4 DEF ReceiptInv

LEMMA CloseAgainEnds ==
  ASSUME ReceiptInv, NEW p \in Proc, NEW d \in Id, CloseAgain(p, d)
  PROVE  /\ ReceiptInv'
         /\ pc[p] = "idle" /\ command[p].at = "idle" /\ UNCHANGED <<state, context>>
         /\ state[d].receipt # None /\ context[state[d].of].id = d /\ state[d].of \in Context
         /\ command'[p].at = "look" /\ command'[p].id = d /\ command'[p].of = state[d].of
         /\ command'[p].rev = context[state[d].of].rev
         /\ \A q \in Proc \ {p} : command'[q] = command[q]
<1>1. /\ UNCHANGED ledgerVars /\ CommandShapes'
      /\ pc[p] = "idle" /\ command[p].at = "idle" /\ UNCHANGED <<state, context>>
      /\ state[d].receipt # None /\ context[state[d].of].id = d /\ state[d].of \in Context
      /\ command'[p].at = "look" /\ command'[p].id = d /\ command'[p].of = state[d].of
      /\ command'[p].rev = context[state[d].of].rev
      /\ \A q \in Proc \ {p} : command'[q] = command[q]
  <2>1. state[d].receipt # None /\ state[d].of \in Context
    BY DEF ReceiptInv, EndsCovered, CloseAgain
  <2>2. /\ pc[p] = "idle" /\ command[p].at = "idle" /\ UNCHANGED <<ledgerVars, state, context>>
        /\ context[state[d].of].id = d /\ Calls(p, "look", d, state[d].of, state[d].receipt)
    BY DEF CloseAgain, Idles, NoCommand, vars, ledgerVars
  <2> PICK c \in Context : c = state[d].of
    BY <2>1
  <2> PICK r : r = state[d].receipt
    OBVIOUS
  <2>3. /\ command'[p].at = "look" /\ command'[p].id = d /\ command'[p].of = c
        /\ command'[p].rev = context[c].rev /\ CommandShapes'
        /\ \A q \in Proc \ {p} : command'[q] = command[q]
    <3>1. Calls(p, "look", d, c, r) /\ CommandShapes /\ UNCHANGED <<state, context>>
      BY <2>2 DEF ReceiptInv
    <3> QED BY ONLY <3>1, CommandCalls, c \in Context, p \in Proc
  <2> QED BY <2>1, <2>2, <2>3
<1>2. LedgerInv' /\ \A e : Covered(e) => Covered(e)'
  BY <1>1, LedgerRests DEF ReceiptInv
<1>3. Commands'
  BY <1>1, <1>2 DEF ReceiptInv, Commands, EndsCovered, ledgerVars
<1>4. EndsCovered'
  BY <1>1, <1>2, <1>3 DEF ReceiptInv, Commands, EndsCovered
<1> QED BY <1>1, <1>2, <1>3, <1>4 DEF ReceiptInv

LEMMA PersistEnds ==
  ASSUME ReceiptInv, NEW p \in Proc, Persist(p)
  PROVE  /\ ReceiptInv'
         /\ UNCHANGED context
         /\ command[p].at = "persist" /\ command'[p].at = "clear" /\ command[p].id \in Id
         /\ command'[p].id = command[p].id /\ command'[p].of = command[p].of
         /\ command'[p].rev = command[p].rev /\ command'[p].receipt = command[p].receipt
         /\ \A q \in Proc \ {p} : command'[q] = command[q]
         /\ state'[command[p].id].status = command[p].receipt.kind
         /\ state'[command[p].id].receipt = command[p].receipt
         /\ \A d \in Id \ {command[p].id} : state'[d] = state[d]
<1>1. /\ UNCHANGED ledgerVars /\ CommandShapes'
      /\ UNCHANGED context
      /\ command[p].at = "persist" /\ command'[p].at = "clear" /\ command[p].id \in Id
      /\ command'[p].id = command[p].id /\ command'[p].of = command[p].of
         /\ command'[p].rev = command[p].rev /\ command'[p].receipt = command[p].receipt
      /\ \A q \in Proc \ {p} : command'[q] = command[q]
      /\ state'[command[p].id] = [status |-> command[p].receipt.kind, of |-> command[p].of,
                                     receipt |-> command[p].receipt]
      /\ \A d \in Id \ {command[p].id} : state'[d] = state[d]
  BY PlaceMoves DEF ReceiptInv, CommandShapes, Commands, Persist, vars, ledgerVars
<1>2. LedgerInv' /\ \A e : Covered(e) => Covered(e)'
  BY <1>1, LedgerRests DEF ReceiptInv
<1>3. Commands'
  BY <1>1, <1>2 DEF ReceiptInv, Commands, EndsCovered, ledgerVars
<1>4. EndsCovered'
  BY <1>1, <1>2, <1>3, DeliveryAssumption DEF ReceiptInv, Commands, EndsCovered
<1> QED BY <1>1, <1>2, <1>3, <1>4 DEF ReceiptInv

LEMMA ClearEnds ==
  ASSUME ReceiptInv, NEW p \in Proc, Clear(p)
  PROVE  /\ ReceiptInv'
         /\ UNCHANGED state
         /\ command[p].at = "clear" /\ command'[p].at = "idle" /\ command[p].of \in Context /\ command[p].id \in Id
         /\ \A q \in Proc \ {p} : command'[q] = command[q]
         /\ \A c \in Context \ {command[p].of} : context'[c] = context[c]
         /\ \/ context'[command[p].of] = context[command[p].of]
            \/ /\ context[command[p].of].rev = command[p].rev
               /\ context'[command[p].of].rev = context[command[p].of].rev + 1
               /\ context'[command[p].of].id = None
<1>1. /\ UNCHANGED ledgerVars /\ CommandShapes'
      /\ UNCHANGED state
      /\ command[p].at = "clear" /\ command'[p].at = "idle" /\ command[p].of \in Context /\ command[p].id \in Id
      /\ \A q \in Proc \ {p} : command'[q] = command[q]
      /\ \A c \in Context \ {command[p].of} : context'[c] = context[c]
      /\ \/ context'[command[p].of] = context[command[p].of]
         \/ /\ context[command[p].of].rev = command[p].rev
            /\ context'[command[p].of] = [rev |-> context[command[p].of].rev + 1, id |-> None]
  <2>1. /\ command[p].at = "clear" /\ command[p].of \in Context /\ command[p].id \in Id
        /\ UNCHANGED <<ledgerVars, state>> /\ Ends(p)
        /\ \/ UNCHANGED context
           \/ context[command[p].of].rev = command[p].rev /\ Rebind(command[p].of, None)
    BY DEF ReceiptInv, Commands, Clear, vars, ledgerVars
  <2> QED BY <2>1, CommandEnds, Rebinds DEF ReceiptInv, CommandShapes
<1>2. LedgerInv' /\ \A e : Covered(e) => Covered(e)'
  BY <1>1, LedgerRests DEF ReceiptInv
<1>3. Commands'
  BY <1>1, <1>2 DEF ReceiptInv, Commands, EndsCovered, ledgerVars
<1>4. EndsCovered'
  BY <1>1, <1>2, <1>3 DEF ReceiptInv, Commands, EndsCovered
<1> QED BY <1>1, <1>2, <1>3, <1>4 DEF ReceiptInv

LEMMA TouchEnds ==
  ASSUME ReceiptInv, NEW c \in Context, Touch(c)
  PROVE  /\ ReceiptInv'
         /\ UNCHANGED <<state, command>>
         /\ context'[c].rev = context[c].rev + 1 /\ context'[c].id = context[c].id
         /\ \A e \in Context \ {c} : context'[e] = context[e]
<1>1. /\ UNCHANGED ledgerVars /\ CommandShapes'
      /\ UNCHANGED <<state, command>>
      /\ context'[c] = [rev |-> context[c].rev + 1, id |-> context[c].id]
      /\ \A e \in Context \ {c} : context'[e] = context[e]
  BY DEF ReceiptInv, CommandShapes, Touch, Rebind, vars, ledgerVars
<1>2. LedgerInv' /\ \A e : Covered(e) => Covered(e)'
  BY <1>1, LedgerRests DEF ReceiptInv
<1>3. Commands'
  BY <1>1, <1>2 DEF ReceiptInv, Commands, EndsCovered, ledgerVars
<1>4. EndsCovered'
  BY <1>1, <1>2, <1>3 DEF ReceiptInv, Commands, EndsCovered
<1> QED BY <1>1, <1>2, <1>3, <1>4 DEF ReceiptInv

LEMMA AskLedgerEnds ==
  ASSUME ReceiptInv, NEW p \in Proc, AskLedger(p)
  PROVE  /\ ReceiptInv' /\ UNCHANGED <<state, context>>
         /\ \/ command[p].at = "append" /\ command'[p].at = "appending"
            \/ command[p].at = "look" /\ command'[p].at = "looking"
         /\ command'[p].id = command[p].id /\ command'[p].of = command[p].of
         /\ command'[p].rev = command[p].rev /\ command'[p].receipt = command[p].receipt
         /\ \A q \in Proc \ {p} : command'[q] = command[q]
<1>1. PICK d \in Draft \union {None} :
        /\ Begin(p, d) /\ UNCHANGED <<state, context>>
        /\ \/ command[p].at = "append" /\ d = command[p].receipt /\ Moves(p, "appending")
           \/ command[p].at = "look" /\ d = None /\ Moves(p, "looking")
  BY DEF ReceiptInv, Commands, AskLedger
<1>2. /\ LedgerInv' /\ pc'[p] # "idle" /\ want'[p] = d /\ UNCHANGED checkpoint
      /\ \A q \in Proc \ {p} : pc'[q] = pc[q] /\ want'[q] = want[q]
  BY <1>1, BeginLeads DEF ReceiptInv, Begin, files
<1>3. /\ \/ command[p].at = "append" /\ d = command[p].receipt /\ command'[p].at = "appending"
         \/ command[p].at = "look" /\ d = None /\ command'[p].at = "looking"
      /\ command'[p].id = command[p].id /\ command'[p].of = command[p].of
      /\ command'[p].rev = command[p].rev /\ command'[p].receipt = command[p].receipt
      /\ (\A q \in Proc \ {p} : command'[q] = command[q]) /\ CommandShapes'
  BY <1>1, PlaceMoves DEF ReceiptInv
<1>4. \A r : Covered(r) => Covered(r)'
  BY <1>2, CoveredStays DEF ReceiptInv
<1>5. Commands'
  BY <1>2, <1>3, <1>4 DEF ReceiptInv, Commands
<1>6. EndsCovered'
  BY <1>1, <1>4 DEF ReceiptInv, EndsCovered
<1> QED BY <1>1, <1>2, <1>3, <1>5, <1>6 DEF ReceiptInv

(* The process that released the lock with an answer has appended its         *)
(* receipt, or met it, and the checkpoint covers it.                         *)
LEMMA AnswerIsCovered ==
  ASSUME ReceiptInv, NEW p \in Proc, Answered(p), command[p].at = "appending"
  PROVE  Covered(command[p].receipt)
<1>1. pc[p] = "release" /\ want[p] # None /\ want[p] = command[p].receipt
  BY DEF ReceiptInv, Commands, Answered
<1> QED BY <1>1 DEF ReceiptInv, LedgerInv, Anchored, Covered

LEMMA LedgerStepEnds ==
  ASSUME ReceiptInv, OneReaper, ~Slow, NEW p \in Proc, LedgerStep(p)
  PROVE  /\ ReceiptInv' /\ UNCHANGED <<state, context>>
         /\ \/ UNCHANGED command
            \/ command[p].at \in {"appending", "looking"} /\ command'[p].at = "idle"
            \/ /\ \/ command[p].at = "appending" /\ command'[p].at = "persist"
                  \/ command[p].at = "looking" /\ command'[p].at = "clear"
               /\ command'[p].id = command[p].id /\ command'[p].of = command[p].of
               /\ command'[p].rev = command[p].rev
         /\ \A q \in Proc \ {p} : command'[q] = command[q]
<1>1. /\ Step(p) \/ PublishFails(p) \/ Fail(p)
      /\ UNCHANGED <<state, context>>
      /\ \/ pc'[p] # "idle" /\ UNCHANGED command
         \/ pc'[p] = "idle" /\ ~Answered(p) /\ Ends(p)
         \/ /\ pc'[p] = "idle" /\ Answered(p)
            /\ Moves(p, IF command[p].at = "appending" THEN "persist" ELSE "clear")
  BY DEF LedgerStep
<1>2. /\ LedgerInv' /\ pc[p] # "idle" /\ want'[p] \in {want[p], None}
      /\ \A q \in Proc \ {p} : pc'[q] = pc[q] /\ want'[q] = want[q]
      /\ \A r : Covered(r) => Covered(r)'
  BY <1>1, StepLeads, CoveredStays DEF ReceiptInv
<1>3. command[p].at \in {"appending", "looking"}
  BY <1>2 DEF ReceiptInv, Commands
<1>4. /\ CommandShapes' /\ \A q \in Proc \ {p} : command'[q] = command[q]
      /\ \/ pc'[p] # "idle" /\ UNCHANGED command
         \/ pc'[p] = "idle" /\ command'[p].at = "idle"
         \/ /\ pc'[p] = "idle" /\ Answered(p)
            /\ \/ command[p].at = "appending" /\ command'[p].at = "persist"
               \/ command[p].at = "looking" /\ command'[p].at = "clear"
            /\ command'[p].id = command[p].id /\ command'[p].of = command[p].of
            /\ command'[p].rev = command[p].rev /\ command'[p].receipt = command[p].receipt
  <2>1. CASE pc'[p] # "idle" /\ UNCHANGED command
    BY <1>1, <2>1 DEF ReceiptInv, CommandShapes, CommandShape
  <2>2. CASE pc'[p] = "idle" /\ ~Answered(p) /\ Ends(p)
    BY <1>1, <2>2, CommandEnds DEF ReceiptInv
  <2>3. CASE /\ pc'[p] = "idle" /\ Answered(p)
             /\ Moves(p, IF command[p].at = "appending" THEN "persist" ELSE "clear")
    BY <1>1, <1>3, <2>3, PlaceMoves DEF ReceiptInv
  <2> QED BY <1>1, <2>1, <2>2, <2>3
<1>5. \A r : (command[p].at = "appending" /\ Answered(p) /\ r = command[p].receipt) => Covered(r)'
  BY <1>2, AnswerIsCovered
<1>6. Commands'
  BY <1>2, <1>3, <1>4, <1>5 DEF ReceiptInv, Commands
<1>7. EndsCovered'
  BY <1>1, <1>2 DEF ReceiptInv, EndsCovered
<1> QED BY <1>1, <1>2, <1>3, <1>4, <1>6, <1>7 DEF ReceiptInv

LEMMA KilledEnds ==
  ASSUME ReceiptInv, NEW p \in Proc, Killed(p)
  PROVE  /\ ReceiptInv' /\ UNCHANGED <<state, context>> /\ command'[p].at = "idle"
         /\ \A q \in Proc \ {p} : command'[q] = command[q]
<1>1. /\ UNCHANGED <<state, context>> /\ command'[p].at = "idle" /\ CommandShapes'
      /\ \A q \in Proc \ {p} : command'[q] = command[q]
  BY CommandEnds DEF ReceiptInv, Killed
<1>2. /\ LedgerInv' /\ pc'[p] = "idle" /\ \A q \in Proc \ {p} : pc'[q] = pc[q] /\ want'[q] = want[q]
      /\ \A r : Covered(r) => Covered(r)'
  <2>1. CASE Die(p)
    BY <2>1, DieLeads, CoveredStays DEF ReceiptInv
  <2>2. CASE pc[p] = "idle" /\ UNCHANGED ledgerVars
    BY <2>2, LedgerRests DEF ReceiptInv, ledgerVars
  <2> QED BY <2>1, <2>2 DEF Killed
<1>3. Commands'
  BY <1>1, <1>2 DEF ReceiptInv, Commands
<1>4. EndsCovered'
  BY <1>1, <1>2 DEF ReceiptInv, EndsCovered
<1> QED BY <1>1, <1>2, <1>3, <1>4 DEF ReceiptInv

LEMMA AgeEnds ==
  ASSUME ReceiptInv, ~Slow, Age, UNCHANGED <<state, context, command>>
  PROVE  ReceiptInv'
<1>1. LedgerInv' /\ UNCHANGED <<checkpoint, pc, want>>
  BY AgeLeads DEF ReceiptInv, Age, files
<1> QED BY <1>1 DEF ReceiptInv, CommandShapes, CommandShape, Commands, EndsCovered, Covered

LEMMA ReceiptRests ==
  ASSUME ReceiptInv, UNCHANGED <<ledgerVars, state, context, command>> PROVE ReceiptInv'
<1>1. LedgerInv' /\ \A e : Covered(e) => Covered(e)'
  BY LedgerRests DEF ReceiptInv
<1> QED BY <1>1 DEF ReceiptInv, CommandShapes, CommandShape, Commands, EndsCovered, ledgerVars

LEMMA ReceiptStep ==
  ASSUME ReceiptInv, OneReaper, ~Slow, [DNext]_allVars PROVE ReceiptInv'
<1>1. CASE UNCHANGED allVars
  BY <1>1, ReceiptRests DEF allVars, vars, ledgerVars
<1>2. ASSUME NEW p \in Proc, NEW d \in Id, NEW c \in Context, Start(p, d, c) PROVE ReceiptInv'
  BY <1>2, StartEnds
<1>3. ASSUME NEW p \in Proc, NEW r \in Draft, r.of \in Id /\ Close(p, r.of, r) PROVE ReceiptInv'
  BY <1>3, CloseEnds
<1>4. ASSUME NEW p \in Proc, NEW d \in Id, CloseAgain(p, d) PROVE ReceiptInv'
  BY <1>4, CloseAgainEnds
<1>5. ASSUME NEW p \in Proc, \/ WriteState(p) \/ Bind(p) \/ BindFails(p) \/ RemoveState(p)
                             \/ AskLedger(p) \/ LedgerStep(p) \/ Persist(p) \/ Clear(p) \/ Killed(p)
      PROVE  ReceiptInv'
  <2>1. CASE WriteState(p) \/ Bind(p) \/ BindFails(p) \/ RemoveState(p)
    BY <2>1, WriteStateEnds, BindEnds, BindFailsEnds, RemoveStateEnds
  <2>2. CASE Persist(p) \/ Clear(p)
    BY <2>2, PersistEnds, ClearEnds
  <2>3. CASE AskLedger(p)
    BY <2>3, AskLedgerEnds
  <2>4. CASE LedgerStep(p)
    BY <2>4, LedgerStepEnds
  <2>5. CASE Killed(p)
    BY <2>5, KilledEnds
  <2> QED BY <1>5, <2>1, <2>2, <2>3, <2>4, <2>5
<1>6. ASSUME NEW c \in Context, Touch(c) PROVE ReceiptInv'
  BY <1>6, TouchEnds
<1>7. CASE Age /\ UNCHANGED <<state, context, command>>
  BY <1>7, AgeEnds
<1> QED BY <1>1, <1>2, <1>3, <1>4, <1>5, <1>6, <1>7 DEF DNext

LEMMA ReceiptStart ==
  ASSUME DInit PROVE ReceiptInv
<1>1. PICK r \in V1 : /\ ledger = [version |-> IF r = <<>> THEN 2 ELSE 1, base |-> <<>>, records |-> r]
                      /\ r \in Seq(Draft)
  BY LedgerAssumption DEF DInit, Init
<1>2. /\ checkpoint = None /\ legacy = <<>> /\ lock = NoLock
      /\ pc = [p \in Proc |-> "idle"] /\ want = [p \in Proc |-> None]
      /\ buf = [p \in Proc |-> Chain(<<>>, <<>>)]
      /\ state = [d \in Id |-> Absent] /\ command = [p \in Proc |-> NoCommand]
      /\ context = [c \in Context |-> [rev |-> 0, id |-> None]]
  BY DEF DInit, Init
<1>3. LedgerShapes
  BY <1>1, <1>2 DEF LedgerShapes, ChainShape
<1>4. Exclusive
  BY <1>2 DEF Exclusive, NoLock, Placed, Inside
<1>5. Anchored
  BY <1>1, <1>2 DEF Anchored
<1>6. CommandShapes
  BY <1>2 DEF CommandShapes, CommandShape, NoCommand
<1>7. Commands /\ EndsCovered
  BY <1>2 DEF Commands, EndsCovered, NoCommand, Absent
<1> QED BY <1>3, <1>4, <1>5, <1>6, <1>7 DEF ReceiptInv, LedgerInv

(* DSpec implies EndHasReceipt, for any number of processes, deliveries,      *)
(* contexts and drafts, any v1 ledger to begin with, any deaths and errors,   *)
(* while one process at most reaps stale locks and no lock is written a lease *)
(* after its creation: a delivery whose file says completed or abandoned has  *)
(* the receipt of that end in a ledger that the next reader accepts.          *)
THEOREM EndsHaveReceipts ==
  ASSUME OneReaper, ~Slow PROVE DSpec => []EndHasReceipt
<1>1. ReceiptInv => EndHasReceipt
  BY CoveredIsThere DEF ReceiptInv, EndsCovered, EndHasReceipt
<1> QED BY <1>1, ReceiptStart, ReceiptStep, PTL DEF DSpec

-----------------------------------------------------------------------------
(* Every command keeps the bindings.                                         *)
LEMMA StartBinds ==
  ASSUME BindingInv, UniqueIds, NEW p \in Proc, NEW d \in Id, NEW c \in Context, Start(p, d, c)
  PROVE  BindingInv'
<1>1. /\ ReceiptInv' /\ command[p].at = "idle" /\ UNCHANGED <<state, context>>
      /\ state[d] = Absent /\ ~Starting(d)
      /\ command'[p].at = "create" /\ command'[p].id = d
      /\ \A q \in Proc \ {p} : command'[q] = command[q]
  BY StartEnds DEF BindingInv
<1>2. state[d].status = "absent" /\ state[d].receipt = None
  BY <1>1 DEF Absent
<1>3. Starts'
  BY <1>1, <1>2, NoneIsApart DEF BindingInv, Starts, Bounds, Closes, Starting, Opening, Closing
<1>4. Bounds'
  BY <1>1 DEF BindingInv, Bounds
<1>5. Closes'
  BY <1>1 DEF BindingInv, Closes, Closing
<1> QED BY <1>1, <1>3, <1>4, <1>5 DEF BindingInv

LEMMA WriteStateBinds ==
  ASSUME BindingInv, NEW p \in Proc, WriteState(p)
  PROVE  BindingInv'
<1>1. /\ ReceiptInv' /\ UNCHANGED context /\ command[p].at = "create" /\ command'[p].at = "bind"
      /\ command[p].id \in Id /\ command'[p].id = command[p].id
      /\ \A q \in Proc \ {p} : command'[q] = command[q]
      /\ state'[command[p].id].status = "active" /\ state'[command[p].id].receipt = None
      /\ \A d \in Id \ {command[p].id} : state'[d] = state[d]
  BY WriteStateEnds DEF BindingInv
<1>2. \A q \in Proc : command'[q].at # "idle" => command'[q].id \in Id
  BY <1>1 DEF ReceiptInv, Commands
<1>3. Starts'
  BY <1>1, <1>2 DEF BindingInv, Starts, Opening, Closing
<1>4. Bounds'
  BY <1>1 DEF BindingInv, Bounds
<1>5. Closes'
  BY <1>1, <1>2 DEF BindingInv, Starts, Closes, Opening, Closing
<1> QED BY <1>1, <1>3, <1>4, <1>5 DEF BindingInv

LEMMA BindBinds ==
  ASSUME BindingInv, NEW p \in Proc, Bind(p)
  PROVE  BindingInv' /\ \A c \in Context : context'[c].id # None \/ context[c].id = None
<1>1. /\ ReceiptInv' /\ UNCHANGED state /\ command[p].at = "bind" /\ command'[p].at = "idle"
      /\ command[p].of \in Context /\ command[p].id \in Id
      /\ \A q \in Proc \ {p} : command'[q] = command[q]
      /\ context'[command[p].of].id = command[p].id
      /\ context'[command[p].of].rev = context[command[p].of].rev + 1
      /\ \A c \in Context \ {command[p].of} : context'[c] = context[c]
  BY BindEnds DEF BindingInv
<1>2. Starts'
  BY <1>1 DEF BindingInv, Starts, Opening, Closing
<1>3. Bounds'
  BY <1>1 DEF BindingInv, Starts, Bounds
<1>4. \A q \in Proc : command[q].at # "idle" => command[q].id \in Id /\ command[q].of \in Context
  BY DEF BindingInv, ReceiptInv, Commands
<1>5. (\A c \in Context : context[c].rev \in Nat) /\ \A q \in Proc : command[q].rev \in Nat
  BY DEF BindingInv, ReceiptInv, CommandShapes
<1>6. Closes'
  BY <1>1, <1>4, <1>5 DEF BindingInv, Closes, Closing
<1> QED BY <1>1, <1>2, <1>3, <1>6, NoneIsApart DEF BindingInv

LEMMA BindFailsBinds ==
  ASSUME BindingInv, NEW p \in Proc, BindFails(p)
  PROVE  BindingInv'
<1>1. /\ ReceiptInv' /\ UNCHANGED <<state, context>>
      /\ command[p].at = "bind" /\ command'[p].at = "undo" /\ command'[p].id = command[p].id
      /\ \A q \in Proc \ {p} : command'[q] = command[q]
  BY BindFailsEnds DEF BindingInv
<1>2. Starts'
  BY <1>1 DEF BindingInv, Starts, Opening, Closing
<1> QED BY <1>1, <1>2 DEF BindingInv, Bounds, Closes, Closing

LEMMA RemoveStateBinds ==
  ASSUME BindingInv, NEW p \in Proc, RemoveState(p)
  PROVE  BindingInv'
<1>1. /\ ReceiptInv' /\ UNCHANGED context
      /\ command[p].at = "undo" /\ command'[p].at = "idle" /\ command[p].id \in Id
      /\ \A q \in Proc \ {p} : command'[q] = command[q]
      /\ \A d \in Id \ {command[p].id} : state'[d] = state[d]
  BY RemoveStateEnds DEF BindingInv
<1>2. \A q \in Proc : command[q].at # "idle" => command[q].id \in Id
  BY DEF BindingInv, ReceiptInv, Commands
<1>3. Starts'
  BY <1>1, <1>2 DEF BindingInv, Starts, Opening, Closing
<1>4. Bounds'
  BY <1>1 DEF BindingInv, Starts, Bounds, Opening
<1>5. Closes'
  BY <1>1, <1>2 DEF BindingInv, Starts, Closes, Opening, Closing
<1> QED BY <1>1, <1>3, <1>4, <1>5 DEF BindingInv

LEMMA CloseBinds ==
  ASSUME BindingInv, NEW p \in Proc, NEW r \in Draft, r.of \in Id, Close(p, r.of, r)
  PROVE  BindingInv'
<1>1. /\ ReceiptInv' /\ command[p].at = "idle" /\ UNCHANGED <<state, context>>
      /\ state[r.of].status = "active" /\ context[state[r.of].of].id = r.of
      /\ state[r.of].of \in Context
      /\ command'[p].at = "append" /\ command'[p].id = r.of /\ command'[p].of = state[r.of].of
      /\ command'[p].rev = context[state[r.of].of].rev
      /\ \A q \in Proc \ {p} : command'[q] = command[q]
  BY CloseEnds DEF BindingInv
<1>2. \A c \in Context : context[c].rev \in Nat
  BY DEF BindingInv, ReceiptInv, CommandShapes
<1>3. Starts'
  BY <1>1 DEF BindingInv, Starts, Opening, Closing
<1>4. Bounds' /\ Closes'
  BY <1>1, <1>2 DEF BindingInv, Bounds, Closes, Closing
<1> QED BY <1>1, <1>3, <1>4 DEF BindingInv

LEMMA CloseAgainBinds ==
  ASSUME BindingInv, NEW p \in Proc, NEW d \in Id, CloseAgain(p, d)
  PROVE  BindingInv'
<1>1. /\ ReceiptInv' /\ command[p].at = "idle" /\ UNCHANGED <<state, context>>
      /\ state[d].receipt # None /\ context[state[d].of].id = d /\ state[d].of \in Context
      /\ command'[p].at = "look" /\ command'[p].id = d /\ command'[p].of = state[d].of
      /\ command'[p].rev = context[state[d].of].rev
      /\ \A q \in Proc \ {p} : command'[q] = command[q]
  BY CloseAgainEnds DEF BindingInv
<1>2. /\ state[d].status # "absent" /\ \A c \in Context : context[c].rev \in Nat
  BY <1>1 DEF BindingInv, ReceiptInv, CommandShapes, EndsCovered
<1>3. Starts'
  BY <1>1 DEF BindingInv, Starts, Opening, Closing
<1>4. Bounds' /\ Closes'
  BY <1>1, <1>2 DEF BindingInv, Bounds, Closes, Closing
<1> QED BY <1>1, <1>3, <1>4 DEF BindingInv

LEMMA AskLedgerBinds ==
  ASSUME BindingInv, NEW p \in Proc, AskLedger(p)
  PROVE  BindingInv'
<1>1. /\ ReceiptInv' /\ UNCHANGED <<state, context>>
      /\ \/ command[p].at = "append" /\ command'[p].at = "appending"
         \/ command[p].at = "look" /\ command'[p].at = "looking"
      /\ command'[p].id = command[p].id /\ command'[p].of = command[p].of
      /\ command'[p].rev = command[p].rev
      /\ \A q \in Proc \ {p} : command'[q] = command[q]
  BY AskLedgerEnds DEF BindingInv
<1>2. Starts'
  BY <1>1 DEF BindingInv, Starts, Opening, Closing
<1> QED BY <1>1, <1>2 DEF BindingInv, Bounds, Closes, Closing

LEMMA LedgerStepBinds ==
  ASSUME BindingInv, OneReaper, ~Slow, NEW p \in Proc, LedgerStep(p)
  PROVE  BindingInv' /\ UNCHANGED context
<1>1. /\ ReceiptInv' /\ UNCHANGED <<state, context>>
      /\ \/ UNCHANGED command
         \/ command[p].at \in {"appending", "looking"} /\ command'[p].at = "idle"
         \/ /\ \/ command[p].at = "appending" /\ command'[p].at = "persist"
               \/ command[p].at = "looking" /\ command'[p].at = "clear"
            /\ command'[p].id = command[p].id /\ command'[p].of = command[p].of
            /\ command'[p].rev = command[p].rev
      /\ \A q \in Proc \ {p} : command'[q] = command[q]
  BY LedgerStepEnds DEF BindingInv
<1>2. Starts'
  BY <1>1 DEF BindingInv, Starts, Opening, Closing
<1>3. Bounds' /\ Closes'
  BY <1>1 DEF BindingInv, Bounds, Closes, Closing
<1> QED BY <1>1, <1>2, <1>3 DEF BindingInv

LEMMA PersistBinds ==
  ASSUME BindingInv, NEW p \in Proc, Persist(p)
  PROVE  BindingInv'
<1>1. /\ ReceiptInv' /\ UNCHANGED context /\ command[p].at = "persist" /\ command'[p].at = "clear"
      /\ command[p].id \in Id /\ command'[p].id = command[p].id /\ command'[p].of = command[p].of
      /\ command'[p].rev = command[p].rev
      /\ \A q \in Proc \ {p} : command'[q] = command[q]
      /\ state'[command[p].id].receipt = command[p].receipt
      /\ state'[command[p].id].status = command[p].receipt.kind
      /\ \A d \in Id \ {command[p].id} : state'[d] = state[d]
  BY PersistEnds DEF BindingInv
<1>2. /\ command[p].receipt # None /\ state'[command[p].id].status # "absent"
      /\ \A q \in Proc : command[q].at # "idle" => command[q].id \in Id
  BY <1>1, NoneIsApart, DeliveryAssumption DEF BindingInv, ReceiptInv, Commands
<1>3. \A q \in Proc : command[q].at \in Opening => command[q].id # command[p].id
  BY <1>1 DEF BindingInv, Starts, Closing
<1>4. Starts'
  BY <1>1, <1>2, <1>3 DEF BindingInv, Starts, Opening, Closing
<1>5. Bounds' /\ Closes'
  BY <1>1, <1>2 DEF BindingInv, Bounds, Closes, Closing
<1> QED BY <1>1, <1>4, <1>5 DEF BindingInv

(* The only command that clears a binding clears that of a delivery that has  *)
(* its end.                                                                  *)
LEMMA ClearBinds ==
  ASSUME BindingInv, NEW p \in Proc, Clear(p)
  PROVE  /\ BindingInv'
         /\ \A c \in Context : (context[c].id # None /\ context'[c].id = None) =>
              state[context[c].id].receipt # None
<1>1. /\ ReceiptInv' /\ UNCHANGED state /\ command[p].at = "clear" /\ command'[p].at = "idle"
      /\ command[p].of \in Context /\ command[p].id \in Id
      /\ \A q \in Proc \ {p} : command'[q] = command[q]
      /\ \A c \in Context \ {command[p].of} : context'[c] = context[c]
      /\ \/ context'[command[p].of] = context[command[p].of]
         \/ /\ context[command[p].of].rev = command[p].rev
            /\ context'[command[p].of].rev = context[command[p].of].rev + 1
            /\ context'[command[p].of].id = None
  BY ClearEnds DEF BindingInv
<1>2. /\ (\A c \in Context : context[c].rev \in Nat) /\ \A q \in Proc : command[q].rev \in Nat
      /\ \A q \in Proc : command[q].at # "idle" => command[q].id \in Id /\ command[q].of \in Context
  BY DEF BindingInv, ReceiptInv, CommandShapes, Commands
<1>3. Starts'
  BY <1>1, <1>2, NoneIsApart DEF BindingInv, Starts, Opening, Closing
<1>4. Bounds'
  BY <1>1 DEF BindingInv, Bounds
<1>5. Closes'
  BY <1>1, <1>2 DEF BindingInv, Closes, Closing
<1>6. \A c \in Context : (context[c].id # None /\ context'[c].id = None) =>
        state[context[c].id].receipt # None
  BY <1>1 DEF BindingInv, Closes, Closing
<1> QED BY <1>1, <1>3, <1>4, <1>5, <1>6 DEF BindingInv

LEMMA TouchBinds ==
  ASSUME BindingInv, NEW c \in Context, Touch(c)
  PROVE  BindingInv' /\ \A e \in Context : context'[e].id = context[e].id
<1>1. /\ ReceiptInv' /\ UNCHANGED <<state, command>>
      /\ context'[c].rev = context[c].rev + 1 /\ context'[c].id = context[c].id
      /\ \A e \in Context \ {c} : context'[e] = context[e]
  BY TouchEnds DEF BindingInv
<1>2. /\ (\A e \in Context : context[e].rev \in Nat) /\ \A q \in Proc : command[q].rev \in Nat
      /\ \A q \in Proc : command[q].at # "idle" => command[q].of \in Context
  BY DEF BindingInv, ReceiptInv, CommandShapes, Commands
<1>3. Starts' /\ Bounds'
  BY <1>1 DEF BindingInv, Starts, Bounds
<1>4. Closes'
  BY <1>1, <1>2 DEF BindingInv, Closes, Closing
<1> QED BY <1>1, <1>3, <1>4 DEF BindingInv

LEMMA KilledBinds ==
  ASSUME BindingInv, NEW p \in Proc, Killed(p)
  PROVE  BindingInv' /\ UNCHANGED context
<1>1. /\ ReceiptInv' /\ UNCHANGED <<state, context>> /\ command'[p].at = "idle"
      /\ \A q \in Proc \ {p} : command'[q] = command[q]
  BY KilledEnds DEF BindingInv
<1>2. Starts'
  BY <1>1 DEF BindingInv, Starts, Opening, Closing
<1>3. Bounds' /\ Closes'
  BY <1>1 DEF BindingInv, Bounds, Closes, Closing
<1> QED BY <1>1, <1>2, <1>3 DEF BindingInv

(* What a step does to the bindings.                                         *)
BindingsEnd == \A c \in Context : (context[c].id # None /\ context'[c].id = None) =>
                 state[context[c].id].receipt # None

LEMMA BindingStep ==
  ASSUME BindingInv, OneReaper, ~Slow, UniqueIds, [DNext]_allVars PROVE BindingInv' /\ BindingsEnd
<1>1. CASE UNCHANGED <<ledgerVars, state, context, command>>
  BY <1>1, ReceiptRests DEF BindingInv, Starts, Bounds, Closes, BindingsEnd
<1>2. ASSUME NEW p \in Proc, NEW d \in Id, NEW c \in Context, Start(p, d, c)
      PROVE  BindingInv' /\ BindingsEnd
  BY <1>2, StartBinds DEF Start, BindingsEnd
<1>3. ASSUME NEW p \in Proc, NEW r \in Draft, r.of \in Id /\ Close(p, r.of, r)
      PROVE  BindingInv' /\ BindingsEnd
  BY <1>3, CloseBinds DEF Close, BindingsEnd
<1>4. ASSUME NEW p \in Proc, NEW d \in Id, CloseAgain(p, d) PROVE BindingInv' /\ BindingsEnd
  BY <1>4, CloseAgainBinds DEF CloseAgain, BindingsEnd
<1>5. ASSUME NEW p \in Proc, \/ WriteState(p) \/ Bind(p) \/ BindFails(p) \/ RemoveState(p)
                             \/ AskLedger(p) \/ LedgerStep(p) \/ Persist(p) \/ Clear(p) \/ Killed(p)
      PROVE  BindingInv' /\ BindingsEnd
  <2>1. CASE WriteState(p) \/ RemoveState(p) \/ Persist(p) \/ BindFails(p) \/ AskLedger(p)
    <3>1. UNCHANGED context
      BY <2>1 DEF WriteState, RemoveState, Persist, BindFails, AskLedger
    <3> QED BY <2>1, <3>1, WriteStateBinds, RemoveStateBinds, PersistBinds, BindFailsBinds,
               AskLedgerBinds DEF BindingsEnd
  <2>2. CASE Bind(p)
    BY <2>2, BindBinds DEF BindingsEnd
  <2>3. CASE LedgerStep(p) \/ Killed(p)
    BY <2>3, LedgerStepBinds, KilledBinds DEF BindingsEnd
  <2>4. CASE Clear(p)
    BY <2>4, ClearBinds DEF BindingsEnd
  <2> QED BY <1>5, <2>1, <2>2, <2>3, <2>4
<1>6. ASSUME NEW c \in Context, Touch(c) PROVE BindingInv' /\ BindingsEnd
  BY <1>6, TouchBinds DEF BindingsEnd
<1>7. CASE Age /\ UNCHANGED <<state, context, command>>
  BY <1>7, AgeEnds DEF BindingInv, Starts, Bounds, Closes, BindingsEnd
<1>8. CASE UNCHANGED allVars
  BY <1>1, <1>8 DEF allVars, vars, ledgerVars
<1> QED BY <1>2, <1>3, <1>4, <1>5, <1>6, <1>7, <1>8 DEF DNext

LEMMA BindingStart ==
  ASSUME DInit PROVE BindingInv
<1>1. /\ state = [d \in Id |-> Absent] /\ command = [p \in Proc |-> NoCommand]
      /\ context = [c \in Context |-> [rev |-> 0, id |-> None]]
  BY DEF DInit
<1>2. Starts /\ Bounds /\ Closes
  BY <1>1 DEF Starts, Bounds, Closes, Opening, Closing, NoCommand
<1> QED BY <1>2, ReceiptStart DEF BindingInv

(* DSpec implies ClearedIsEnded, for any number of processes, deliveries,     *)
(* contexts and drafts, on the same two conditions, when no start runs for    *)
(* the id of another start (the second may bind the id that the first one's   *)
(* failed binding is about to remove): a binding is cleared only once its     *)
(* delivery has its end, and that end its receipt in the ledger.              *)
THEOREM ClearedAreEnded ==
  ASSUME OneReaper, ~Slow, UniqueIds PROVE DSpec => ClearedIsEnded
<1> DEFINE A == \A c \in Context : (context[c].id # None /\ context'[c].id = None) =>
                  /\ state[context[c].id].receipt # None
                  /\ state[context[c].id].receipt \in Range(ledger.records)
<1>1. BindingInv /\ [DNext]_allVars => [A]_allVars
  <2> SUFFICES ASSUME BindingInv, [DNext]_allVars, NEW c \in Context,
                      context[c].id # None, context'[c].id = None
               PROVE  /\ state[context[c].id].receipt # None
                      /\ state[context[c].id].receipt \in Range(ledger.records)
    OBVIOUS
  <2>1. context[c].id \in Id /\ state[context[c].id].receipt # None
    BY BindingStep DEF BindingInv, Bounds, BindingsEnd
  <2>2. ReceiptInv
    BY DEF BindingInv
  <2>3. Covered(state[context[c].id].receipt)
    BY <2>1, <2>2 DEF ReceiptInv, EndsCovered
  <2> QED BY <2>1, <2>2, <2>3, CoveredIsThere DEF ReceiptInv
<1>2. DSpec => [][A]_allVars
  BY <1>1, BindingStart, BindingStep, PTL DEF DSpec
<1> QED BY <1>2 DEF ClearedIsEnded
=============================================================================
