---------------------------- MODULE MemoryLedger ----------------------------
(* The files of the shared memory's ledger (packages/vault) and how they are  *)
(* read: MEMORY_EVENTS.jsonl, the snapshot of a projection, and, once the     *)
(* ledger has been rotated, the generation's backup, its state, the receipts  *)
(* and the journal of a rotation under way. A projection is abstracted to the *)
(* set of events it was reduced from.                                        *)
EXTENDS Naturals, Sequences, FiniteSets, SequencesExt

CONSTANTS Event,        \* event_ids, each with the one payload its producer has
          Bad,          \* a line that does not parse
          None,         \* no such file
          TearKinds,    \* how a write can be cut: inside or just after a line
          MaxCreates,   \* bound: files the producers create
          MaxCrashes,   \* bound: crashes and failed writes
          MaxRotations  \* bound: generations

ASSUME MemoryAssumption == /\ Bad \notin Event /\ None \notin Event
                           /\ TearKinds \subseteq {"inside", "unterminated"}
                           /\ MaxCreates \in Nat /\ MaxCrashes \in Nat
                           /\ MaxRotations \in Nat

VARIABLES
  lines,      \* the active ledger's lines
  ended,      \* does it end in a newline
  snapshot,   \* None, or the projection of a prefix of the ledger
  generation, \* the generation state: 0 while there is none
  backup,     \* the immutable copy of the whole ledger of each generation
  journal,    \* None, or the stage and the plan of an unfinished rotation
  leftover,   \* is the candidate of the current generation still there
  receipts,   \* the generations the rotation receipts name, Bad a torn line
  anchored,   \* how many of them the receipts' checkpoint counts
  sealed      \* how many events the segment manifest covers

rotated == <<generation, backup, journal, leftover, receipts, anchored, sealed>>
ledger == <<lines, ended, snapshot, rotated>>

LedgerInit == /\ lines = <<>> /\ ended = TRUE /\ snapshot = None
              /\ generation = 0 /\ backup = [g \in 1..MaxRotations |-> None]
              /\ journal = None /\ leftover = FALSE
              /\ receipts = <<>> /\ anchored = 0 /\ sealed = 0
-----------------------------------------------------------------------------
(* The active ledger parses; a last line without newline counts if it does.  *)
LedgerOk == Bad \notin Range(lines) /\ IsInjective(lines)

(* What the current generation holds: its backup, whose last event is the     *)
(* active ledger's first, and the lines that follow it.                       *)
Kept == IF generation = 0 THEN <<>> ELSE Front(backup[generation])
Ledger == Kept \o lines

ReceiptsOk == Bad \notin Range(receipts) /\ anchored = Len(receipts)

(* Mutant: an unfinished rotation does not block readers.                    *)
ReadableAlways ==
  /\ LedgerOk
  /\ generation > 0 => /\ ReceiptsOk /\ generation \in Range(receipts)
                       /\ lines # <<>> /\ lines[1] = Last(backup[generation])
                       /\ IsInjective(Ledger)

(* readMemoryLedger of the view: an unfinished rotation blocks it, and a      *)
(* generation needs its receipt, its backup and its anchor.                  *)
Readable ==
  /\ journal = None
  /\ LedgerOk
  /\ generation > 0 => /\ ReceiptsOk /\ generation \in Range(receipts)
                       /\ lines # <<>> /\ lines[1] = Last(backup[generation])
                       /\ IsInjective(Ledger)

(* readSnapshotTail: the snapshot's boundary line is where it was, and what  *)
(* follows it is well formed.  Nothing before the boundary is read.          *)
TailOk(n) == /\ ended
             /\ Bad \notin {lines[i] : i \in n + 1 .. Len(lines)}
             /\ IsInjective(SubSeq(lines, n + 1, Len(lines)))

SnapshotUsable == /\ snapshot # None
                  /\ snapshot.upto <= Len(lines)
                  /\ snapshot.upto > 0 => lines[snapshot.upto] = snapshot.last
                  /\ TailOk(snapshot.upto)

InTail == {lines[i] : i \in snapshot.upto + 1 .. Len(lines)}
-----------------------------------------------------------------------------
(* A projection: how many lines it covers, the last one of them, the events  *)
(* it was reduced from, the generation it was reanchored to.                 *)
Projection == [upto : Nat, last : Event \union {None}, events : SUBSET Event,
               generation : 0..MaxRotations]

Stage == {"prepared", "switched", "state-published", "snapshot-published", "receipt-published"}

LedgerTypeOK ==
  /\ lines \in Seq(Event \union {Bad}) /\ ended \in BOOLEAN
  /\ snapshot \in Projection \union {None}
  /\ generation \in 0..MaxRotations
  /\ \A g \in 1..MaxRotations : backup[g] = None \/ backup[g] \in Seq(Event) \ {<<>>}
  /\ journal # None => journal.stage \in Stage
  /\ leftover \in BOOLEAN /\ anchored \in Nat /\ sealed \in Nat
  /\ Range(receipts) \subseteq 1..MaxRotations \union {Bad}
=============================================================================
