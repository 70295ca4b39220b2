# wendkeep: a TLA+ verification project

wendkeep keeps a project's engineering memory (sessions, decisions, changes,
receipts) as files in a Vault, and lets short-lived processes — the command line,
editor hooks, an MCP server — work on those files at the same time. There is no
server: what makes it correct is the order of its file operations, a few lock
protocols, and recovery from a process that died between two of them. That is
what these modules model.

Paths below are relative to the repository root, which the project maps as `src/`.

## 1. Inventory

Thirteen workspaces under `packages/`, the older code in `hooks/` and `src/`.
All state is in files; all components meet in the file system.

| Component | State | Operations | What is hard | What makes it correct |
|---|---|---|---|---|
| Vault path lock (`packages/vault/src/vault-path-safety.mjs`) | `<path>.lock/` with `.owner.json` and `.lease-<token>` | acquire, release, reap a dead owner | several reapers racing each other and the next owner; deaths halfway | mutual exclusion; no living owner loses its lease; every call returns |
| Shared memory store (`memory-store-base`, `memory-snapshot-store`) | outbox files, `MEMORY_EVENTS.jsonl`, two projections, a snapshot | enqueue, project, repair | a crash between any of append, publish, snapshot, unlink; cut writes; retries | acknowledged is durable; logged once; projections within the ledger; eventually shared |
| Memory rotation, segments (`memory-rotation-store`, `memory-segment-store`) | journal, segment chain, manifest, generation | rotate, resume, recover | a six-stage journal and a second active ledger | no event lost or doubled by a rotation |
| Memory reducer (`reduceMemoryEvents`, `src/memory.mjs`) | the record, its candidates, a snapshot of them | reduce (whole or incremental), promote, reject | late events, contested values, decisions prepared without a lock | an incremental projection gives the value of a replay; no session's word is lost; a decision stands |
| FLOW store and promotion (`packages/harness/src/flow-store.mjs`, `hooks/flow-core.mjs`, `hooks/change-core.mjs`) | contract, attempts, reservation, receipt, promotion; change directory | start, finish, promote, `change new` | readers without the lock; a saga over five files; two promotions to one slug | one running flow per session; never self-corrupt; a slug has one owner; a retry completes |
| Sync (`packages/sync`, `src/sync-protocol-cli.mjs`) | outbox, acks, local state; backend state and log | push, pull, resolve | death between log, state and ack; stale local copies; concurrent edits | acknowledged is stored; no edit dropped without a conflict |
| Receipt ledger (`packages/evidence/src/receipt-ledger.mjs`) | hash-chained ledger, checkpoint, v1 bytes, lock file | append, read, migrate v1 | two files per append; a lock removed by name | acknowledged is kept; append-only; readable after a crash |
| Active contexts, session registry (`hooks/active-context-store.mjs`, `hooks/obsidian-common.mjs`) | contexts, session entries, activations, with revisions | mutate (compare-and-swap), attach, consume, close, repair | revisions read before the lock; tombstones of cleanup | no stale write: what is changed is what was read |
| Session hooks (`hooks/session-stop.mjs`, `hooks/session-memory-lifecycle.mjs`) | activations, outbox, the attempt and the checkpoint of a session | start, prompt, stop, sweep | Stops that overlap, come late or die between their critical sections | one activation open; memory staged in causal order; closed means shared |
| Task leases (`src/task-leases.mjs`) | claims in the contexts | claim, release, take over | expiry by a clock read before the lock | one owner of a task |
| Managed worktrees (`packages/worktrees`) | Git worktrees, registry, reservations, receipts | add, remove, finish | a saga over Git and four stores | never removes an active worktree; the receipt is true |
| Archive lock, change archive (`src/archive-operation-lock.mjs`, `src/change.mjs`) | lock directory, change trees, spec files, transaction | archive, recover, abandon | a saga of renames and hard links beside people who save the same files; rollback | one archiver; no edit or change directory lost; specs all or nothing |
| Migrations (`packages/migrations`) | journal, receipt, backup | run, repair, rollback | edits between crash and resume; stale backups | rollback restores what was there |
| Contracts, TDD (`packages/contracts`) | task files, attestations | start, finish, waive | order of red and green | green only after red |
| Delivery (`src/delivery.mjs`, `src/verify.mjs`) | state file, binding in the context, receipts | start, finish, abandon, repeat | three durable steps, minutes after the reads they rest on | an ended delivery has its receipt; a binding is cleared only for its own, ended delivery |
| Commit policy, provenance gate, operating profile, sensors | read-only inputs | validate, classify | — | text and field checks |
| MCP server (`packages/mcp`) | one child per request | call, cancel | a timeout racing an answer | one answer per request |
| Observer (`packages/observer`) | a SQL database | ingest, purge | order of ingestion | counted once |
| Note rendering, Git snapshots, project binding, portable state, evidence index and recall, host integrations, command line and views, release and web | notes, caches, pages | render, search, parse | — | mostly pure functions around the parts above |

How they interact: the memory store, the FLOW store, the contexts, the registry
and the sync command's local files all run their writes inside
`withVaultPathLock` (call, with a callback). The FLOW promotion calls the FLOW
store, the change scaffold and the session registry inside one lock, and
`change new` enters the same scaffold without it (shared files). Archive,
worktree cleanup and deliveries all append to a receipt ledger through the same
code, each with a ledger file of its own (`wendkeep/worktree-cleanup-receipts-v2.jsonl`
in the Git directory, `.brain/runtime/delivery-receipts-v2.jsonl`). A Stop hook
acknowledges its turn in the session registry, enqueues an event in the memory
outbox and projects it, each in a critical section of its own. Task leases,
deliveries and worktree cleanup write the same active contexts, and tell each
other's writes apart by revisions. The sync command reads the portable state that
`portable export` wrote. The processes never message each other; a process learns
of another only by what it finds on disk, and mostly before it takes the lock
under which it then writes.

`PROJECT.json` lists every component with its status, and under `hazards` what
in this code is hard to reach by a test, each at its line, with the properties
that watch it or the reason there is none.


## 2. Modules

```
LeaseMutex            what a lock promises
  ^ refinement
VaultLock             the Vault path lock            ReplayProofs
MemoryLedger          files and their readings
  MemoryStore           + outbox, projector
    MemoryRotation        + seal, rotation, recovery MemoryRotationProofs MCMemoryStore
MemoryReducer         the value of one record      ReplayProofs           MCMemoryReducer
FlowStore             locked operations of a flow    FlowStoreProofs
  FlowReader            + the unlocked reader                             MCFlowReader
  FlowPromotion         + finish, promote, change FlowStoreProofs         MCFlowPromotion
SyncRecord            protocol functions (no state)
  SyncDevices           + devices and the backend  ReplayProofs           MCSyncDevices
ReceiptLedger         ledger, checkpoint, lock file
  Delivery              + state files, bindings   DeliveryProofs          MCDelivery
SessionRegistry       what a write may do (no state)
  WorktreeCleanup       + git, receipts, sessions WorktreeCleanupProofs   MCWorktreeCleanup
SessionActivations    an entry's operations (no state)
  SessionStop           + the hooks of a session     SessionStopProofs    MCSessionStop
ActiveContexts        contexts, leases, the pointer  ActiveContextsProofs MCActiveContexts
ArchiveLock           the archive's lock directory
  ArchiveChange         + change trees, promotion    ArchiveChangeProofs  MCArchiveChange
```

An indented module EXTENDS the one above it: Delivery composes a command with the
ledger it appends to, MemoryRotation the projector with the rotation that shares
its files, ArchiveChange the saga with its lock. Operators named in a comment as a
mutant are not part of a specification; they are plausible bugs that the
properties are known to notice. `VaultLock` needs no
MC module: its configurations name it. Every module has a type invariant (`TypeOK`,
`StoreTypeOK`, `DTypeOK`), which held in every run it was checked in and is left
out of the configurations, where it would only repeat itself.

A lock that is modelled once is a fact elsewhere: a critical section of
`withVaultPathLock` is one step, or a place that one process holds, in every module but
VaultLock, and a death there frees it, because the next caller reaps.

### VaultLock and LeaseMutex

`VaultLock` follows `withVaultPathLock`, `reapDeadVaultLock` and
`releaseOwnedVaultLock`. Its state is the public directory (`present`, `owner`,
`leases`, an identity of its mtime and whether it is older than `staleMs`), which
processes live, and for each process its place, the owner it saw and the stamp
it saw first. Every file-system call another process can observe is an action:
`Attempt`, `Raced`, `Rename`, `Finish`, the five steps of reaping
(`ReapStat` … `ReapRecheck`), the five of releasing (`Release`, `UnlinkLease`,
`Reread`, `UnlinkOwner`, `Rmdir`), `GiveUp` at the deadline; `Age` and `Crash` are
the environment. A dead owner is released by the reaper's running the *same*
five steps in its name: that is why a paused reaper is dangerous, and the lease
file, whose name holds the token, is what stops it. The initial states hold
every residue a dead owner can have left. `LeaseMutex` has one variable `holder`
and frees it only when its holder is not running; the mapping takes as holder the
process whose lease is in the directory.

A pid and a token are both the process, and a process makes one call. Pid reuse
(a dead owner's pid given to a new process) only makes a lock look alive longer.
The file system is POSIX.

### MemoryLedger, MemoryStore, MemoryRotation

`MemoryLedger` has the files and how they are read: the active ledger's lines
and whether the last one ended, the snapshot of a projection, and, after a
rotation, the generation's backup, its state, the receipts with their anchor and
the journal; `Ledger` and `Readable` are the view that `readMemoryLedger` gives.
In `MemoryStore` producers run `enqueueMemoryEvent` (`Create`, `Write`, and
`Repeat`/`Collide` for EEXIST), without a lock. The projector runs under
`MEMORY.lock`: `Project` reads the outbox and chooses the incremental path (a
snapshot whose position and last event the ledger confirms) or a full replay,
then `AppendLedger`, `PublishShared`, `PublishCandidates`, `WriteSnapshot`, one
`Unlink` per outbox file, `Return`. `Crash` falls between any two and may leave a
part of an append, cut inside a line or (constant `TearKinds`) just before its
newline. `Repair` is `repairMemoryLedger`: what `EventLines` keeps replaces the file.

`MemoryRotation` adds `Seal` (the segments), `Rotate` (the plan: its conditions
and what it fixes), and a step per durable effect: `WriteBackup`, `WriteJournal`,
`Switch`, `PublishState`, `ReanchorSnapshot`, `AppendReceipt`, `Anchor`, a `Mark…`
of the journal after each stage, `RemoveJournal`, `RemoveCandidate`. `Recover` is
the same steps begun from the journal a crash left, whose guards (`Passes`) accept
the state before a step or the step's own earlier effect and `Refuse` any
other; `Finalize` clears a candidate left after the journal. A projection is the
set of events it was reduced from. The repair of the segment manifest, the
integrity of segment files and the validation of events are left out, and a
receipt line is cut inside the line only.

### MemoryReducer

What `reduceMemoryEvents` and the incremental reducer make of one record key.
Sessions `Observe` a value at the end of a turn (a turn may be repeated, an
activation renewed) and `Enqueue` it later, in any order; `Project` takes a batch
through `Full` (causal sort and fold of the whole ledger) or, where the code's
conditions on the snapshot, the batch and its instants allow it, through `Fast`
over the tail. `Contest`, `Superseded`, `Promotion`, `Settle` are the
candidates' rules. `Decide` is `memory promote` or `reject` up to its decision
event, from what is published; `Submit` enqueues it later: no lock spans the two.
One record key; an event is known by the instant it was observed at (the code
breaks ties by id); assertions have one authority, promotions a higher one. Left
out: add, remove and replace-by-hash operations, which nothing in the source produces
but a promotion's replace, CORE invariants, rescoping, rendering.

### FlowStore, FlowReader, FlowPromotion

`FlowStore` has one action per locked operation: `Create`, `AppendAttempt`,
`Reserve`, `WriteReceipt`, `WritePromotion`. Every file is made by one rename
under the session's lock and never changed, so each is one step. `FlowReader`
adds `readFlow` without the lock: four reads, in the code's order, between
anyone's writes; `past` is a history variable. `FlowPromotion` adds processes
that run `finish` (`Finish`, then `Red` or `Green`), `promote` (`Promote`,
`Acquire`, `Decide`/`Refuse`, `ReserveSlug`, `Mkdir`, `Origin`, `NewInside`, one
`Write` per scaffold file, `Activate`, `Enrich`, `Register`, `Terminal`, `Note`)
and `change new` (`ChangeNew`, `Write`, `Activate`), and the author (`Author`).
`Fail` is a crash, an error or a BUSY lock at any place. What finish checks (a Git
snapshot, sensors, allowlists) is a nondeterministic outcome. Not modelled:
artifacts cut halfway, the compact scaffolds of `change new`.

### SyncRecord and SyncDevices

`SyncRecord` translates `applySyncEvent`, `replayPending` and
`resolveSyncConflict` for one record key as operators (keys never read each
other's state). `SyncDevices` has an authored vault, a portable file, an outbox
with acknowledgements and a local copy per device, and the backend directory:
`Export`; `Push` (make the event, queue it), `Take` the lock, `List`, `Save`,
`Unlock`, `Acknowledge`, `PullAtEnd`; `Pull`, `Import`; `Resolve`,
`RecordResolution`; `Fail`, `Die`, `Reap`. EVENTS.jsonl is rewritten in place, so a death
in `List` can leave it torn. One record key and one authored value; one command
at a time on a device; a lock is reaped only from a dead owner (the code reaps by
age alone, 30 s against a critical section of two file writes). The HTTP adapter
with its event-replaying replica, tombstones, sync leases and encryption are left out.

### ReceiptLedger and Delivery

`ReceiptLedger` has one action per file effect of `appendReceipt` and
`readReceiptLedger`: `Create` the lock file exclusively, `Publish` its contents
(`PublishFails` removes by name), `Inspect` and `Unlink` a stale one, `GiveUp`;
`Read`; the v1 migration `KeepLegacy`, `Migrate`, `Anchor`; `Decide` (new, replay,
conflict, or a plain read), `Write`, `PublishCheckpoint`, `Release`. `Fail` is an
I/O error at any write, `Die` a death anywhere. A hash stands for what it is
computed from. Two timing assumptions are constants: `Reaper`, the processes that
may meet a stale lock, and `Slow`, whether a process may pause for a whole lease
between creating and writing its lock.

`Delivery` runs `delivery start`, `finish` and `abandon` over that ledger. A
delivery is a state file, a binding (`delivery_id`) in the context of its session and,
at its end, a receipt. `Start` reads the context; `WriteState`, `Bind` (compare
and swap on the revision read) or `BindFails` and `RemoveState` follow. `Close`
reads state and binding and builds its receipt; `AskLedger` enters the ledger's own
steps (`LedgerStep`); `Persist` writes the state file from what was answered and
`Clear` takes the binding away if it still names the delivery. `CloseAgain` is the repeat of
a command whose delivery has ended. `Touch` is any other write of the context;
`Killed` a death between any two steps, the ledger's included. The checks against Git and the
forge are nondeterministic, and so is what they put into the receipt (two reasons of an
abandon). `UniqueIds` says that no start runs for the id of another; the generated
id has a resolution of one second, so it is an assumption about people, not a fact.

### SessionRegistry and WorktreeCleanup

`SessionRegistry` holds, as operators on one registry, what a write under its
lock may do while a cleanup has reserved the contexts or sealed them with a
tombstone (`MayWrite`, `Adopted`). `WorktreeCleanup` is `worktree finish` and
`worktree remove`: `Inspect`, `ReserveContexts`, `ReserveTree` (or `Undo`,
`PreFail`), `Prepare`, `Revalidate`, `StartRemoval`, `RemovePath`, `Recheck`,
`Close` the contexts, `DeleteBranch`, `AppendReceipt`, `Seal` with the tombstone,
`Finalize`, and on failure `Release`, `FailEntry`, `FailContexts`. `Throw` is a
busy lock or a failed Git call before its effect, `Die` a death anywhere; a later
`Begin` resumes what it finds. `Meanwhile` is a session that starts, ends, changes
its context or is repaired, a file left uncommitted, a commit. Left out: the
remote branch, the actor context, outbox blockers, details of the pull request
proof, `cleanupMerged`, `prune`, `diagnose`, `createManagedWorktree`, the
staleness of the worktree registry's own lock.

### SessionActivations and SessionStop

`SessionActivations` has the pure operations of `hooks/obsidian-common.mjs` on one
entry: `Open`, `Acknowledge` (and its dispositions), `Close`, the causal check
`Causal`, `MaySkip`. `SessionStop` has the hooks: `SessionStart`, `Prompt` (which
may be `PromptLost`), and each Stop's critical sections `AckStep`, `Stage`
(enqueue and record the attempt), `ProjectStep`, `Record`, `CloseStep`; `Reopen`
for a Stop after its activation; `Sweep`; `OthersProject`; `Die`, and `DieStaging` between
the event and the attempt. A host that names its turns and one that does not are
two initial states. Left out: the legacy memory mode, host-given activation ids,
note files and iterations (the last turn of a reopening is nondeterministic),
observability, `pruneRegistry`, the non-finalizing mode, a prompt hook delivered
after its own Stop.

### ActiveContexts

The contexts of SESSION_REGISTRY.json with their change, the operating-profile
lease of the session's request and the task lease, and CURRENT_CHANGE.md. A write
is one step under the registry's lock; what it rests on was read before:
`ReadForPointer`/`WritePointer`, `ReadLease`/`Consume`, `StartClaim`/`Claim` (its
time is read before), `Inspect`/`Repair` (the diagnosis and the revision). What a revision stood for
when it was read is kept beside it for the properties (`saw`); no step looks at it.
`SetChange`, `Route`, `Release`, `Prompt`, `Stop`, `RemoveWorktree` and `Tick` are
what happens in between. Left out: what a cleanup's reservation forbids (it is in
WorktreeCleanup), the projection of CURRENT_DELIVERY, the legacy migration, switching
and recovering a context.

### ArchiveLock and ArchiveChange

`ArchiveLock` is the directory with one marker: `PublishLock` by rename,
`Inspect`, `Reap`, `Prune`, `Unlock`, `Leave`; a token belongs to one life of a
command, so a death (`run`) makes it stale. `ArchiveChange` is `change archive` and
`change archive recover` in either mode: `Archive` (journal, isolation, copy, plan,
seal, publication), `Promotion` (per file of the plan, the recorded state last:
claim by rename, retain, recheck, candidate, hard link, verify; backwards for a
rollback), `Recover`. `Outside` saves living specs without any lock, and edits,
rebases, reopens and abandons open changes. A spec is the set of deltas and edits
in it. Isolation and copy are one phase here; the README entry, `generatedAt` and
the pre-checks of deltas are left out, and of a recovery's
checks those of the after-images and the README (`change.mjs:607`, `:633`, `:639`), so that more is
recovered here than there; ADRs, links and the pointer are in the
last step; nobody outside deletes files.

## 3. Runs

| Run | Configuration | States | What is asked, and holds |
|---|---|---|---|
| `vault_lock` | 2 processes, all residues, `FairSpec` | 6 k | `MutualExclusion`, `LeaseKept`, refinement of `LeaseMutex` (`Mutex`), and every call returns |
| `memory_store` | 2 events, 3 creations, 2 crashes, 2 rotations, `FairSpec` | 137 k | An acknowledged event is durable, logged once, seen by whoever may read the ledger, and shared in the end; a rotation resumed goes on |
| `memory_reducer` | 2 sessions, 3 values, 3 assertions, 2 decisions, snapshot every 2 events | 260 k | The published value is that of a replay, unless an overtaken turn was promoted; no session's word is lost; a promotion stands |
| `flow_reader` | 3 flows, 2 sessions, 2 slugs, 2 attempts, a reader | 398 k | The store is never corrupt, ends are final, an overlapping read never reports what never was |
| `flow_promotion` | 2 flows and sessions, 1 slug, 2 processes, 1 failure, `FairSpec` | 184 k | A slug has one owner, a promoted change is whole, a reserved promotion that is retried ends |
| `sync_devices` | 2 devices, 2 versions, 4 events, 1 death | 2.3 M | Acknowledged is stored; every event is the record, an ancestor, a candidate or resolved |
| `deliveries` | 2 commands, 2 deliveries of 1 context, 4 drafts, ledger empty or v1, 2 deaths or errors | 3.1 M | An ended delivery has its receipt in a readable ledger; a binding is cleared only by its own, ended delivery |
| `worktrees` | 2 callers, 2 sessions, 3 calls, 2 faults, 1 event | 1.1 M | One remover; the receipt is true for good; cleaned is sealed; the directory goes away under nobody |
| `sessions` | 2 Stops, 2 turns, 2 activations, 1 death | 931 k | One activation open; memory staged in causal order; closed means shared; what was published never goes back |
| `contexts` | 2 sessions, 2 commands, 1 change, leases of 1 tick, 3 turns, 3 writes | 3.0 M | No live task lease is taken; a lease is consumed only as it was read; what a repair or a consumption changes is, in every field, what was read before the lock |
| `archive` | 2 commands, 2 changes that share a spec, 2 specs, 1 saved edit, 1 death, 3 events | 1.8 M | One archiver; no step loses an edit; no change directory lost; promotions all or nothing, and they stay; the recorded state is true |
| `memory_decisions` | 2 sessions, 2 operators, 2 values | violated | `DecisionIsIdempotent` (section 4) |

Deadlock is checked in no run: processes end, calls are finite in number,
and a bounded model stops when its bounds are used up.

**Why the bounds are enough.** The run of the Vault lock has two processes for the
sake of liveness; a late reaper, a faster one and the next owner are three, and for
any number exclusion, the lease and the refinement are proved. Two
memory events are the least with an order and a batch; three creations let one be
retried after it was consumed; two crashes are a crash in the recovery from a
crash, and two rotations one generation upon another. A contested value needs two
sessions and a third value to tell the winner from both; a snapshot of every
second event lets a batch be taken on top of a snapshot, or refuse it. A promotion is
disturbed by one rival on its slug; a second flow of another session is that. A
sync conflict has two sides; four events are two edits, a resolution and an edit that
follows it. Four drafts give a new receipt, a replay, a conflict of two reasons
and a record of version 1; one reaper of stale ledger locks is an assumption, and
dropping it is shown below. A cleanup is disturbed by one other caller and one
event between its look and its act; three calls are a removal, its retry and
a rival, and two faults a fault in the retry. Two Stops of two turns are every
order of an early and a late one; two activations make one superseded. Leases of
one tick and one tick of time make a lease live, then over; three writes and turns let
a value change twice behind a reader. Two changes sharing a spec, of which one
has another, new one too, meet in one file and differ in the other, and three events
are an archive, a recovery and what a person or a rival does between. One saved
edit cannot be overtaken by another, so the exception in `EditsKept` is not met in the run;
with two (5.8 million states) the configuration was checked as well, and the
theorem is for any number. One death is a limit of the
system and not only of the run: see section 4. The other bounds (`MaxAttempts`,
`MaxFailures`, `MaxEdits`, `MaxRevisions`) count and do nothing else.

**Symmetry** is used where a configuration checks safety and the permuted values are
interchangeable: devices, Stops, commands and sessions, callers, values.

**Fairness** is stated for the three runs with liveness. `VaultLock`: a living
process goes on and its callback returns (weak fairness of `Call`); the loop looks
at the deadline in each turn after it failed, so giving up is taken if it is possible again
and again (strong). `MemoryRotation`: a living producer finishes its write, a running
projector and a running rotation go on (weak); a session end projects again and
again, a blocked ledger is repaired (docs/en/commands/memory.md:111 asks for it) and
an interrupted rotation is recovered, so each is taken sooner or later if it is
possible again and again (strong, since the lock is held by others in between).
`FlowPromotion`: a process goes on, a lock that is free again and again is got, and a
reserved promotion is retried until it is reported done. Nothing is assumed of
crashes, and none is assumed not to happen beyond its bound.

**Further configurations** state what a doc, comment or test says and the code
does not do, or what holds only under an assumption; each stops with a counterexample. Where a
configuration lists several, each is violated alone.

| Configuration | Property | What is shown |
|---|---|---|
| `MCVaultLockReapers.cfg` | `PartialIsResidue` | A slow reaper removes its successor's `.owner.json`; a living owner's lock looks partial. Exclusion survives |
| `MCMemoryStoreDocs.cfg` | `AppendOnly` | A ledger that lost only its last newline reads as healthy; the next append joins two lines, the outbox file goes, and repair drops the joined line: two logged events are gone |
| | `RetryIsNoOp` | A producer died in the middle of its file; the retry of the same event collides, and the outbox refuses it for good |
| | `RecoveryConverges` | After a death between two stages a projection goes on under the journal (`memory-snapshot-store.mjs:907`), and the recovery then refuses what it finds |
| `MCFlowPromotionDocs.cfg` | `ScaffoldIsWhole` | `newChange` decides by `proposta.md` alone whether the change is new; a `change new` that is that far, or a death of the promotion there, makes promote skip two files |
| | `PreexistingNeverTaken` | `change new` creates the change between promote's check and its mkdir |
| `MCMemoryReducerLater.cfg` | `LaterStopAdvances` | What a session said last gives way to what it said before, after a promotion (section 4) |
| `MCSyncDevicesOlder.cfg` | `NoOlderVersion` | `push` takes over the backend's state without importing it; the next push numbers the older content as a successor |
| `MCDeliveryDocs.cfg` | `Durable` | With two reapers, the slower one unlinks the faster one's new lock, and a receipt whose append returned is overwritten |
| | `AlwaysReadable` | Cut off before its first checkpoint, a ledger stays unreadable: the missing file is taken for a truncation |
| | `OneEnd` | A finish and an abandon of one delivery, both decided before either wrote, leave two receipts |
| | `NotReplaced` | Two starts that overlap: the second binding replaces the first, although an active delivery is never replaced silently (`tests/delivery.test.mjs:695`) |
| `MCWorktreeCleanupResume.cfg` | `RetryIsAccepted` | A retry after a crash is refused as a mismatch, since the cleanup's own write changed a revision it watches (docs/en/commands/worktrees.md:63-65; `worktree-cleanup.mjs:1068`, `active-context-store.mjs:409`) |
| `MCActiveContexts.cfg`, with the invariant in place of its properties | `PointerIsDerived` | A command writes CURRENT_CHANGE.md from contexts it read before another session's became active, and nothing projects it again (docs/en/commands/context.md:120-121; `active-context-store.mjs:186`) |
| | `ExpiryIsDiagnosed` | A lease that outlived the Stop of its request is not diagnosed (README.md:119; `active-context-health.mjs:73-76`) |
| `MCArchiveChangeRecover.cfg` | `HalfIsRecoverable` | A spec saved under a promotion stops it halfway, and the transaction can then be neither resumed nor rolled back, without any death (docs/en/commands/changes-and-verification.md:137-143) |

## 4. Findings

`memory_decisions` — the id of a decision names the candidate and what was
selected, its instant is the clock's, and neither the look for an earlier decision
nor the enqueue is under a lock (`src/memory.mjs:692`, `:736`, `:766`). Two `memory
reject` that overlap leave a second outbox file of one id and another payload,
and from then on every projection of every session throws before it changes
anything, until someone removes the file. The doc
(docs/en/commands/memory.md:134) calls the decision idempotent. A promotion that
overlaps a rejection stops the projector as well, by another error
(`memory-store-base.mjs:601`). The same line of the doc says that a replay does
not recreate a resolved candidate (`ReplayRecreatesNothing`, of MemoryReducer):
TLC finds that when a contested session goes on after a
rejection, the incremental projection publishes no candidate where a replay of the
whole ledger puts one up.

The further configurations of section 3 show where other words of the repository
and the code part, or where a narrow race is open. What else modelling brought
to light, read off the models' behaviours:

- *Stop hooks.* A Stop can close the activation between the acknowledgement and the
  staging of a later Stop, whose turn is then never published. A Stop killed after it
  recorded "projected" is a duplicate when replayed and closes nothing. The
  sweep records a session as done and leaves its activation open.
- *Contexts.* A compare-and-swap that meets a newer revision leaves a lease
  unconsumed without a word (`operating-profile-task-store.mjs:155`).
- *Deliveries.* A death between state file and binding leaves an active delivery
  that no context owns: it can be neither finished nor started again. An
  abandon repeated with another reason after a death between append and state
  file is a conflict of the ledger for ever. Two starts with one id: the
  failing bind removes the other's state file, or the second overwrites it.
- *Archive.* Recovery is also refused when another archive has changed a different
  requirement of the same spec, or has replaced SPECS_STATE, since whole files are
  compared (`change.mjs:598`). A death between candidate and link leaves resume
  alone possible (`change.mjs:766`). A directory without a journal blocks the
  archives of every change (`change-core.mjs:544-575`). A release whose rmdir loses a race
  reports its ownership lost.
- *Memory reducer, found while proving.* A session's turn 2 is in conflict with the record, its
  turn 1 is promoted, and its turn 3 says what was promoted. The values agree, so the
  reducer leaves the record's source at turn 1 (`memory-store-base.mjs:669-692`); the
  revisit of the deferred assertions (`:790-803`) then finds turn 2 later than the
  source and makes it the value, over what the session said last, though
  docs/en/commands/memory.md:143-144 says that a later Stop advances the value. With a
  snapshot in between, the incremental path, which revisits nothing, publishes turn 3's
  value where a replay gives turn 2's. `ValueIsReplay` therefore excepts ledgers in
  which a turn was promoted that its session had already gone beyond (`Overtaken`).
- *Archive, found while proving.* A claimed file that holds a person's edit is put back by
  a rename whose check that the place is free comes before it
  (`change.mjs:756`, `vault-path-safety.mjs:277-299`): what another person saved
  there in between is overwritten. `EditsKept` names this instant (`Overtaken`) and holds everywhere
  else. `PromotedStays` is not a theorem, and neither are `AllOrNone` and
  `StateIsTrue`: with two deaths, one right after the claim of SPECS_STATE and
  one right after the claim of a spec, the next archive finds neither file, takes the spec for
  new (a missing state blocks nothing, `spec-core.mjs:140`) and publishes it
  without what an earlier archive had completed. TLC finds it with four changes of one
  spec and two deaths.

## 5. Proofs

Eight modules of proofs; each states its inductive invariant first, then one lemma
per action or group of actions. Every invariant below was checked by TLC as an invariant of
its run before it was proved. The assumptions on constants say what a model value is not
and that bounds are numbers; where a theorem needs more, it is a hypothesis of the theorem.

**ReplayProofs** is about what is read back from events, in sync and in the shared
memory, and about the Vault path lock, under which a device writes its outbox and its
acknowledgements (`sync-outbox.mjs:52-56`, `:129-130`); `VaultLock` and `MemoryReducer`
name their operators apart (`LockSpec`, `ReducerSpec`) so that one module can extend all
three.

Of sync, for any devices, versions, numbers of events and deaths, from
`SyncAssumption`: `AcksAreStored` (`AckedIsStored`), `EventsAreAccounted`
(`Accounted`), `NothingIsForgotten` (what the backend's state has taken it never loses, so no
device that saves under a reaped or a fresh lock undoes another's event),
`RecordsSucceed` (an accepted version gives way only to an event that names it as a
parent, and an open conflict only to a resolution that names every candidate),
`SyncTyped`, and `NothingWaits`: with the filesystem adapter no event is ever left
waiting for a parent, so what `replayPending` is for does not happen, and that
`resolveSyncConflict` does not call it costs nothing here.
`Accounted` holds of the one state on file; what carries it through a push is `Traced`,
that *every* state a device can hold, of whatever age, traces each event it applied to
its record or to a candidate by parents among the events made. With it
`SyncInv` has what is on file and who may change it (`Files`, `Locked`)
and what a device still knows of it (`Knows`); `SuccessionInv` adds that no event
waits, that what the lock's holder is to write succeeds what is on file, and that
no device's copy is ahead of it (`Behind`). The recursive function of `replayPending`
stops by an induction: since no prover here instantiates an induction theorem,
it is made first-order, from the least number of a nonempty set of numbers
(`LeastNumber`, which the well-foundedness of finite sets gives) to the existence of
iterates (`Iterates`).

Of the reducer, for any sessions, operators and values, whatever the order of arrival, the
number of events and the size of a snapshot's tail, from `ReducerAssumption`:
`ReplayIsKept` (`ReplayInv`) and `ValuesAreReplayed` (`ValueIsReplay`). The
question is whether the incremental path, which reads its events in the order of arrival
and settles no conflict, can publish another value than the replay, which sorts the whole
ledger and settles the deferred conflicts at the end. `ValueIsReplay` says nothing of the
snapshot, from which the next value is made, so it is not inductive; `ReplayInv` adds
that the snapshot's record is the replay's of the prefix it covers and that its
cursor is at or after every instant in it (`Trusted`), that the published record
is the main loop's (`Current`), and what the events made so far look like wherever they are
(`Written`, `Placed`): one for an instant, and the turns of an activation in the order of their instants.
Two arguments carry it. A tail that is taken up has only
instants after all those before it, so arrival is causal order there and `FastApply` does
what `Apply` does to the record (`FastRight`, `SaidLast`). And the replay's last
phase leaves the record as it was (`NothingSettled`): a session never goes back, so no
deferred conflict holds a later turn of the record's lineage than the record itself
(`Calm`), unless a turn was promoted that its session had gone beyond (`Overtaken`). The
invariant failed first at that exception; the events that broke it are those of
`MCMemoryReducerLater.cfg` (section 4), and `ValueIsReplay` names the exception instead of hiding it.
The replay is a recursive function of instants up to the clock, so that an event made later
must be shown to change nothing in a replay of the events before (`ReducedAgain`).

Of the lock, for any set of processes, from `OwnerAssumption` (the two
markers are not processes): `TypeCorrect`, `LeaseSafe` (`LeaseKept`), `Exclusion`
(`MutualExclusion`) and `LockImplementsMutex` (every behaviour is one of
`LeaseMutex`). The invariant is `LockInv`. `LeaseKept` is
not inductive, since it says nothing of the reapers under way; what carries it is
that the token a process is about to remove is its own or that of a process
observed dead (`ReleasesOwnOrDead`, `ReapsTheDead`), that the dead stay dead
and only the living run (`RunningIsAlive`), and that there is one lease at most, since rename
replaces only an empty directory. Note what is *not* in it: the stamps. The
checks of mtime keep litter away; exclusion rests on the lease file alone.

**FlowStoreProofs** proves for any flows, sessions, slugs and attempts, from
`FlowAssumption`: `StoreIsSound` (`StoreTypeOK`, `Sound`, `OneRunning`),
`EndsAreFinal` (`Final`), and `ReadsAreTrue` (`NeverTakenForCorrupt`,
`ReadWasTrue`). The store's own invariant is `StoreInv`. For the
reader the invariant follows the reads in order: a file read as present still
is (`PresentIsKept`); a file read as absent shows that at some instant of the
read the flow was active (`UnreservedWasActive`) or promoting
(`ReservedWasPromoting`); and attempts are read last, when they are frozen or
are the present ones (`AttemptsAgree`). A mutant with another order of reads
violates it, so the order matters.

The same module goes on to FlowPromotion, for any processes, calls and failures,
from `CallAssumption` too (the call of a process that has none is no call):
`PromotionIsTyped` (`TypeOK`), `OneFlowRuns` (`OneRunning`, now for every
command and not the store alone), `SlugsAreOwned` (`SlugOwnedOnce`),
`PromotionsAreWhole` (`PromotedIsWhole`). Neither of the last two is inductive: a promotion checks its
slug in one step, writes the origin in another, the files in others, and each step believes
the ones before. `PromotionInv` says what a call knows at each place (`Knows`): the
slug it is about to reserve is unowned, because it holds that slug's lock; the
origin it passed is its own; the files below its place in the scaffold are there and are
never removed.

**ArchiveChangeProofs** proves for any commands, changes, specs, people and
deaths, over the whole saga and not the lock alone: `ArchivesExclude`
(`OneArchiver`), `ChangesAreKept` (`ChangeKept`), `EditsAreKept` (`EditsKept`). From
`CommandAssumption` (the two markers are not commands) and
`ArchiveAssumption` (the state file is not a spec, no file is not a content). `LockInv`: a command at
work owns the marker in the directory under the token of its present life (`Owned`), and a
marker that somebody is about to unlink belongs to a life that is over
(`SeenIsDead`). Every step of the work is shown to leave the lock alone
(`Works`), which is what lets them all be one case. `ArchiveInv` adds what the
command at work may believe, which nobody else at work can disturb: its
change, its place in a plan whose images are contents (`Aim`); which places of its
change are empty and which are taken (`Ground`), so that no rename of a directory replaces
one; and of the file at hand that it had no claim before it was claimed and that
what is put back holds a person's edit (`Grip`). For all changes, a transaction that has
not begun or was withdrawn has no copy left and a completed one has its archive
(`Journals`), which is what forbids a second archive of the change to overwrite the first.

**ActiveContextsProofs** proves `NeverStolen` (`TaskNotStolen`), `ReadIsConsumed`
(`ConsumedIsRead`), `RepairsAreAsShown` (`ActedAsRead`) for any sessions, commands and lease
time, from `NoneAssumption` and `TimeAssumption`. `ContextInv` is the shape of
contexts and commands, that one session at most holds the task (`OneHolder`), and that
the time a claim was begun with is not in the future (`ClaimsArePast`): a lease
that is over by an old time is over. The steps of a repair and of a consumption compare
revisions only, and `ActedAsRead` speaks of contents; what carries it is `ReadsAreKept`: the
revision a command read is not ahead of the context's, and while it is the same, the content is.
For this each write must raise the revision (`Counted`), and the one to doubt is a
claim, which writes another session's context when it ends that session's lease; the
mutant that forgets this (`LapsedQuietly`) has a context closed that is not the one the
doctor showed.

**SessionStopProofs** proves `OneOpen` (`OneActivation`), `CausalOrder` (`InOrder`),
`ClosedIsShared` (`DoneIsPublished`) and `MemoryNeverBack` (`MemoryAdvances`) for
any number of Stops, turns and activations, from `TurnAssumption`. `StopInv`: the
entry is well formed, its one active activation the last, and no stop sequence past
the last one; the open activation's stop is numbered as it was when acknowledged; the events of
the outbox are acknowledgements reached, in order; the attempt and the
checkpoint are acknowledged, and the checkpoint is not ahead of the attempt;
activations recorded as done are published; and, for each step a Stop can be
at, what it still knows: its sequence was given once and is not past the entry's last,
an event it is to stage is later than every event there, one it is to record is there.
Only this last part lets a Stop act on what it learned two critical sections ago.

**DeliveryProofs** proves over ReceiptLedger and Delivery, for any processes,
deliveries, contexts, drafts and ledger to begin with, any deaths and errors:
`EndsHaveReceipts` (`EndHasReceipt`) and `ClearedAreEnded` (`ClearedIsEnded`). Both have
the hypotheses `OneReaper` and `~Slow`, and the second `UniqueIds`: without one of
them the code does not have the property (two reapers lose an appended
receipt, `MCDeliveryDocs.cfg`; two starts of one id end with the binding of the
second taken away by the failure of the first). `LedgerInv`: who is inside holds the lock, and a lock about to
be unlinked has no owner (`Exclusive`); what a process inside has read is the ledger, at the stage of the
migration that its place says, and a published checkpoint covers a prefix of it for good
(`Anchored`). `ReceiptInv`: a command is inside the ledger exactly while it calls it, and persists
a receipt only once that is covered by the checkpoint (`Commands`), so the ends on file are
(`EndsCovered`). `BindingInv`: a start owns its id (`Starts`), a bound delivery has a state
file, and the revision that an ending command read names the binding it read for as long as
it is the context's (`Closes`), which is why a compare-and-swap that succeeds clears its own.

**WorktreeCleanupProofs** proves for any callers, sessions, retries, faults and
events, from `CleanupAssumption`: `CleanupIsTyped` (`TypeOK`), `OneCallRemoves`
(`OneRemover`), `RemovalIsQuiet` (`QuietRemoval`), `ReceiptsAreTrue`
(`ReceiptIsTrue`), `CleanedStaysSealed` (`CleanedIsSealed`). `CleanupInv`: attempts are
numbered apart, and a reservation by the number of a call that goes on is that call's own
(`Attempts`); a call between its two reservations and their releases works on the
operation of the entry (`Taking`); who owns the reservation decides who goes on, and nobody does once the
worktree is cleaned (`Removing`); what was inspected is still so while it
counts (`StillQuiet`); a removal has done what its place says (`Progress`). The delicate part is
`Apart`: a later call that completes a cleanup borrows the attempt of the call it
releases, so once the worktree is cleaned two calls may carry one number, and the
invariant must then not rest on it.

**MemoryRotationProofs** proves over producers, projector, repair, rotation and recovery
together, for any events, crashes and rotations: `AcksAreDurable`
(`Durable`), `EventsStandOnce` (`ExactlyOnce`), `ReadsAreWhole` (`ReadIsWhole`),
`RotationsConverge` (`RotationConverges`) and `LedgerIsAppendOnly` (`AppendOnly`). From
`MemoryAssumption` and `FileAssumption` (no file is neither a projection nor a journal),
and under the hypothesis `CutInside`: a write is cut inside a line, not just before its newline.
Without it the code does not have them (`MCMemoryStoreDocs.cfg`: the next append joins two lines
into one that repair drops). The invariant is `MemoryInv`. Of the ledger: an unreadable
line is the last and only while the file is cut (`Tidy`), no event
stands twice (`Once`), a later generation begins with an event of its backup (`Generations`). Of
the snapshot (`Snapshots`): it covers what stands before its boundary if that boundary is
still there. That condition cannot be left out: between the switch of the
active ledger and the reanchoring the snapshot names a line that is gone, and what
protects the ledger then is that the incremental path looks for that line.
Of the journal (`Journals`): its backup is written, and each stage promises
that its step is done. `Projects` and `Rotates` say what the holder of `MEMORY.lock` still
knows of files it read some steps ago. That each step takes nothing from what
can be read back (`NothingLost`) is proved action by action with the invariant, and gives the
last theorem.

**Only model-checked**: liveness under fairness (`EventuallyShared` with it) and ENABLED,
which are outside the prover's reach; of MemoryReducer `NoVoiceLost` and `DecisionStands`, which follow
a value through the candidates, supersessions and decisions that a replay leaves, where
the proof of `ValueIsReplay` only follows the record; of ArchiveChange `AllOrNone`, `PromotedStays` and `StateIsTrue`, which
hold within the bounds of the run and not beyond (section 4).

## 6. Not modelled

- *Migrations.* The library (`packages/migrations`, `runner.mjs`, `file-store.mjs`) is used
  by its tests only; the stores take from it the pure plans of `native.mjs`, inside
  their own locks. Reading the library: an edit between a crash and the resume breaks the hash chain
  (`runner.mjs:256`), a second migration keeps the first one's backup, so its
  rollback is refused (`file-store.mjs:94`), and a run writes what it
  read earlier without a lock.
- *Contracts and TDD, commit policy, provenance, operating profile, sensors.* Pure
  checks of texts and fields: no state survives a call but files that the
  modelled stores write. The order of red and green is a comparison in one call.
- *MCP server.* One child per request, killed at its timeout; the answers of
  two requests never meet.
- *Observer.* A SQL database whose transactions give the atomicity.
- *Portable state, evidence index and recall, Git snapshots, project binding, note
  rendering, host integrations, seeds and views, release and web.* Functions of files,
  caches that can be rebuilt, adapters and pages.
- *Parts of what is modelled* that are left out are named with each module in
  section 2; the largest are the worktree commands besides finish and remove, the contextless
  deliveries and `verify`, the HTTP replica of sync, and the parts of the Stop hook
  that render notes.

`PROJECT.json` gives for every hazard without a property the reason in its note.
