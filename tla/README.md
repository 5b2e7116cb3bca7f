# Verification of placekeeper

TLA+ models, TLC checks and TLAPS proofs for the review service of placekeeper:
a local service that shows a PDF, lets reviewers annotate it, saves the
annotations into the PDF or a copy, follows rebuilds of the PDF by LaTeX or any
other program, and survives crashes without losing a change.

The models are translated from the TypeScript under `apps/` and `packages/`.
`PROJECT.json` maps each definition to the lines it stands for.

## 1. Inventory

Paths are relative to `apps/service/src` unless they name another package.

| Component | State | Operations | Correct when |
|---|---|---|---|
| Recovery store (`recovery/draft-snapshot.ts`) | `draft.json`, `draft.previous.json` per session | `persist`, `recover`, `remove` | a crash at any point brings back the acknowledged draft or the one being written; a failed fenced write can be classified |
| Session broker (`sessions/session-broker.ts`) | review state, destination, sync watermarks, generation lineage, write tail, commit barrier, physical-save barrier | mutations, `establishSaveDestination`, `freezeSaveDelivery`, `commitSaveCandidate`, `markSaveCommitted`, `markSaveFailed`, `#replaceDocument`, holds, opening, resuming, ending | disk and memory agree; "clean" means delivered; one generation at a time |
| Save coordinator (`saving/pdf-save-coordinator.ts`) | one queue per session: `requested`, `running` | `requestSave`, `chooseCopy`, `chooseOriginal`, `locate`, `retry`, `#drain` | no observed outside change is overwritten; every save ends |
| Local document observer (`sessions/local-document-observer.ts`) | per document: sequence numbers, pending request, queued inspection, timers, identities; one watcher per directory | watcher events, identity and audit timers, hints, explicit hints, retries | the newest observation decides; a lost event is noticed |
| File capabilities (`files/file-capabilities.ts`) and publication (`platform/file-publication.ts`) | approved identities and fingerprints | validate, refresh, publish by rename | a target is replaced only if it is the approved file |
| Retention and source snapshots (`recovery/retention.ts`, `recovery/source-snapshot.ts`) | private copies of every generation | stage, assess, enforce | the limit is never exceeded and no referenced generation is evicted |
| Review interactions (`sessions/review-interactions.ts`) | attachments with incarnations, holds, fences, last order, receipts, reconnect presence | `register`, `begin`, `finalize`, `release`, `acknowledge`, `disconnect`, `hydrate` | a held view keeps its generation; a finalized interaction happens once and its answer can be asked for until it is acknowledged; what was given up does not come back |
| Review reducer (`packages/core/src/review-*.ts`) | items, drafts, undo history, workflow | `reduceReview` commands | revisions grow, undo and redo are inverse, drafts are fenced by their revision |
| Export (`export/export-coordinator.ts`) | in-flight exports | export a reviewed copy | never a stale generation without consent |
| Task binding and live context (`context/*`) | task leases, reconnect bindings, evidence | bind, heartbeat, reconnect, retire | one live owner per task |
| Browser runtime (`browser/*`) | handoffs, operation journal (admissions, cached records, records on disk), browser sources | claim, `commit`, `releaseCanonical`, replay | an operation is executed at most once, also across restarts, and who asks again gets its true outcome |
| Daemon lifecycle (`host/*`) | lifecycle lock, admission gate, routes that run, drain, upgrade attempt with its participants | start, conditional shutdown, `preview`, `begin`, `settle`, `commit`, `cancel`, retirement | one daemon; it ends only when idle; an upgrade closes no view with input that was not accepted, and gives every other one back |
| Codex runtime, host persistence (`codex/*`) | `host-resource.json`: etag, digest, pending intent, outcome; transfers | `save`, `receipt`, `begin`, `chunk`, `finish`, copy choice | an unknown write is classified before another is made; "saved" means the host accepted it; nothing somebody else wrote is replaced |
| Web client (`apps/web/src`) | the lane and the orders of editor requests, retained releases, navigation, destination dialogs | open, complete, discard, reconnect; user gestures | no hold is left behind, no answer that is late overwrites newer state |
| Chat host panel (`apps/codex-mcp/src`) | the save and refresh loops of a panel | save, refresh, retry | a lost panel or answer leaves an outcome that can be found out |
| Anchor reconciliation, SyncTeX, PDF backends, CLI, shells, extensions | - | pure algorithms, external tools, platform glue | - |

### How the parts interact

- Every operation that changes a session runs in a section of its **write
  tail** (`#withSessionTail`), a queue of promises. A section may await I/O.
  `#drain` holds it from the last check of a candidate to the recorded save;
  `#replaceDocument` holds it while it commits a generation. Disconnecting a
  view, admitting an observation and reading state do not wait for the tail.
- A section writes the draft **before** it changes memory. When that write
  throws, a plain operation keeps its memory and reports the error; a commit
  (save, generation) leaves a **commit barrier** that must find out from the
  files which draft won, before anybody else gets the tail.
- The observer **admits** observations synchronously: the newest sequence number
  raises the **physical-save barrier**, which forbids to publish a candidate
  until that observation was inspected.
- The observer **inspects** asynchronously and in turn: it hashes the original
  without the tail, then settles the same bytes or ingests new ones under it.
- Settling an observation calls the listener that **resumes saving**; a finished
  interaction **hints** the observer; a mutation **requests a save**.
- Other programs write the PDF at any moment, and the watcher may lose it.
- A view's editors share one **lane**: it drains the releases that failed before,
  then sends one request with the next **order**. The service refuses an order it
  has overtaken, and ties holds to the **incarnation** of the view's connection,
  which disconnects and replacements end outside the session tail.
- The PDF of a chat host is written by the host's panel, not by the service: the
  service hands out an **intent** that it has put on disk, the panel performs a
  conditional write and reports a **receipt**; when either is lost, a reread of
  the host classifies the intent.
- An **upgrade** is prepared by an installer, which holds the lifecycle lock:
  it looks, asks its reader, freezes admission, waits for every participant (each
  connected view, and the task authority) to acknowledge its revision, commits,
  and asks the service to end when it is idle. Views learn of it by polling.
- The browser, desktop and chat runtimes put every operation that must not be
  repeated through the **operation journal** of the review's recovery directory.

## 2. Modules

| Module | Models | Extends |
|---|---|---|
| `DraftFiles` | the two files of a recovery store; what the renames of `persist()` and the choice of `recover()` do | |
| `AcknowledgedDraft` | the abstract store: which drafts a crash may bring back | |
| `DraftSnapshotStore` | `persist()` rename by rename, plain and fenced callers, failures and crashes; implements `AcknowledgedDraft` | `DraftFiles` |
| `DraftSnapshotStoreProofs` | proofs | `DraftSnapshotStore` |
| `SessionState` | the variables a session shares with its coordinator, observer, disk; persist, request and admission helpers | `DraftFiles` |
| `SessionBroker` | mutations, drafts, destinations, holds, commit barriers | `SessionState` |
| `SaveCoordinator` | `#drain` with `commitSaveCandidate` and `markSaveFailed` | `SessionBroker` |
| `DocumentObserver` | admission, inspection, `#settleObservedSameDigest`, `#replaceDocument`, other programs | `SaveCoordinator` |
| `SaveSync` | the composition: Init, Next, properties, fairness | `DocumentObserver` |
| `SaveSyncInvariants` | the inductive invariants of a session | `SaveSync` |
| `SaveSyncProofs` | proofs | `SaveSyncInvariants` |
| `LifecycleLock` | `acquireLifecycleLock()` and `release()`, file operation by file operation | |
| `LifecycleLockProofs` | proofs | `LifecycleLock` |
| `HostPersistence` | the service's side of a host-owned review: `save`, `receipt` and `finish`, await by await, edits, the choice of a copy, crashes | |
| `HostResource` | the composition with the host's PDF and the panel: writes, rereads, lost and late answers, new panels, other programs; properties, fairness | `HostPersistence` |
| `HostResourceProofs` | proofs | `HostResource` |
| `ReviewInteractions` | the service's side of a view's interactions, their commits and recovery | |
| `InteractionProtocol` | the composition with the view: editors, lane, orders, retained releases, connections that are lost and replaced, crashes; properties, fairness | `ReviewInteractions` |
| `InteractionProofs` | proofs about receipts | `InteractionProtocol` |
| `InteractionHoldsProofs` | proofs about types and holds | `InteractionProofs` |
| `OperationsOnce` | the abstract journal: operations that start once, take effect at most once and are answered truly | |
| `OperationJournal` | `commit()` of the operation journal, await by await, with crashes and losses of power; implements `OperationsOnce` | |
| `OperationJournalProofs` | proofs | `OperationJournal` |
| `DaemonUpgrade` | the daemon's gate, drain and shutdown, the preparation attempt and its participants, as functions of their records | |
| `UpgradeProtocol` | the composition with the installers, the views' polls, inputs and connections, saves, rebuilds and tasks; properties, fairness | `DaemonUpgrade` |
| `UpgradeProofs` | proofs | `UpgradeProtocol` |
| `MC_*` | model-checking instances | |

### Correspondence with the code

An action is a stretch of code between two points where the event loop may run
something else (an `await` that leaves shared state observable), or one failure
outcome of it. `save.pc` and `insp.pc` are those points in `#drain` and in
`#inspectQueued`:

| `save.pc` | Where `#drain` is |
|---|---|
| `top` | the loop test and the destination snapshot |
| `settle`, `settleAgain` | `settlePhysicalSaveBarrier()`, before the freeze and after the writer |
| `freeze` | waiting for the tail in `freezeSaveDelivery()` |
| `write` | the PDF writer, verifier and staging |
| `validate` | waiting for the tail in `commitSaveCandidate()` |
| `publish` | in the tail section, the target being validated; `Publish` is the rename |
| `confirm` | `publication.settle()` and `persist()` |
| `resolve` | `barrier.resolve()` after a failed `persist()` |
| `failed` | the catch clause, waiting for the tail in `markSaveFailed()` |

| `insp.pc` | Where the inspection is |
|---|---|
| `hash` | hashing the original, no tail |
| `sameDigest` | waiting for the tail in `#settleObservedSameDigest()` |
| `stage` | entering `#replaceDocument()` |
| `stagedSame`, `invalid`, `retained`, `replace` | the section that the staged bytes lead to |
| `persist` | the generation's draft is being written, tail held |

The tail is free, held by the coordinator or held by a replacement; every
other section is one step. `TailFree` also asks for no commit barrier, which is
`#assertReplacementCommitSettled()`: a waiting operation first resolves the
barrier (`ResolveSave`, `ResolveReplacement`) and is refused when it stays
uncertain (`MarkPristineRefused`, `DrainBlocked`, `InspectBlocked`; a refused
reviewer operation changes nothing).

Data is abstract. A PDF is who wrote it, the base content it comes from and its
items; a torn file (being written by another program) and a missing one are
contents too. A digest of a file is its content. The review digest is the
generation, the freshness and the items, as in `reviewStateDigest()`. File
identities are the relations the code compares: is the file the one the
capability approved, the one the inspection started with, the staged one, the
one the lineage records. Whether a new original can be rewritten and its
annotations reconciled is a nondeterministic input.

`delivered`, `unannounced`, `refused`, `fresh` and `aged` are history variables:
no guard reads them. `faults` and `events` bound I/O failures and outside writes.

In `LifecycleLock` an action is one operation on the lock directory by one
process. `pc` is the place in the acquisition loop: `try` is `mkdir()`,
`create` and `fill` the two moments of `writeFile()` (the marker appears empty,
then gets its record), `look`, `lend` and `confirm` the three steps of a child
with an inherited token, `inspect` is `inspectLock()`, `judge` the conditions of
`removeStaleRecord()` with `borrowersAreBusy()`, `unlink` and `rmdir` its
removals, `leaving` the second half of `release()`. The random token of a
launcher is the launcher itself. The age of a file is whether it changed less
than a second ago. `Prompt` says that a second never passes in the middle of
such a sequence of operations (a suspended machine can make it pass); without
it a contender can take a marker for abandoned that was filled meanwhile.

In `HostPersistence` the variable `call` is the request being executed, with its
local variables: `call.step` is the await it is at, and what it read before an
await stays in `call` while edits and the choice of a copy go on. The extension
runtime executes one request at a time. `state` is `host-resource.json`; `open`,
a history variable, holds the intents that reached the host and whose fate the
service has not learned. The bytes of a PDF are a source followed by the
revisions rendered on it, so a rendering tells what it was rendered from.

In `InteractionProtocol` a request is a record with its order and incarnation. It
is sent by the lane, executed by the service when the session tail is free, and
answered to the lane, or it is given up by the view and executed later (`late`).
`editor.phase` is where an editor's handle is, `lane` the operation at work and
how far it is. `tail` is the request whose commit is being persisted and
`barrier` the one whose commit has an unknown outcome.

In `OperationJournal` the program counter of a call is the await it is at:
`queued` for its predecessor, `read`, `publish` (the rename of `#persist()`),
`sync` (its directory sync), `retire` (the removal of a migrated record), `run`.
A record on disk is kept twice, as it is seen and as a loss of power leaves it;
the second follows the first when the directory is synced. `runs`, `done` and
`confirmed` are history variables.

In `UpgradeProtocol` an action is a request as the service executes it, or a step of
a client between two of its awaits. `installer[i].pc` is where an installer is in
`coordinateUpgrade()` and in the command that prepares it; `call[i]` is its request that
still waits in the service, for the drain or inside `closeUpgradeAuthority()`, also
when the installer has gone. `settle[p]` is the attempt for which the `settle()` of a
participant runs. `view[v]` has the connection of a view, its input (`typed`, then
`sending`) and `step`, the place in its tick: `polled` with an answer on its way,
`protecting`, `settle`, `settling`, `settled`. A route is admitted when its request
passes the gates (`Submit`, `Choose`) and has its effect later (`Land`, `ChoiceLands`).
`daemon.routes` are the activity leases that last; a request that is answered at once
only cancels a drain (`Entered`). `daemon.drain` is whose drain is current, which the
code tells by its attempt number. A participant's revision is compared with the one the
attempt knows (`known`), and every request of an installer looks again (`Refreshed`).

## 3. What is checked

| Run | Question |
|---|---|
| `drafts` | every failure and crash point of `persist()`, plain and fenced |
| `draft_retained` | *violated*: see findings |
| `save_sync` | an edit, an outside write and a failure, two failures or two rebuilds of a session that saves to its original or a copy; failures while a destination is chosen; with a view that holds |
| `save_settles` | liveness of saving, and the types of a session |
| `lock` | two launchers and a borrowing child, up to two deaths at every point; liveness |
| `lock_linearized` | *violated*: see findings |
| `host` | two edits of a host-owned review and any two mishaps; liveness |
| `host_truthful` | *violated*: see findings |
| `interactions` | one or two editors of a view against lost requests, lost connections, crashes and uncertain commits; liveness |
| `journal` | two callers of two operations against failures, crashes, losses of power, eviction and the end of the review; liveness |
| `upgrade` | an installer and two views, or two installers and a view, against an edit, a rebuild, a task, a choice of destination and a mishap; liveness |
| `upgrade_unclosed` | *violated*: see findings |

The properties, and what could break them:

- `CleanIsDelivered`: the phase "clean" means that what the service last put at
  the destination has the items of the review on the source of its generation.
  Frozen bytes, edits, destination changes and rebuilds all race it.
- `DurableMatchesMemory`: when no section is under way, a crash brings back the
  session as it is in memory, a change that was refused after its write had
  landed, or the record of a save that turned out to be superseded. Every partial
  failure of a two-file store races it.
- `OverwritesOnlyUnannouncedChanges`: a publication replaces bytes that the
  service did not expect only if the change is so recent that nothing was
  admitted after it: the window between the last check and the rename, which no
  program without file locks can close.
- `OwnPublicationNeverBecomesGeneration`: the service's own rename, reported by
  the watcher before the save is recorded, is not taken for a rebuild. An older
  rendering of its own may be: see "Seen while modelling".
- `HoldsAtCurrentGeneration`, `GenerationNeverAdvancesUnderAHold`: holds and
  generations, including generations that a barrier activates later.
- `RecoversAcknowledgedOrRefused`, `FencedWriteSettles`,
  `RefinesAcknowledgedDraft`: the recovery store.
- `SaveSettles`: every session that is saving gets clean or reports failure.
- `Linearized`: two processes that have a lease have the same token. Empty
  directories, unfinished markers, late borrowers and reclaimers race it.
- `LeaseStaysOnDisk`: the published lease of a live process is not removed by
  anybody else.
- `NeverWedged`: nobody keeps contending for ever while no lease is in use.
- `CleanWasAccepted`: a host-owned review is shown as saved only when the host
  accepted exactly its latest revision on its present source. Edits during the
  write, repeated receipts and answers from before a crash race it.
- `OverwritesOnlyItsBase`: a write to the host replaces only the source of the
  review or an older rendering of it, however late it lands.
- `UncertainIsPending`: while the fate of a write is unknown its intent is the
  pending one on disk, so that no second one is made.
- `CopyLeavesTheHost`: after the choice of a copy no late answer of the host
  changes the save state.
- `HostSaveSettles`: saving to the host ends, or the conflict is on record.
- `HoldsAreOwned`: an editor that was closed holds nothing back, on the present
  connection or an earlier one, unless its release is still queued, whatever
  arrives late or out of order.
- `ReceiptsAnswer`: an editor that was told that its draft is finished finds it
  finished on disk, and one that was not told can still ask.
- `HoldsEnd`, `ReceiptsEnd`: a closed editor's hold is released in the end, a known
  receipt acknowledged.
- `AtMostOnce`: no operation of the journal is started twice. Racing calls,
  evictions, failed syncs, records of an earlier version and power losses race it.
- `AnswersAreTrue`: who is told "done" asked for what was done, who is told of a
  conflict asked for something else, also after later calls.
- `ConfirmedStays`: what a caller was told after its own run is still on record
  after a loss of power.
- `CacheIsBounded`: the cache keeps no more records than its limit, but for those
  that are not on disk.
- `ImplementsOperationsOnce`: what the callers see is the abstract journal. It relates
  what the invariants tell apart: an operation is not started once somebody was told of
  it, a run takes effect at most once and with what its caller asked for, and an
  answer is judged by the effect at a moment when nobody runs the operation. What an
  answer may not say, that a pending record is a success, is its mutant.
- `AdmissionFollowsTheAttempt`: the service takes new work exactly while no attempt
  holds it off, and can be shut down while frozen only for a committed attempt. An
  attempt ends by its timer, an installer, a view that joins, leaves or fails, a
  revision that moves and the end of the service.
- `RetiredIsIdle`: a service that has agreed to end has no view, launch, task,
  request or save. All of these arrive while it drains.
- `CommitIsCurrent`: an attempt commits only when every participant has acknowledged
  the present revision, no connected view holds input and the saves that were due are
  done. Inputs admitted before the freeze land after acknowledgements.
- `ViewsCloseProtected`: a view closes itself only when everything typed into it was
  accepted, for the very attempt that closes it.
- `FrozenViewsAreFreed`: a view frozen by an upgrade is closed by it or usable again,
  also when installers die or answers are lost.
- `EveryCallIsAnswered`: no failure leaves the next call for a key waiting.

### Bounds

A run begins in one of its `Openings`: how many edits, outside writes and I/O
failures a behaviour may have. The hazards of a session need at most one edit
racing one outside write and one failure, or two failures of one commit, or two
rebuilds; `save_sync` has each such combination for a review that saves to its
original and may change to a copy, and every pair with a failure for one whose
destination is still to be chosen. All of them at once exceed a TLC run. Two inventories (the empty one and another) and two contents of the original
tell every state that the properties compare. Two generations are enough for one
replacement and one refused by the retention limit. One view holds: both hold
properties are proved for any number. `save_settles` has one mishap after an edit, or while a destination is chosen:
liveness costs more. `DraftSnapshotStore` runs to three revisions and five writes:
enough for a rotation to destroy every draft of an older failure.

The lock has two launchers and a child, and two deaths (an owner's and its
child's); each launcher acquires once, since a second acquisition has a new token
like another launcher. `LeaseStaysOnDisk` is proved for more of them;
`Linearized` fails with three launchers and a death (`lock_linearized`), and with three
launchers and a child without any death, for the cause told under the findings. For two
launchers, and for any number of them while no two are between `mkdir()` and their
marker, it is proved.

`host` has two edits (one under way to the host, one accepted meanwhile), two
foreign sources and two mishaps: every pair of an outside write, a change of
permission, a new panel, a failed or late write, a lost or repeated request, a
timeout and a crash. Foreign bytes never return to what the host held before
(`Restores`); `host_truthful` is about a program that does that, as is the loss of
foreign bytes told under "Seen while modelling".

`interactions` has one editor and two faults, two editors and a lost connection,
or two editors and a fault on one connection. One receipt fits, so that the second
editor meets a full store. `MaxOrders` stops readers from starting new operations
after four orders; the operations under way still get theirs.

`journal` has two callers, two operations of which an earlier version may have
run one, two payloads, a cache of one record and two faults: a failure before and
after an effect, then a crash or a loss of power, then the question again.

The upgrade runs have one review. An opening (`ViewsAndInstallers`) says who takes part
and what may happen. Two views, one open and one launched meanwhile, with an edit and a
rebuild or with a mishap: they join, leave, and must acknowledge again because the
other's input landed. One view with an edit, a rebuild, a task and a choice of
destination, for what moves under an acknowledgement. Two installers, one after the
other since they hold the lifecycle lock, with an edit and a mishap, for what the first
leaves behind. All of it together exceeds a TLC run; the gate and the retirement are
proved for any number. One edit is one input that races an acknowledgement, two
generations are one rebuild, one mishap is a lost answer, a broken connection, a reader
who leaves, or a failed save or write. One `settle()` of a participant runs at a time,
one save stands for all that are queued, and of an attempt that is over the model keeps
only whose it was.

Counters stop at their bounds by guards. The lock may stop when every process has
left or died, so its runs have `CHECK_DEADLOCK FALSE`, as have those of an upgrade, after which the service is
gone; every other run checks
deadlock, the idle ends being steps that change nothing.

### Fairness

`FairSpec` assumes what the event loop and timers give: a drain and an
inspection that can proceed do, a barrier somebody waits for is resolved, a
watcher event that was not lost arrives, the retry and identity timers fire.
Strong fairness is assumed for the five steps of the drain that need the
physical-save barrier to be down or the tail to be free: the identity timer
that can raise the barrier fires seconds apart while those steps are
milliseconds apart, so it cannot strike in every one of infinitely many
windows. Nothing is assumed of reviewers, other programs, failures or dropped
events. `SaveSettles` supposes that in the end the original can be read, the
target of an uncertain save exists and no interaction is held: otherwise the
session waits, as the code intends. `NeverWedged` assumes that processes that are
polling run and that time passes; strong fairness of the passing second, with the
hypothesis that again and again no process is inside a sequence of file
operations, says that contenders, which poll 25 ms apart, do not interlock for ever.

Host: the service goes on with a request, the panel's requests and writes end in an
answer or a timeout, and strong fairness of `StartSave` and `StartRead` says that
the reader presses Retry, or the panel's refresh loop comes round, after a failure:
without either an unknown outcome stays, as the code intends.

Interactions: requests are sent, executed and answered, commits and barriers
settle, a lost connection is replaced. Strong fairness of taking the lane says that
it is handed on in turn (it is a chain of promises), so that no editor waits for
ever while others use it.

Journal: every await of a call ends, the operation's included.

Upgrade: the timer of the attempt fires, what the service has begun for a request ends
(the drain, the barrier, a settlement, a save, the close of the host), an input that was
admitted lands or is refused, and an open view polls on its 500 ms interval. Nothing is
assumed of installers, readers, launches or tasks.

### Findings

`draft_retained`: `docs/privacy-and-recovery.md` says that a failed persistence
retains the acknowledged draft. When `persist()` fails after its final rename,
the refused draft is on disk with a higher revision than the session has in
memory. A later write at the session's revision (a destination, a saved
watermark) rotates it into `previous`, where `recover()` prefers it to the
acknowledged one. The other properties of the store are stated with the refused
drafts that linger, so that they say exactly how far this goes.

`lock_linearized`: two launchers can have a lease. Two contenders, A and B, find
the marker of a dead owner; both unlink it, A removes the directory and makes its
own; before A's marker is in it, B gets to its `rmdir()`, which succeeds on the
empty directory; B (or a third launcher) makes the directory again, and both
markers are written. An owner does not look again after it wrote its marker, as
a borrower does. The comment in the code promises that a *published* token is
safe, and that holds (`LeaseStaysOnDisk`). A child whose parent released before
it borrowed can cause the same with its own `rmdir()`, without any death; the
run `lock` has too few launchers for either.

`host_truthful`: after a completed save another program puts the original bytes
back. The broker compares reread bytes with the digest of the *source*, which a
host save does not move, finds nothing new and leaves the phase "clean": the review
is shown as saved while the host holds none of its annotations.

`upgrade_unclosed`: a service that has agreed to end may stay. A control request waits
five seconds for its answer while the drain waits for saves. When the installer has
stopped waiting by then, the service has nobody to answer, and it closes itself only
after an answer: it stays in `shutdown-committed`, refusing requests and launches, until
another installer asks it to end.

## 4. What is proved

TLAPS proves, for every value of the constants:

- `DraftSnapshotStoreProofs`: type correctness, `RecoversAcknowledgedOrRefused`,
  `FencedWriteSettles`, and that `DraftSnapshotStore` implements
  `AcknowledgedDraft`. The inductive invariant `IInv` says which of three shapes
  the two files have at each step of `persist()` (untouched, rotated, published
  over), that the submitted draft is newer than every known one, and that a
  fenced write compares with the acknowledged draft. The properties alone are
  not inductive: a rotation keeps the acknowledged draft only because current
  is live or previous is.
- `SaveSyncProofs`: every safety property of a session. Its six inductive invariants
  are in `SaveSyncInvariants`, each proved relative to those before it:
  - `HInv` for `HoldsAtCurrentGeneration` and `GenerationNeverAdvancesUnderAHold`:
    who owns the tail at which program point, and that a replacement under way or
    awaiting its barrier meets no hold. The last part is why a barrier that settles
    much later may still activate its generation: `begin()` needs the tail that the
    barrier blocks.
  - `TInv` for type correctness. Types alone are not inductive: a revision stays
    within its bound only because edits are counted (`Bounded`), a generation because
    the retention policy was asked before the commit section (`InspectionTyped`), and
    `recover()` returns a draft only because no failed `persist()` leaves both files
    missing (`Stored`).
  - `CInv` for `CleanIsDelivered`: the commit barrier, the tail and the pass exclude
    one another (`Exclusive`); a pass keeps the kind of its destination, what it froze
    is still desired unless something asked for another pass (`FrozenIsDesired`), and
    until it is recorded what it published is what was delivered
    (`PublishedIsDelivered`); an uncertain save is about the present review
    (`SaveBarrierIsDelivered`), an uncertain replacement is the next generation and
    nowhere saved (`ReplacementIsNext`); the second section of `chooseOriginal()` finds
    the destination it established on the first generation, or does nothing
    (`PristineIsFirst`).
  - `DInv` for `DurableMatchesMemory`: each of the two files holds the present state,
    a refused or superseded one, the draft of the pending commit, or, in `previous`, a
    draft that is not newer than `current` (`Durable`); and no file is more than a
    revision ahead of memory, so that the draft of a new generation is the newest
    (`FilesBehind`). That is why a `persist()` that fails between its renames, however
    often, never brings an older state back.
  - `VInv` for `OverwritesOnlyUnannouncedChanges`: when the original is no longer what
    the pass validated, its change is not announced, or its observation is still not
    settled and the last check before the rename fails.
  - `OInv` for `OwnPublicationNeverBecomesGeneration`: a rendering that was delivered and
    is still at the original is the recorded original, or the pass or a barrier is about
    to record it (`PublicationIsKnown`), and what is about to become a generation is not
    the delivered rendering, also while its outcome is uncertain and new saves could
    begin (`Ingestible`).

- `LifecycleLockProofs`: type correctness for any number of processes, deaths and
  pauses, and `LeaseStaysOnDisk` assuming `Prompt`. `TypedInv` adds which part of the
  code a process can be in (`Roles`). The inductive invariant `LeaseInv` says what a
  contender knows of a marker it is about to judge or remove: its process died,
  or left, or the marker is too young to be removed.

  `Linearized` is false of the code (`lock_linearized`), so the two theorems about it say
  exactly when it is true. `LinearizedUnlessTwoCreate`: any number of launchers and
  children are linearized in every behaviour in which no two launchers are at one time
  between the `mkdir()` of the directory and the creation of their marker (`OneCreates`).
  A lease in use keeps its marker, hence the directory, so that nobody makes it again, and
  a child borrows only the token it inherited while its owner's marker or a sibling's is
  there (`SharedInv`): the empty directory that a late `rmdir()` takes is the only way to
  two leases. `TwoAreLinearized`: when only two contend, with any number of children and
  deaths, `OneCreates` is not an assumption but follows. `RaceInv` says that while both are
  before their lease, neither is about to remove anything and the directory is there only
  for the one that made it, too young to be reclaimed (`RaceIsFair`), and that an owner
  somebody borrowed from or saw has had its lease and does not contend again
  (`ParentsHeld`; a launcher stands for one acquisition).

- `InteractionProofs`: `ReceiptsAnswer` for any number of editors, receipts,
  connections, generations and faults. The inductive invariant `IInv` says that the
  lane belongs to one editor and its request carries that editor's token (`LaneOwned`),
  that only an editor that knows its receipt acknowledges it
  (`AcknowledgedByItsEditor`), how memory and disk differ while a commit is under way
  or uncertain (`MemoryAndDisk`), and that an answer on its way tells what is on disk
  (`ToldTruly`).
- `InteractionHoldsProofs`: type correctness and `HoldsAreOwned`, on top of `IInv`. A
  closed editor is `Secure`: it holds nothing, and each of its begins that can still
  arrive is of another connection or behind the orders that this one has fenced. To
  get there the invariant follows every answer an editor can act on: of a begin
  (`Opening`), of a release that is tried again (`Draining`), of its own release
  (`Released`); that releases have later orders than the begins they end (`Orders`);
  that an opening editor has sent nothing before it has the lane (`Openers`); and that
  only editors that asked for their completion can have finished (`Unfinished`).
- `OperationJournalProofs`: `AtMostOnce`, `ConfirmedStays`, `AnswersAreTrue`, `CacheIsBounded`
  and type correctness for any number of callers, operations, payloads, faults and any cache. `IInv` says that
  the call at the head of the admission queue works alone (`OneAtWork`), that
  evidence of a started operation is on disk and synced, as the review's record or as
  the earlier version's (`StartedIsOnRecord`), and what the call at work knows of the
  files at each await (`WorkIsBacked`): `AtMostOnce` alone is not inductive, because it
  is a record on disk that keeps the next call from running. `TInv`, on top of it, says
  that every record agrees with what was done (`Known`), that the records of a running
  operation are those of its call (`RunIsMine`), and that nothing starts an operation
  any more that a call was told of (`AnswerHolds`). The cache is bounded because every
  step that makes a record evictable ends in `#trim()`. The refinement
  `JournalImplementsOperationsOnce` rests on both: a caller asks what its call is for,
  an operation runs while its call is at `run`, and its effect is the history `done`.
  `SyncPending` is the abstract start, `RunEnds` the effect, each answer a `Tell` or a
  `Dismiss`; the files, the queues and the cache are out of sight. It needs that a
  running operation had no effect yet (`Unperformed`), which `TInv` makes inductive.
- `HostResourceProofs`: `UncertainIsPending`, `CleanWasAccepted`, `CopyLeavesTheHost`
  and type correctness for any bytes other programs write, any number of edits, events
  and faults, with or without restored bytes, and `OverwritesOnlyItsBase` assuming
  `~Restores`: other programs never put back bytes the resource has held. The inductive invariant `IInv` says what
  a request knows at each await of the file it read when it started (`SaveKnows`,
  `ReceiptKnows`, `AckKnows`, `FinishKnows`), that the panel touches an intent only
  while no request is executed and that the intent is then the pending one
  (`PanelActsAlone`), that a file with a settled outcome has no pending intent
  (`Settled`), and that what a receipt or a reread reports was held by the host
  (`HeldIsKnown`). `UncertainIsPending` alone is not inductive: `save()` and
  `receipt()` write back a state they read several awaits earlier, and only the
  serialized dispatch keeps that state current. For `OverwritesOnlyItsBase`, `WInv` is
  proved on top of it. A write is decided by the tag of its intent alone, so an intent
  must be made for a tag whose bytes are its source or an earlier rendering of it, or
  for a tag the host has left behind (`IntentsAreSound`); the pair of tag and bytes in
  `host-resource.json`, and any the panel reports, was the host's once and is not older
  than what it replaces (`PairsArePast`, `ReadsAreLater`); what a request carries across
  its awaits is still the file's (`CarriesFile`, `CarriesIntent`); and the review's
  source changes only together with the file, or after the host has moved on
  (`FileIsBased`). Without `~Restores` the last part fails (section 5).

- `UpgradeProofs`: `AdmissionFollowsTheAttempt`, `RetiredIsIdle`, `CommitIsCurrent`,
  `ViewsCloseProtected` and type correctness
  for any views, installers, edits, rebuilds and faults. The inductive invariant `Inv`
  adds to them what ties the service to its clients: the presence that the service
  counts is that of the views (`Linked`). Every change of the attempt goes through
  `Released`, so the proof shows once that what a canceled or continued attempt does to
  the gate keeps it (`FollowKeeps`), and then that each step only makes such changes.
  `RetiredIsIdle` is kept because every way for work to arrive enters the service, which
  an ended service refuses, and because the last look of the drain and the commitment
  are one step. `CommitInv`, on top of it, carries both action properties. A view that
  is protected for an attempt is frozen and empty (`ViewsAreSound`). A connected view
  that the attempt counts as acknowledged, or whose settlement is under way for it, is
  protected for that attempt, and no answer on its way releases it
  (`AcknowledgedIsGuarded`): answers that are late or lost, an attempt that ends and
  another installer's next one all meet this. It needs that an installer begins one
  attempt and that nothing was acknowledged or settled for it before (`BegunOnce`); a
  participant that is detached makes its settlements stale for the same reason. What
  was acknowledged at the present revision is saved (`AcknowledgedIsSaved`): an edit
  that lands later moves the revision, and the last look of `commit()` finds it. Most
  steps only leave an attempt as it is or end it, and one lemma (`CalmKeeps`) says what
  such a step has to keep.

Assumptions: views are finite and the task authority is none of them, `NoDraft` is not a draft, bounds are natural numbers, `NoItems` and
`FirstVersion` belong to their sets, `NoRecord` is neither a record nor a payload, and operations and
payloads exist.

Only model-checked:

- liveness: `SaveSettles`, `NeverWedged`, `HostSaveSettles`, `HoldsEnd`, `ReceiptsEnd`,
  `EveryCallIsAnswered`, `FrozenViewsAreFreed` (fairness and ENABLED are out of the
  prover's reach).

Every other property of a passing run has a theorem.

The inductive invariants were model-checked on the instances of the runs before they were
proved. What recursive definitions compute for every input would need induction over data,
which the prover cannot instantiate.

## 5. What is not modelled

Session: relocating a moved original, generated-output reviews, explicit rebuild
hints, the Windows worker's unconfirmed publications, a restart in the middle of a
local session (the recovery store is modelled with crashes, the session above it
without), the four-attempt limit of `settlePhysicalSaveBarrier()` (which ends like
the exit that is modelled) and copies without a capability. In `SaveSync` a
`persist()` and its outcome are one step, because it runs in a tail section and
nothing else reads the files; its inside is `DraftSnapshotStore`. The lock on
Windows (private directories and files) and the unfinished marker of a borrower
are not modelled.

Host: opening, export, fork and the recovery of a copy, candidates that are invalid
or not fresh, the chunks of a transfer; a write that is too large is a failed one
without a reread. Interactions: the presence list with its five-second timer, the
eviction of order fences (`lastOrder` refuses what an evicted fence would), the end
of a session, several owners, and results kept for an editor that asks for its
release twice. Journal: records that are unreadable or too large are I/O failures;
the handoff of a download, chunked transfers and native messaging are left out.

Upgrade: credentials and candidates of an attempt, the desktop app, the browser extension
and the agents' panels as participants, several reviews, the copy of recovery files and the
replacement of the installation, and the start of the next service. What protecting an input
does in the editor (drafts, pending acknowledgements) is one input that is typed and sent.

Components without a module are in `PROJECT.json`.

### Seen while modelling

These are behaviours the code has today and does not promise otherwise; the models
contain them, and the properties are stated so as to allow exactly them.

- Session: `chooseOriginal()` of a review without edits records the digest of the source
  as that of the original (`pdf-save-coordinator.ts:374`, `session-broker.ts:2087`),
  although a pass may have rewritten the file: after copy, original and original again,
  the save requested by the first choice can have put a rendering there. The next
  observation finds a digest the session does not know (`session-broker.ts:3269`) and
  ingests the service's own rendering as a new generation, against KTD4 of
  `docs/plans/2026-09-15-1824-feat-automatic-local-pdf-refresh-plan.md:166`. TLC shows
  it with `MaxDestinations = 3`; the property is about the rendering last recorded.
- Session: a save whose target was replaced before its record was durable is given up
  (superseded), while its record may already be in the recovery files: a crash then brings
  back a session whose saved watermark is that of the lost publication.
- Session: a write that was refused after landing, followed by a fenced write that
  fails between its renames, can leave a barrier uncertain until the service
  restarts; a target deleted between the rename and its hash does the same until it
  reappears; `savedRevision` may go back by a draft; the phase can stay "saving"
  while a hold lasts or the original is torn.
- Host: an edit after a conflict leaves the phase "saving" while `save()` only
  answers with the conflict; the branch at line 272 of
  `host-resource-persistence.ts` cannot be reached; an own write that lands after
  its intent was classified as lost is adopted as a new generation.
- Host: foreign bytes become a document generation before their digest is recorded
  (`host-resource-persistence.ts` lines 185 and 191). When the service dies in between
  and the earlier bytes come back, the reread finds them unchanged, and the next save
  replaces them by a rendering of the other source. With `Restores`, two events and a
  fault `OverwritesOnlyItsBase` is violated that way; without `Restores` it holds.
- Interactions: a completion fails, and the hold cannot be reacquired after a
  reconnect. The editor is then released and closed, but `release()` returns at once
  because the completion was asked for (`authoring-session.ts:425`): nothing is sent
  or queued, and the hold keeps every rebuild of the PDF away until the view
  reconnects, although a comment (`use-authoring-session.ts:203`) wants it released or
  queued first. Such an editor is `dropped` in the model; `HoldsAreOwned` and
  `HoldsEnd` speak of the others.
- Interactions: after a reconnect the editors reacquire with their old orders, and
  `lastOrder` of the new incarnation starts at zero: when a newer editor or a
  retained release comes first, the older editor is refused as out of order and
  closed, its draft staying protected. `acknowledge()` leaves no fence, so that a
  late `begin` of an earlier attempt is accepted for a finished interaction.
- Upgrade: the barrier of the freeze waits for a save dialog that was open before it,
  until the attempt expires; tasks are revoked after a commit also when the attempt was canceled while
  `closeUpgradeAuthority()` waited; coverage that returns because a grace or a launch
  expires makes nothing ready until the next acknowledgement; a destination that was
  being chosen at the freeze is established after the acknowledgements; a view whose
  connection is gone keeps its freeze until it has another.
- Journal: a record that is being migrated when the review ends is still put in the
  cache, where it stays until it is evicted. A replay can answer from a completed
  record whose directory sync failed, which a loss of power can take back
  (`ConfirmedStays` speaks of a caller's own run). At-most-once is per canonical
  key: a review reopened at another generation has another.

## 6. Plan

Done: recovery store; session, save coordinator and observer; lifecycle lock; host
persistence; review interactions with the client's lane; operation journal; the upgrade
of the daemon.

1. `LocalDocumentObserver` with explicit hints and sequence numbers, and the restart
   of a local session in the middle of a commit.
2. `TaskBindingRegistry`: leases and reconnects; abstract: one live owner per task.
3. Reducer, history and drafts, with reference definitions of undo and redo.
4. The download handoff of the browser runtime.
5. Web client: navigation and references. 6. Export.
7. Upgrade: the app and its windows as participants, the start of the next service.

A run whose
properties a theorem covers for every bound is folded into its neighbour, which
keeps one run per open question.
