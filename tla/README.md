# Verification of the transactional operation core

TLA+ models of the part of codex-to-browser that must not go wrong: one
ChatGPT/Codex operation, recorded in an append-only journal, whose non-repeatable
effects (a file handoff, a Send, a Work steer, a stop) happen at most once in a
browser nobody controls, whatever callers, crashes and lost acknowledgements
do. Paths below are relative to `src/packages/node/src/` unless they say
otherwise.

## 1. The system and its parts

A caller (the node client, the plugin, or the Python package through the stdio
backend) submits an operation, collects its result, steers or stops it.

| Part | State it keeps | Operations | Hard behaviour | What makes it correct |
|---|---|---|---|---|
| Operation ledger (`operations/state-machine.ts`, `types.ts`) | phase, mutation boundary, target binding, action ledger, ownership baselines and witnesses, terminal receipt | one reducer case per journal event | any order of events of several writers | the log stays readable; ownership, once proven, is permanent |
| Recovery (`operations/recovery.ts`) | none | `decideOperationRecovery` | several actions pending in one log | never repeats a durable intent; always decides |
| Journal store (`operations/journal.ts`) | log, snapshot, terminal, tombstone per operation | append, load, refreshSnapshot, compactCompleted, pruneReceipt, purgeTombstone | crash between any two file operations, torn tails, fsync | an acknowledged event is never lost; a pruned receipt never comes back |
| Journal lock (`operations/journal.ts`) | lock file, recovery guard, quarantined files | acquireLock, quarantineAbandonedLock, releaseLock | races of reclaimers, reused pids, other hosts, crashes | mutual exclusion; abandoned locks are reclaimed; waits end |
| Journal quota (`operations/journal.ts`) | authenticated byte/entry counter, dirty bit, directory fingerprints | mutateQuotaTrackedState, rebuild, admission | crash in a mutation, foreign changes | a counter that is trusted is exact; admission keeps to the quota |
| Submission (`operations/service.ts` submit, `submission.ts`, `send-once.ts`) | a caller's snapshot, prepared capability | bind, stage, attach, ready, prepare, persist, execute, verify, reconcile, establish, witness | concurrent and repeated callers, stale snapshots, lost acknowledgements | one Send and one handoff behind a durable intent, nothing falsely submitted |
| Collection (`operations/service.ts` collect, `collector.ts`) | a caller's snapshot | progress, capture, terminal receipt | races with submitters, steers and other collectors | the receipt is of the last turn the operation caused |
| Control (`operations/control.ts`) | none beyond the ledger | Work steer, stop | a steer racing a stop, another steer, its own repetition or the page | one unresolved steer at a time, each acts once |
| Staging (`operations/staging.ts`) | none beyond the ledger | set-to-value configuration steps | repeated staging | converges, never after a Send |
| Artifacts (`operations/artifact-*.ts`) | output files, transfer intents | stream, commit, transfer | crash between commit and receipt | a committed output is complete |
| Turn ownership (`operations/turn-ownership.ts`) | none | matching of provider turns | ambiguous turns | never claims a foreign turn |
| Browser adapters (`operations/browser-*.ts`, `runtime-adapter.ts`, `chatgpt-runtime.ts`, `production-*.ts`) | page handles | observe, prepare, execute | everything the page may answer | environment of the models |
| Tab coordinator and runtime (`runtime/`) | browser gate, one actor and queue per resource | enqueue, start, grant, settle, abort, deadline, reclaim | deadlines racing grants, drains on stale pictures, two burst bounds and ageing | no shared use beside an exclusive one, no drift of the books, no starvation |
| Backend client (`backend/client.ts`) | routes, admissions, write queues of two generations, tombstones | request, stream, cancel, timeout, negotiate, recycle, close | late answers, reused ids, writes that hang, older backends | every call ends, no answer reaches another call, places are given back |
| Backend session (`backend/session.ts`, `stdio-server.ts`) | requests in progress | dispatch, cancel | cancellation racing completion | every request is answered once |
| Conversations, watchers (`conversations/`, `response-watchers.ts`) | registries on disk | register, resume, complete | stale entries | a watcher completes once |
| Runner, commands, dom, safety, diagnostics, dev, scripts | page scripts and tooling | | | |
| Python client (`src/packages/python`) | pending requests | the same protocol | | |

How they interact. `OperationService` is the centre: each of its calls loads the
operation from the journal, talks to the browser through ports with no lock held,
and appends events with a compare-and-swap on the revision. Every journal call
takes the operation's lock file, replays and authenticates the whole log through
the reducer, and appends one record. Nothing but the journal is shared between
processes, so correctness rests on layers, each of which is a model: the lock gives
a call the operation's files (`JournalLock`), the store makes what a call
acknowledged survive it (`JournalStore`) and the quota counter bounds what all
operations keep (`JournalQuota`), the reducer makes the order of appends sound
(`OperationLedger`), and the calls use them so that the browser is asked once and the
answer of the right turn is collected (`SubmitOnce`, then `OperationService`). Inside
one process two further parts schedule this work: the tab coordinator decides which
callback touches the browser (`TabCoordinator`), and a client in another process
reaches the service over the stdin and stdout of a backend child
(`BackendTransport`).

The behaviours that are hard to test here are listed under `hazards` in
`PROJECT.json`, at their lines.

## 2. Modules

| Module | Models |
|---|---|
| `OperationLedger` | the reducer and recovery; one action per event its writers append |
| `JournalLock` | the lock file protocol, one action per file operation |
| `JournalStore` | the files of one operation: log, terminal record, tombstone, snapshot and the temporary files they are written through; every file operation of every call |
| `JournalQuota` | the quota counter around every mutation of a tracked file, its rebuild and the admission of a new operation |
| `OneShot` | abstract: an effect with a durable intent, at most one activation, and a proof |
| `SubmitOnce` | concurrent `submit` calls over the ledger and the browser |
| `OperationService` | concurrent `collect`, steer and stop calls over the ledger and the page, from where `submit` leaves off |
| `TabCoordinator` | the browser gate and the per-resource actors |
| `BackendTransport` | the stdio client of the backend |
| `OperationLedger_proofs`, `JournalLock_proofs`, `JournalStore_proofs`, `JournalQuota_proofs`, `SubmitOnce_proofs`, `OperationService_proofs`, `TabCoordinator_proofs`, `BackendTransport_proofs` | theorems about them |
| `MC*` | small instances for TLC |

`SubmitOnce` and `OperationService` extend `OperationLedger`: their appends are its
actions, so they are compositions with it and its properties are checked and proved
of them. `SubmitOnce` implements `OneShot` twice, for the Send and for the handoff, and
`OperationLedger` once. `OperationService` starts from the durable prefixes that
`SubmitOnce` reaches with a posted turn (`LeftBySubmit`).

**OperationLedger.** The variables are the fields of `OperationStateV1` that some
rule of the reducer reads. An action of the ledger is a record of its kind,
outcome and the rank of its intent. Digests are abstracted: an action carries the
digests of its own operation and target, so the digest comparisons of the
reducer, which reject foreign or altered records, always succeed. The guards
(`CanIntend`, `CanReceipt`, `CanWitness`, `CanEstablish`, `CanChangePhase` with
`CausedTransition`) are those of the reducer. Read-only action kinds and
`blocker_observed` leave no trace any rule reads and are left out; the
set-to-value staging kinds are one kind. What the callers append is narrower than
what the reducer accepts (the reducer would take a Send receipt of any outcome);
`ReceiptWritten` and `PhaseWritten` state what `service.ts` and `control.ts`
write, and `LedgerNext` is the system with those writers.

**JournalLock.** A file is its creator's token and whether it was written: between
`open(O_EXCL)` and `writeFile` it is empty. Create, write, read, rename and unlink
are separate steps, so every interleaving of two contenders, a reclaimer and a
crash is a behaviour. `Abandoned` is `owner.hostname === hostname() &&
!processExists(owner.pid)`; a restarted process has its old pid and a fresh
attempt count, which stands for the random token. The in-process queue
(`serializeInProcess`) is why a process has one attempt at a time.

**JournalStore.** `disk` is what calls read, `platter` what a power loss is sure to
leave. Contents reach the platter by fsync of the file, entries by fsync of the
directory (the POSIX rule the code is written for; on Windows `syncDirectory`
does nothing); `FilesLeft` is every combination a power loss may leave: each of
the four files as on disk or as on the platter, the log also with a torn tail.
Records are authenticated, so a record is whole or part of the tail. A record is
its writer and one of four kinds, which is all the files depend on: the first
event, the completing one, the expiry of its content, and any other. Every call
runs under `holder`, the lock of `JournalLock`. `load` is one step because its
only effect, the fsync `readLog` ends with, comes before it answers. `Fault` is any
exception between two file operations, the quota counter's included, with the
effects so far in place; `Crash` is the process dying and its lock being
reclaimed. Terminal record, tombstone and snapshot go through `writeAtomicJson`: create a
temporary file beside the target, write and sync it, link it to its name (the snapshot
is renamed), unlink it, sync the directory. Each is a step (`WriteStep`); `temporary` is the file of the
write at work and `orphans` are those whose writers are gone, since no later call
looks for their names. A write that throws removes its temporary file on the way out
(`Discard`), unless that throws too; a process that dies leaves it; an unlinked one may come back
in a power loss until its directory is synced. Closing a file and comparing its size for the
quota have no effect of their own and are left out. `seen` is the history a caller last learned, whose length it passes as
`expectedRevision`. After a purge has begun no append is made: whether an id is used
again is left to whoever acknowledged the purge.

**SubmitOnce.** Each caller is a program counter over the calls of
`OperationService.submit` and `runAtomicSubmission`; `memo` is what it keeps of
the snapshot it read at `Load`. Journal appends re-read the ledger and are one
step (this is what `JournalLock` justifies); each append may throw, committed or
not (`Append`), and where the code has a reread after a failed append, the
`...Unacknowledged`, `HandoffReread` and `SendConverge` steps model it. The browser
is four variables: the composer's attachments, the handoffs and Send activations
performed, and the user turns posted. A turn may appear long after the click, or never.
Whatever a port answers is a nondeterministic choice, except that an attachment
read tells the truth and that verification claims a submission only of a
turn that is there; those two are the contracts of the adapters, which are not modelled.

**JournalQuota.** An actor is the call that holds one operation's lock, so files of an
operation are changed by nobody else of the program, and `holder` is the quota
lock. `usage` is what a scan would find; `counter` is `quota-state.json`. A directory's
fingerprint changes with its entries and not with the bytes of a file in it, so
`current` is the set of copies of the fingerprints that still match: the one in the
counter and the ones calls hold in memory. `Outside` is another program removing a
cached copy or a temporary file. A change made in place by another program is
noticed by no fingerprint and is left out; so is one that falls between a
call's last look at the fingerprints and its first after the mutation, which the code
takes for its own. Left out as well: a counter whose digest is wrong, which every call
refuses; the timeout of the quota lock; and a power loss after a rebuild that counted
bytes not yet synced. `references/2026-08-16-transactional-operations.md:433` speaks of
the scan limits for admission only; in the code a rebuild that meets
`MAX_QUOTA_SCAN_ENTRIES` or `MAX_QUOTA_SCAN_BYTES` refuses every mutation, appends
of operations in flight and purges included, and so does the model.

**OperationService.** A call of `collect` or `control` is a program counter and a
`memo` of its snapshot and its readings of the page. The page is the number of user
turns shown, one turn on its way (`posting`), the state of the answer to the last
turn and how much of it has been streamed. `Classify` is the ownership decision of a
baseline against a later reading. Turns of a human, regenerated or edited turns,
branches, prior cursors, replacement tabs and incomplete snapshots all end in an
ambiguous classification and are left out; nothing is transferred, and whether the
receipt's content is available does not change. The reading of the parent and the
first reading of the page of a control call are one step. `mishaps` are calls that die,
appends that throw with or without having committed, and browser calls that fail.

**TabCoordinator.** A request is a slot used again once it is settled, so requests
never stop coming. The drains of an actor and of the gate are microtasks and steps of
their own; an abort or a deadline may strike in any state. A waiting time is one flag,
`aged`. A burst counter stops at the bound the code compares it with. A request made
inside a callback is refused (`nested acquisition`); the model has the request that
waits for it, so that the refusal is what keeps the two from waiting for each other.
Successive `BrowserGate` objects have identities, so that a request
that closes over a reclaimed gate can be told from one that does not.

**BackendTransport.** Every table of the code is keyed by the request id alone, and so
are the actions; `use` tells apart the calls that had one id, which only properties
look at. `tails` holds the write queues of the current child and of the
retired ones. A malformed or oversized frame is a child that ends. The table of
unknown ids only hastens a recycle and is left out. In run `transport`
`ReuseWhileWriting` is false: a caller does not reuse an id while one of its lines is
queued, which is true of `createChatGPTBackendClient`; with it true `NoGuessedRoute` fails (section 4).

## 3. Runs

| Run | Instance | Shows |
|---|---|---|
| `ledger` | 4 action identities, symmetric | every property of the ledger, over all orders of events. Four identities suffice for handoff, Send and two of steer, stop, staging and transfer: every rule relates at most two actions besides the original Send |
| `lock` | 3 processes of one host, 2 waits and 1 attempt each, 1 crash, 1 restart, 1 failing write, fair | mutual exclusion, no live lock moved, every attempt ends, a dead process's lock is reclaimed. The third process is the one whose fresh lock a second reclaimer could steal. Several hosts, attempts and crashes are covered by the proofs, which hold for any |
| `submit` | 2 callers, each request with or without files, calls repeated without bound, 1 crash, 1 journal fault | one handoff, one Send, the manifest attached, nothing false reported, every append one the ledger allows |
| `service` | one request repeated and another beside it; two collectors beside a steer or a stop; a collector, a steer and a stop; answers seen to grow once, 1 mishap | the receipt is of the last turn, a steer acts once and alone, an unsteered operation is collected. All calls at once would only add interleavings of calls whose conflicts are pairwise |
| `store_power` | 2 processes, 3 records, no retention calls, 1 crash, 1 fault, 2 power losses | what was acknowledged or shown survives. Two losses are a loss and one that interrupts the repair of its torn tail; the third record is the first that is written by neither the creating nor the repairing append |
| `store_retention` | 2 processes, 3 records, compact, prune and purge, 1 crash, 1 fault | the copies of an operation agree, answers only move forward, a prune that returns has left the tombstone alone at the operation's four names and a purge none of the four; no temporary file is left unless a process died (`MCJournalStore_residue.cfg`, section 4) or, beyond this run's one fault, a write and its cleanup both failed (proved, section 5). One failure leaves a half-done call and the other disturbs the call that takes it up. No power losses: `store_compaction` is one reason, and a log removal that was never synced may come back beside a tombstone, which a prune of what is pruned already does not look for |
| `quota` | 2 operations, 4 calls, 1 crash, 1 fault, 2 entries removed from outside; room for 6 bytes and 3 entries | a counter that would be trusted is exact, and no new operation passes the quota. Six bytes hold two first records and nothing more; three entries are fewer than two operations with their copies, so both limits are met |
| `coordinator_gate` | 4 request slots, 2 tabs and the browser, queue of 3, bursts of 1, 3 cancellations, 2 gate identities, symmetric | the browser is never shared with an exclusive callback, one gate, its books match the requests, a tab is overtaken a bounded number of times. Two of one tab, one of another and one of the browser are what an exclusive turn can come between |
| `coordinator_turns` | 3 slots, 1 tab and the browser, queue of 2, reads, mutations and controls, bursts of 1, 1 cancellation, ageing, fair | every request is granted or ends: turns, bursts and ageing carry it through an endless stream of the other priorities, and a reservation that an abort or a deadline withdraws wakes the gate for the rest. One request of each priority, or two of one beside another, is what the bursts compare; one cancellation is a withdrawal at any point of the others' waits, after which the stream goes on for ever. The mutant loses the drain behind a withdrawal; ageing left out (`NextUnaged`) violates the property as well |
| `transport` | 2 ids, one of a stream, used twice each; 3 children of all five kinds of negotiation; 2 in flight, 3 lines, 2 tombstones, 1 unknown answer, fair | places are given back, the handshake has room, late answers are drained, ended calls are not written, writes are bounded over generations, every call and tombstone ends. A second use is what a late answer can be taken for; a third child is the one that a detached and a blocked generation keep out |
| `handoffprefix`, `store_compaction` | 1 crash | the first two violations below |

Deadlock is not checked where the system may stop: the ledger once completed, the
lock and the quota once every bound is used up, the transport once closed. In the
other modules a caller can always call again.

Fairness is assumed only where a run checks liveness.

* `lock`: weak fairness of each process's own steps, i.e. a live process keeps running
  its code. It is not assumed that the holder ever leaves the critical section, that
  a process starts an attempt or restarts: `AttemptEnds` holds because the budget of
  retries is finite. `AbandonedReclaimed` is checked with one crash and excepts a failed write,
  because the code gives up liveness on purpose when a reclaimer dies with the guard
  (`journal.ts:2064`), and fails with `journal_lock_corrupt` on a lock whose creator
  died before writing it.
* `service`: collectors keep polling, a posted turn appears and the provider answers.
  Nothing is assumed of control calls.
* `coordinator_turns`: microtasks run, time passes, and callbacks settle; the class asks
  of its callers that a callback is one short browser operation. Cancellations are finite in number
  (`MaxCancels`): a caller that reserves the browser and withdraws for ever, each time before the
  gate's drain, would keep a tab waiting, and nothing in the class prevents it. Slots are
  only names, so a request takes the first free one (`FirstFreeSlot`), which stands in for
  symmetry; and the browser's own queue holds mutations only (`Priorities`), since it is an actor like the
  tab's, whose queue mixes all three priorities.
* `transport`: timers fire and microtasks run. Nothing is assumed of the child or of
  its stdin, which may hang for ever.

## 4. What the runs found

Two of these are runs of the list above; each of the others has a `.cfg` of its own,
named below, which TLC finds violated. They are instances of the same modules.

Submission and store:

* `handoffprefix`: the satisfied handoff receipt and the `ready` phase are two
  appends. If the process stops between them the phase is `handoff_pending` with
  a settled handoff. `coherentSubmissionState` has a case for that prefix in phase
  `prepared`, with a comment that it must resume, and none in `handoff_pending`,
  so every later submit returns `operation_state_corrupt`.
* `MCSubmitOnce_sendprefix.cfg` (`SendPrefixResumes`): the same between the Send receipt
  and `submitted`. `collect` can still finish that operation; `submit` cannot. Both
  properties speak of states in which no caller is at work.
* `store_compaction`: `compactCompleted` writes the terminal record, syncs its
  directory, and then removes the log. If the process dies before that sync, the
  next compaction finds the terminal record, trusts it, and removes the log after
  syncing only the directory of the log. Until something syncs the terminals directory a
  power loss may leave neither record, and the operation id is free for a second Send.
  `pruneReceipt` treats a tombstone it finds in the same way.
* `MCJournalStore_purge.cfg` (`PurgeIsPermanent`): `purgeTombstone` removes the tombstone
  before the residue below it. After a half-done prune, a purge that stops after its
  first removal leaves the terminal record, `load` serves the receipt it had called
  expired, and the purge cannot be run again.
* `MCJournalStore_residue.cfg` (`PurgeLeavesNoResidue`): a process that dies inside
  `writeAtomicJson` (`journal.ts:1478-1521`), before its rename or between its link and its
  unlink, leaves the temporary file behind. It may be a whole copy of the terminal record,
  receipt included, or of the state. Its name is random and no call looks for it, so neither `pruneReceipt` nor
  `purgeTombstone` removes it, although the latter says (`journal.ts:640`) that it
  "permanently removes a pruned tombstone and any crash-residue state". The copy is
  never read again; it only stays, and counts against the quota. One death is enough.

Control:

* `MCOperationService_stop.cfg` (`StopActsOnce`): `persistActionIntent`
  (`service.ts:1104`) returns normally when it finds the intent of the same action
  durable already. Two calls of one Stop that both read the parent before either wrote
  both go on to `executeOnce` and click twice. `control.ts:528` says that a durable
  intent authorises one call; a steer is fenced by an append that tells the two
  cases apart.
* `MCOperationService_refused.cfg` (`UnactivatedSteerIsRejected`): when the page moved
  between preparing a steer and its recheck (streaming is enough: the baseline holds the
  digest of the generating answer's text), `runSteerPhases` verifies, finds no added
  turn and writes no receipt (`control.ts:818`). The steer stays unresolved and blocks every
  later steer and every collection; `control.ts:807` says a failed recheck is a durable
  rejection.
* `MCOperationService_witness.cfg` (`SatisfiedSteerActed`): a steer whose recheck failed
  because an earlier, settled steer's turn had only just appeared verifies against its own
  older baseline, finds exactly one added turn, and is confirmed without having acted.
* `MCOperationService_readable.cfg` (`SnapshotReadable`): as a consequence, of two calls of
  one steer one may have written the witness of a foreign turn when the other,
  cancelled before it acted, writes `not_satisfied`. `applyActionReceipt`
  (`state-machine.ts:556`) does not look at witnesses; `assertOperationStateShape` refuses
  that state in every later call, and no append repairs it. The writers of
  `OperationLedger` (`ReceiptWritten`) exclude this receipt: the theorems about
  the ledger hold of every writer but this one.

Seen in the code while modelling, without a property of its own: a witness whose
receipt was not written cannot be settled by another call, because
`appendSubmissionWitnessConvergent` compares `observedAt` (`service.ts:1711`); after a
steer, collection is ambiguous if the parent answer's text grew after the baseline
(`turn-ownership.ts:763`); a steer whose process dies between fence and click stays
unresolved; Stop clicks a page-wide button without rechecking the turn.

Runtime and transport:

* `MCTabCoordinator_controls.cfg` (`ControlsYieldToMutations`): when the bound of
  consecutive controls is reached and a read waits besides the mutation, `selectNext`
  falls through to the read, and `recordSelection` resets the count of controls; the
  next controls cut through again and the mutation waits until it ages.
  `runtime/tab-coordinator.ts:130` says a waiting mutation is selected at that bound. The test of the
  bound has no read waiting.
* `MCBackendTransport_singleflight.cfg` (`OneAtSingleFlightBackend`): `cancel` of a call whose
  line was written leaves a tombstone and releases the single slot; the next request is
  written while the older backend still serves the first. `references/backend-protocol.md:114`
  says that such backends remain single-flight. A timeout in the same situation ends
  the child.
* `MCBackendTransport_reuse.cfg` (`NoGuessedRoute`): when the line of an ended call, queued
  behind a slow write to a child since replaced, fails with `backend_closed`, the catch
  of `issueResponse` (`backend/client.ts:886`) looks its id up again and, if a caller has used
  the id anew, clears the new call without a tombstone. The answer to that one may then be
  delivered to the next use of the id. It takes a user of the transport that reuses ids,
  which `validateRequestId` allows and `createChatGPTBackendClient` does not do.

## 5. Proofs

TLAPS checks, for any set of action identities, callers, operations, processes,
hosts, requests and tabs, and any number of crashes, restarts, faults and power losses (the bounds of
the models are any numbers):

**Ledger** (`OperationLedger_proofs`).

* `LedgerTypeOK`, `LedgerReadable`: the conjunction of type correctness, the parts
  of `SnapshotReadable` and the facts they rest on (a receipt of a Send or steer
  implies its witness, intents of single kinds are unique) is inductive. The
  phase conjunct is not inductive by itself: `submitted` needs the Send's ownership proof to
  survive receipts, witnesses and further intents, hence `OwnershipIsPermanent`
  (`LedgerOwnershipPermanent`) first.
* `LedgerRecoveryNeverRepeats`: from readability, since a Send is durable only
  in or after `ready` and a handoff only in or after `prepared`.
* `LedgerRecoveryObservesFurthest`: the ranks of the intents follow the log
  (`RanksFollowLog`: none above the count of intents, a handoff before every Send,
  steer and stop). That a latest pending action exists is the
  least-number principle of `WellFoundedInduction`, applied to ranks counted from above.
* `LedgerUncertainIsNotATrap`: the guards of the phase that leads on follow from
  readability (a witness is of an established target) and from `IntentsHaveTarget`,
  that nothing is intended before the target is bound.

These are all the properties of run `ledger`.

**Submission** (`SubmitOnce_proofs`): all the properties of run `submit`, for any number
of callers. The inductive invariant `SubmitInv` joins the ledger's to

* `SharedInv`, which ties the browser to the journal: no click without a durable Send, no
  handoff without a durable handoff, no witness without the posted turn, nothing
  attached but by a handoff;
* `CallerInv`, what each caller relies on at its label (`Claims`). The one that matters:
  a caller between its own intent and the activation holds the only durable intent
  of that kind, and the browser was not asked yet. It holds because an intent of a
  single kind can be appended only while there is none, and the reread after a failed
  append goes on only if the intent found is the caller's own.

A step of another caller disturbs no claim (`OthersKeep`, from `LedgerKeeps`: single
intents, witnesses and ownership stay whatever is appended), and a caller's own
steps establish the claims of the label they go to (the `...Sound` lemmas, one per
action). `SubmitSendsOnce` and `SubmitHandsOverOnce` show each step to be a step of
`OneShot` or a stutter; `SubmitImplementsLedger` each append a step of the ledger;
`SubmitNotFalse`, `SubmitCarriesManifest` follow from the invariant, and
`SubmitPostedRecoverable` from it and `SendsProven`, that every durable Send has its
baseline.

**Lock** (`JournalLock_proofs`). `LockInvariant`: a file at the lock path was created by an
attempt that still owns it or is over, at most the guard's creator is between
taking and dropping the guard, and in `rename` the file at the path is the abandoned
one that was re-read. `LockHolderOwnsLock`, `LockMutualExclusion` and
`LockOnlyAbandonedMoved` follow, for any assignment of hosts.

**Store** (`JournalStore_proofs`).

* `StoreInvariant`: what each call has established at each of its file operations
  (`AppendInv`, `RetentionInv`); that until a purge the platter is behind the disk in one
  direction only (`PlatterInv`); that every log, terminal record and tombstone a power
  loss may combine agree (`CopiesInv`: it ranges over the mixtures, since none of the two
  sets of files by itself says what a loss leaves); and that what a caller saw begins
  what is there (`SeenInv`). The last is why the fence of `append` is sound: the
  expected revision is a count, and a prefix of the same length is the same history.
  `StoreTypesOK`, `StoreCopiesAgree` and `StoreAppendedToWhatWasSeen` follow, with
  any mix of retention calls.
* `AppendsAreDurable`: assuming no retention call is made (`Retention = {}`), what was
  acknowledged begins the log on the disk and on the platter, and its entry is on both
  (`DurableInv`); the step that needs care is a power loss, which may drop the whole
  log only while nothing was acknowledged. The assumption cannot be dropped:
  `store_compaction` violates the property.
* `RetentionRemoves`: with all retention calls, for the executions in which no power was
  lost (`losses = 0`; section 3 says why not the others). It is about the operation's four names,
  and about temporary files only where no process died and at most one call failed. `CopyInv` says which copies a
  call at each removal has taken away and what is left for it. What needs it is a call
  that takes up what an interrupted one left, a terminal record beside its log or a
  tombstone beside the terminal record and snapshot it replaced: these are removed
  again, and no log comes back beside a tombstone. `LogInv` adds that a log that is gone
  has no records, which a removal is compared with. For the temporary files the invariant is
  `ResidueInv`: only a call inside a write has one, `Discard` is reached by a first fault
  only, and an orphan that still lies in its directory was left by a death, a power loss or a second
  fault.
* `CrashesLoseNothing`: with all retention calls and any crashes and faults, but no power
  loss, an acknowledged event is in the log, or in the terminal record, or the tombstone
  has replaced both, until a purge. It is part of `KeptInv`. The facts it rests on are `HistorySteps`,
  that a step leaves the history an operation has or extends it, or the tombstone is
  there, and `ToldSteps`, that a call is told no more than that.
* `AcknowledgedExtends`, `AnswersOnlyAdvance`: under either of these assumptions, without
  retention calls or without power losses; the only executions left out
  are those the second run of section 4 is about.

**Quota** (`JournalQuota_proofs`). `QuotaInvariant`: one call is past the quota lock, and at
each of its steps the invariant says what the counter does not show yet; a counter
that is neither dirty nor stale is therefore exact (`QuotaCounterExact`), and the totals
that admission compares are those of the directories (`QuotaAdmission`). Sizes, limits
and the number of operations are arbitrary.

**Collect and control** (`OperationService_proofs`): the safety properties of run `service`,
for any steers and stops, each called any number of times, any number of collectors
and mishaps (finitely many steer calls, since their turns are counted). A collector is
taken to be no control call. The inductive invariant `ServiceInv` has these parts
besides the types:

* `OneInDoubt`: a steer without an outcome is the only one and the last in the log; the
  fence refuses a second;
* `TurnsOwned`: the last turn, shown or on its way, is the doubted steer's once that was
  activated or has its witness, and until then the turn of the action settled last, with
  nothing on its way. This ties the journal to a page that goes on without it;
* `OneHolder`: of the calls that repeat one steer, one may still activate or reject it;
* `SteerClaim` and `CollectClaim`: what a call relies on at each label. At the click the
  page is the baseline's; a witness names the last turn as long as its steer is in
  doubt; from the check of `persistTerminal` on, the collector's turn is `Final`: answered,
  last, with nobody at a click. That check suffices because the latest owner is the
  doubted steer, if it has its witness, and otherwise the one settled last
  (`OwnersTurnIsLast`).

Most steps leave the steers and the page as they are (`QuietStep`); the others are the four
events of a steer (fence, click, witness, outcome) and those of the page.
`ReceiptOfLastTurn` and `SteersActAlone` follow.

**Tab coordinator** (`TabCoordinator_proofs`): all the properties of run `coordinator_gate`,
for any number of requests (finitely many, since they are counted), tabs and gates and
any limits. The inductive invariant `CoordInv` has these parts besides the types:

* `Placement`: an actor's queue holds each of its queued requests once, and its active
  one is the one that was started and has not settled, cancelled or not;
* `Gated` and `OneGate`: a live request has a gate, the one in the registry. Keeping it
  needs the rest: a gate is given up when it is idle and the browser's actor has
  nothing, and it is the books that then leave no tab request alive and `Placement` that
  leaves none of the browser;
* `Books`: `GateMatchesRequests` for each gate, with its leases of one sort. The step
  of a single request adds it to or takes it from each set and count (`OneMoves`), and
  a count goes down only where the request is in it (`CountOne`), so never below zero;
* `TurnsCounted`: a waiting tab was overtaken by no more than the gate's count of turns,
  which is reset only in a batch that takes every waiting tab.

`BrowserNotShared` follows from `Placement` for one tab and from `OneGate` and the
one sort of leases for the browser, `OvertakingBounded` from `TurnsCounted`.

**Backend client** (`BackendTransport_proofs`): the safety properties of run `transport`,
for any number of callers, uses, generations and unknown answers and any limits.

* `TransportInv` is inductive: the types and limits of the tables (`CountInv`); that the
  admission tables are those of the calls that are alive (`PlaceInv`, the first
  half of `AdmissionsAreLive`); how the stages of calls, the handshake and the child go
  together (`StageInv`: e.g. a request is pending or queues for the slot only
  after the handshake, so a failing handshake rejects nobody who was written); that the
  queue for the single slot has each caller once (`SlotsInv`); and the write
  queues (`WriteInv`): each is of one generation, the current one's is the child's, until
  the start of a third generation is refused. `HelloHasRoom` is a conjunct of it: a
  request that comes first takes the last place but one. `AdmissionsLive`,
  `HelloNotCrowdedOut` and `ReplacingIsBounded` follow.
* `GuardInv` is inductive with it when no id is used again while a line of it is queued
  (`~ReuseWhileWriting`, as in run `transport` and in the client the repository
  ships): every line and every owed answer is of the use its id is in, no call has two
  lines, none is owed before it is written, and an id with a tombstone is idle. Of the
  handshake's own id, which is new each time, earlier uses may still be owed; each
  has its own tombstone. Hence `LateAnswersFindTheirCall`, and `EndedCallsAreNotWritten`,
  since only `WriteStart` makes the child owe more (`OwedOfLiveCalls`).
  `NoRouteIsGuessed` shows from the same invariant that this reuse is the only way to the
  violation of `NoGuessedRoute` in section 4.

The queue for the single slot loses a caller by `RemoveAt` of its place; each caller
is in it once, so this is the removal of every occurrence.

No proof uses the fairness of a specification. All rest on the named assumptions of each
module alone, but for the hypotheses named above, which are on the constants of the runs
(`Retention`, `MaxPowerLosses`, `ReuseWhileWriting`).

Only model-checked: the liveness properties (`AttemptEnds`, `AbandonedReclaimed`,
`UnsteeredIsCollected`, `RequestsSettle`, `CallsSettle`, `TombstonesGo`), since TLAPS
supports neither the fairness they rest on nor ENABLED. Every safety property of a
passing run is proved.

## 6. Plan

1. Done: ledger, recovery, lock, store, quota, submission, collection, control, tab
   coordinator, backend client; proofs about all of them.
2. An abstract specification of the store, a register of events that is only
   ever appended to, then frozen, then expired, which `JournalStore` implements.
3. `Staging` and the send adapter (`send-once.ts`), which `SubmitOnce` takes as one step
   each; artifact transfer and its receipt.
4. The backend session at the other end of `BackendTransport`; response watchers and the
   conversations registry; the Python client, which keeps the same table as the node client.

## 7. Not modelled

* Browser and target adapters, commands, DOM and locale tables: reading and clicking a
  page nobody specifies. The models take every answer of these ports as a choice, under
  the contracts named in section 2.
* Wire formats, handles, canonical JSON: data without control. A digest is what it is of.
* Staging, artifacts, backend session, runtime contexts, conversations, watchers, runner and
  Python client: planned, as above.
* Client facade, diagnostics, platform, development tooling: reporting and assembly. The
  plugin bundles are built from the node package.
* Within the modelled parts: id reuse after a purge; journal files altered by hand, which
  authentication refuses; the cross-process transfer of an intent with an equal `intentAt`;
  a reader that opens a lock file still empty, which fails with `journal_lock_corrupt` and
  is retried by whoever called.

The notes of the components in `PROJECT.json` say the same per source file.
