# Formal models of Orbit

Orbit runs AI jobs on Kubernetes with Volcano. This directory holds TLA+ models of
the parts that decide when a job may run, that keep the database and the
cluster in agreement, that charge for running jobs, that schedule the periodic ones, that publish and
delete checkpoints, that download models, and of the browser's session and review pages, the TLC runs that check them, and TLAPS proofs about them.
Paths below are relative to the repository; the backend is `backend/`, the browser's part `frontend/src/`.

`tlc -config JobRows.cfg MCJobLifecycle` checks a run (names in `PROJECT.json`),
`tlapm JobLifecycleProofs.tla` checks proofs, as do `BillingProofs`, `SessionProofs`,
`ApprovalProofs`, `CronJobProofs`, `CheckpointProofs` and `ModelDownloadProofs`.

## 1. The system

### Inventory

| Component | Code | State | Operations | Talks to |
|---|---|---|---|---|
| Job submission | `internal/handler/vcjob/lifecycle.go`, `internal/service/vcjob/runtime.go` | none (rows, cluster) | `submitJob`: admission, quota, blockers, then a Prequeue row or `ActivateJob` | quota service, watcher (signal), Volcano |
| Prequeue watcher | `pkg/prequeuewatcher/` | `needScan`, `signalCh`, `wakeCh`, ticker, runtime config | `Start` loop, full scan round, claim and activate, preemption | rows, Volcano, nodes and pods |
| VcJob reconciler | `pkg/reconciler/vcjob-reconciler.go` | work queue of the controller | `Reconcile`: copy phase to row, free rows of missing jobs, notify | rows, informer cache, watcher, billing, approval orders |
| Job deletion | `internal/handler/vcjob/vcjob.go` | none | `deleteJob`: read, plan, write the row, delete the cluster job | rows, Volcano, watcher, billing |
| Queue quota | `internal/service/prequeue_service.go` | quota rows | usage of a user in a queue, limit checks | rows |
| Cleaners | `pkg/cleaner/` | none | delete idle, long or unscheduled jobs | rows, Volcano |
| Billing | `internal/service/billing_service.go` | balances, `last_settled_at`, settings | settlement tick, issue, status change, final settlement | rows, cron, reconciler |
| Checkpoints | `sdk/python/orbit/checkpoint.py`, `cmd/checkpoint-agent`, `cmd/checkpoint-scanner`, `internal/handler/vcjob/checkpoint_*.go`, `internal/service/vcjob/checkpoint/` | checkpoint rows, directories with markers | stage, commit, scan, delete, clean up, restore | storage, callbacks |
| Approval orders | `internal/handler/approvalorder.go`, `internal/handler/operations/lock.go` | orders, the lock of a job | create, auto-approve, review, cancel; lock, unlock | reconciler, review pages |
| Review pages | `frontend/src/hooks/use-approval-order-lock.ts`, `routes/admin/more/orders/`, `components/job/detail/job-order-list.tsx` | selection, open dialog, requests under way | lock, then approve; reject | approval orders |
| API client and session | `frontend/src/services/client.ts`, `hooks/use-auth.tsx` | tokens in the local storage, `isRefreshing`, `failedQueue`, the account shown | send, refresh, replay; login, switch, logout | token handlers, other tabs |
| Cron manager | `pkg/cronjob/` | scheduler entries, config rows | update, suspend, synchronise, execute | cleaners, billing, patrol, admin page |
| Model downloads | `internal/handler/modeldownload.go`, `pkg/reconciler/modeldownload-reconciler.go` | shared download rows, users associated with them | create, share, retry, pause, resume, delete, reconcile | Kubernetes jobs, data sets |
| Image builds | `pkg/packer`, `pkg/reconciler/build-reconciler.go` | build rows | create, reconcile | Kubernetes jobs |
| EMIAS jobs | `pkg/aitaskctl/`, `pkg/util/{heap,queue}` | in-memory queues, quota | enqueue, schedule, profile | AIJob CRD |
| Accounts, users, Volcano queues | `internal/handler/account.go`, `user.go`, `pkg/vcqueue/` | rows, Queue objects | CRUD across both | Kubernetes |
| Experiments, statistics, GPU analysis, logs | `internal/service/` | projections of job rows | sync, report | rows |
| Tokens | `internal/util/token.go`, `internal/handler/auth.go` | none | make, check, refresh, switch the account | API client |
| Settings, storage server, datasets, nodes, monitor, alert, other pages, website, charts | elsewhere | own rows or none | CRUD, I/O, UI | |

### What is hard about it

Three actors write the status of a job row without agreeing on anything: the delete
handler writes by name, the reconciler writes what it computed from an older read, and
the watcher claims inside a transaction. The database and Volcano do not commit
together. Usage, blockers, plans and rows are read at one time and used at another.
Signals may be dropped, processes restart, and without leader election every replica
runs the loop. Settlements are long transactions that lock jobs, memberships and users in
the order the database returns them, at a time chosen before any lock is held. The scheduler
of the cron manager is changed inside database transactions and does not roll back. Rows and files of
checkpoints are written by an agent's events, scans and deletions that neither lock nor look
at what the others wrote. Handlers of a download write its status by id after the calls to the cluster that it
describes, whatever the row says by then. In the
browser, callbacks run with what was on the page when their request was sent: after a switch of the
account, a logout, or when the dialog they belong to is closed. `PROJECT.json` lists every hazard with its line and the property that
would catch it; these lists are what the properties were chosen for.

Per component, what makes it correct:

* *admission*: a job is queued at most once, activated at most once and only out of
  the queue; a job activated before is never created again; quota and order hold for
  what passes through the queue; no queued job waits for ever.
* *activation*: a job that counts as activated can be reached; a failed one leaves
  nothing behind that a later one would take for its own.
* *reconciler*: once nothing is in flight, a row says what Volcano says, and a row
  without a job neither counts as usage nor blocks anyone.
* *preemption*: a plan makes room on a node the job may run on, is found when there
  is one and holds a smallest set that would do, and in the end the pending job is bound.
* *billing*: no minute is charged twice and no free minute is given twice within a run,
  settlements do not go back in time, a period is issued once, and what users hold and
  what was billed add up to what they were given.
* *session*: refreshes never overlap, every request that waits for one is answered, and a
  call, replayed or not, runs in the account that was shown when it was made.
* *approval*: an order is approved only after its job was locked, a granted lock is
  followed by the approval, a user gets one approval without review per window, the orders of a job that
  goes on running are not cancelled, and those of a job that ended do not stay pending.
* *cron jobs*: the scheduler runs what the rows say, an update touches no other job, and a row
  says "running" only while an execution is under way. The code keeps each of them with exceptions, which section 2 names.
* *checkpoints*: a row is committed only if the job finished saving the checkpoint; a finished save
  gets to the final directory (the code loses one the agent meets too early, see the findings); no deletion stays half done; in the end rows, latest flag, the job's
  pointer and the directory agree.
* *model downloads*: the row comes back to what its job does, a job that ended and belongs to no
  row is removed and no other, and nothing is ready without its data set.

## 2. The modules

| Module | Role |
|---|---|
| `JobAdmission` | abstract specification: the stages of a job with respect to the queue |
| `JobLifecycle` | submission, deletion, reconciler, watcher loops, Volcano and restarts over shared rows |
| `MCJobLifecycle` | instances for TLC |
| `JobLifecycleProofs` | theorems about `JobLifecycle` and `Preemption` for all constants |
| `SumProofs` | lemmas about sums over finite sets, for quotas and bills |
| `PointLedger` | abstract specification: bills and balances of users, one step per transaction |
| `Billing` | base loops, settlements, issues, final settlements as transactions with row locks |
| `MCBilling` | instances for TLC |
| `BillingProofs` | theorems about `Billing` for all constants |
| `Preemption` | plan, deletion and repetition of a preemption round against stale rows and pods |
| `Session`, `MCSession`, `SessionProofs` | a page's API client and session, the tokens, other tabs |
| `Approval`, `MCApproval`, `ApprovalProofs` | orders for job locks: creation, review pages, reconciler, check |
| `CronJobs`, `MCCronJobs`, `CronJobProofs` | configuration rows and scheduler entries, updates, executions, restarts |
| `ModelDownload`, `MCModelDownload`, `ModelDownloadProofs` | the row of a download, its cluster jobs, requests of users, the reconciler, restarts |
| `Checkpoints`, `MCCheckpoints`, `CheckpointProofs` | the checkpoints of a job: saves, agent, events, scans, deletions over rows and directories |

`JobLifecycle` and `Preemption` meet in the choice of victims, `JobLifecycle` and `Billing` in the
reconciler and the delete handler, `JobLifecycle` and `Approval` in the reconciler; each module keeps of
the shared actor what touches its own state, with the reads of the others left open.

### JobLifecycle

State: `rec` (status of a row; `blank` is the empty string), `order` (Prequeue rows by
`creation_timestamp`), `overdue` (normal jobs past their waiting tolerance), `cluster`
(phase of the Volcano job), `exposed` (its ingresses exist), `sub` and `del` (progress of a
submit and a delete request), `dirty` and `rc` (controller queue and the reconcile in
progress), `watcher` (per replica: where the loop is, `needScan`, the page and batch of the
round, the job being activated), `QueueQuotaEnabled` (the switch of the quota, one of `QuotaModes`
for all of a behaviour), `signals` and `wake` (`signalCh`, `wakeCh`), `claims`
(history: activations committed), `faults` (failures so far).

| Action | Code |
|---|---|
| `SubmitCheck`, `SubmitQueue`, `SubmitNotify` | `submitJob` up to its decision; `createPrequeueRecord` |
| `SubmitCreate`, `SubmitExpose` | `ActivateJob`, `ensureJobAccessResources` with the deferred clean-up |
| `DeleteRead`, `DeletePlan`, `DeleteApply`, `DeleteCluster` | `deleteJob` |
| `ReconcileGet`, `ReconcileRead`, `ReconcileWrite`, `ReconcileFail` | `VcJobReconciler.Reconcile` |
| `WatcherSignal`, `WatcherWake`, `WatcherTick`, `WatcherReadFails` | `PrequeueWatcher.Start`, its select and error branches |
| `WatcherPreempt`, `WatcherScan`, `WatcherSelect` | `runFullScanRound`, `activateNextPrequeueBatch`, `selectActivationCandidates` |
| `WatcherClaim`, `WatcherCreate`, `WatcherExpose`, `WatcherCommit` | `claimAndActivatePrequeueJob` |
| `Evolve` | Volcano moves a job on |
| `Clean` | the cleaners, or an administrator with kubectl |
| `Timeout` | the clock |
| `Restart` | the process (all replicas) stops and starts |

A step is one database statement, one Kubernetes call or one decision on values read
before, so every actor can act between the reads and the writes of another. A claim's
`UPDATE` holds a row lock until its transaction ends (`Locked`); a rolled back claim never
changed `rec`, which is the committed status.

Abstractions, and why they are sound for the properties:

* The retry timer and the kick are one pending `wake`: both only make the loop run once
  more some time later. Signals are a set of replicas: `drainSignals` takes them all.
* A submission reads usage and blockers in one step; the properties about a submission
  concern what happens after these reads. A refused request (admission, read errors) is a
  request that does not happen, except for the quota refusal.
* Blockers and the page of candidates are read in one step; usage is read per candidate,
  as in the code. `overdue` is decided when the page is read (`now` of the round).
* The informer's lag is the time a job waits in `dirty`. One reconcile runs at a time
  (`controller.Options{}`: one worker).
* Failed, Aborted, Terminated and Completed are one phase: the code treats them alike here.
* Account, user and queue are one `Owner`, resources are one number, and domain and node
  overlap of blockers are the relation `Covers`.
* A job name is used once (names carry a random suffix); a user deletes a job once.
* Which rows a preemption removes is left open (`Preempts`); `Preemption` models the choice.

### Preemption

State: sizes, nodes and demand (chosen at the start, all values), `rows` (victims whose row
says Running), `live` (their Volcano job exists), `pods` (their pod occupies the node),
`waiting` (row of the pending job), `at` (node of its pod), `plan` (what the round still has
to delete), `failures`. `Scan` computes the plan as `findSingleNodePreemptionPlan` does.
`Search` is the recursion of `resources.go` as a function of one argument, the tuple of what its calls
pass on (where it is, how many it still takes, what it took and what that adds up to), including what its
backtracking leaves in the list; `SelectSubset` is the loop over the sizes. `DeleteNext` and `DeleteFails` are
`deletePreemptedBackfillJobs`; the remaining actions are Volcano, the kubelet and the reconciler.
One pending job out of patience is modelled: `findPendingNormalJobPreemptionPlan`
serves the first such job that has a plan, and no other job competes for its node.
The watcher is one component in two modules, and one module proves theorems about both; that is why
`Preemption` names its specification `PRSpec`, its type invariant `PRTypeOK`, and so on.

### Billing

One account with its users and jobs. State: `now` (minutes); `vc` (the Volcano job: phase,
begin and end of its run); `row` (status, running and completed timestamp, deleted or not);
`bill` (`last_settled_at`, `billed_points_total`, and two histories: which minutes were charged,
and of runs that began when); `free` and `extra` (the two balances); `lastIssued`, `lastTick`;
`tx` (the transaction a process is in, with the copies of what it has read) and `lock` (which
process holds a row); `dirty`, `rc`, `del` (reconciler and delete request); `granted` (history:
what a user was ever given); `events` (how much of what is bounded has happened).

| Action | Code |
|---|---|
| `LoopIssue`, `LockAccount`, `LockMembers` | `RunBaseLoopOnce`, `IssueDueAccounts`, `issueAccountNowTx` |
| `LoopTick` | `runRunningSettlementTickWithInterval` |
| `LockJob`, `LockMember`, `LockUser` | `settleOneJobTx`, `deductSettlementCost` |
| `Commit`, `DeadlockVictim`, `Crash` | the end of a transaction |
| `ReconcileRead`, `ReconcileWrite` | `Reconcile`, its row write and `OnJobFinishedSettlement` |
| `DeletePlan`, `DeleteApply`, `DeleteCluster` | `deleteJob` with its settlement |
| `Adjust` | `AdjustUserExtraBalance` |
| `Begin`, `End`, `Restart`, `BeginAgain`, `Vanish`, `Pass` | Volcano, a cleaner, the clock |

A step of a transaction takes one lock (`SELECT ... FOR UPDATE`) and computes on copies, which
include its own writes; `Commit` writes them and releases the locks; a row that is locked can
be written by nobody else, so the reconciler and the delete handler wait for it. A circle
of waiting transactions is broken by aborting any of its members, as PostgreSQL does.

Abstractions:

* One account, whose lock and list of running jobs are taken in one step; the list is not
  locked, so a job may change before its turn, as in the code.
* `DeletePlan` reads row and cluster in one step; `JobLifecycle` separates them.
* Price, free minutes, amount, period and interval are constants, billing is active, and prices
  are such that rounding to micro points plays no part. The overrides of amounts per user and
  the skipping of invalid configurations are left out.
* A job that fails or is aborted ends as one that completes.

### Session

State: `storage` (the pair of tokens in the local storage), `page`, `signedIn`, `context` (the
account shown), `isRefreshing`, `failedQueue`, per request where it is (`at`) and what it carries
(`req`), `refresh` (the request of `refreshTokenFn`), `now`. A step is what the browser runs between
two awaits.

| Action | Code |
|---|---|
| `SendCall`, `SendSwitch`, `SendLogin` | `beforeRequest`, `apiQueueSwitch` and its three callers, `login` |
| `Accept`, `SayExpired`, `Fail`, `ServeRefresh` | the handlers and the middleware; a timeout |
| `Park`, `StartRefresh`, `RefreshDone`, `RefreshFailed` | `afterResponse`, `refreshTokenFn`, `processQueue` |
| `ReceiveCall`, `ReceiveSwitch`, `ReceiveLogin`, `ReceiveCheck`, `ReceiveFailure` | the callbacks |
| `Reload`, `EnterApp`, `Logout` | `window.location.href`, the guards of the routes, `logout` |
| `Elsewhere`, `Tick` | another tab on the same storage; the clock |

A unit of time is longer than a request takes and not longer than an access token lives. `mixed`
and `crossed` are ghosts: another tab, or a refresh asked for before a switch or logout, has
put the tokens of another account behind the page. The code does that; the properties about accounts
say what holds otherwise.

### Approval

State: `status` of the orders, `auto` (approved without review) and `born`; `create` (progress of a
creation); `granted` and `locked` (histories: orders for which the handler, and an administrator, wrote a lock) and
`pinned` (jobs locked for ever); `phase` and `row` (a job in the cluster, and its row), `dirty` and `seen` (the
reconciler's queue, and what it acts on), `check` (orders it has still to look at, and the one it is about to cancel);
`ran` (jobs a cached list may show as running), `quiet` (a ghost, below); `ui` (selection, open dialog, orders shown as
pending) and `call` (requests of the pages, with the order of the dialog that sent them and whether that dialog is still mounted).

| Action | Code |
|---|---|
| `Ask`, `AutoLockRead`, `AutoLockWrite`, `AutoLockFails`, `Insert`, `InsertFails` | `CreateApprovalOrder`, `lockJobForApproval` |
| `DeleteApprovalOrder`, `UpdateApprovalOrder` | the handlers of these names |
| `AddLockTimeRead`, `AddLockTimeWrite`, `ClearLockTime` | `operations/lock.go` |
| `PhaseChanges`, `Activate`, `DeleteJob` | Volcano, the watcher's claim, `deleteJob`, as far as they change a job and its row |
| `Reconcile`, `WriteRow`, `cancelPendingApprovalOrders`, `FreeRow` | `Reconcile`: the fetch, then the row before the orders, or the orders before the row of a job that is gone |
| `CheckOrders`, `CheckOrder`, `cancelApprovalOrder` | `UpdateApprovalOrderByJobStatus` |
| `handleApproveWithDelay`, `CloseDialog`, `SubmitLock`, `Reject`, `Refresh`, `Navigate` | the reviewer and the page |
| `LockAnswered`, `ApproveAnswered`, `RejectAnswered`, `Failed` | callbacks of the mutations |

A job is queued, activated, waits, runs, restarts, ends and goes, and an order may be asked for at any of these times.
The reconciler cancels on every phase but Running and Pending, the check on every row that is not Running and on any error
of reading it, as the code does. The read of the row and its update are one step of `WriteRow`, and so are those
of `DeleteJob`; `JobLifecycle` takes them apart. A restart of the reconciler's process is left out.

A mutation's callback belongs to the dialog that sent it, and runs with its last render also after
the dialog is unmounted; the detail page reads the selection through a ref instead
(`Target`). That page shows one order at a time, and its tab of related orders leads to another one of the same job
(`Navigate`; the list is that of a job's name, hence `OrderAssumption`) without a new component: selection, ref and requests under way stay.
How long a lock lasts is left out. No page calls the check or the deletion; both are
endpoints, so they are inputs that an instance allows or not.

What the properties leave open is true of the code. On a detail page the late answer of one order's lock approves
the order that is selected by then (`$id.tsx:481-488`), whose own lock nobody wrote: `ApprovedAfterLock` asks there for a
lock of the same job, for an order that page showed. An order is cancelled when its job restarts, and by the check when its
job waits or its row cannot be read: `RunningJobsKeepOrders` speaks of jobs that are `quiet`, which means that the
reconciler wrote "Running" of a job that has been running since, when no check held an order of it.

### CronJobs

State: `row` (status, entry number, schedule with parameters), `entries` and `lastId` (the
scheduler), `op` (who holds `cronMutex`, and how far it is), `synced`, `run` (executions), `crashes`,
and four ghosts: `torn` (jobs scheduled by an update before the synchronisation or by a transaction that
did not commit), `stale` (rows with a number of an earlier process), `edited` (jobs whose row got another plan
than their entry) and `left` (rows that a failure left running).

| Action | Code |
|---|---|
| `UpdateJobConfig`, `Reschedule`, `Unschedule`, `CommitUpdate`, `WriteFails`, `CommitFails` | `UpdateJobConfig`, `updateActiveJobConfig`, `updateSuspendedJobConfig` |
| `SyncCronJob`, `SyncLoadFails`, `SyncJob`, `SyncCommit` | `SyncCronJob` |
| `Fire`, `RunBegins`, `RunFails`, `RunEnds`, `RunGivesUp` | the scheduler and `WrapFunc` |
| `Crash` | the process stops and starts |

Rows are locked by the transaction that read them for update or wrote them; an execution waits for
the lock. Numbers start anew with a process while rows keep the old ones, and behaviours begin with
any rows earlier processes may leave (`LeftBehind`). An update asks for "idle", for "suspended" or for no status,
as `operations/cronjob.go:79-81` passes on what a request leaves out. A statement of the synchronisation that fails
aborts its transaction, which is `CommitFails`. Records of executions are left out.

What the ghosts exempt is true of the code. An update without a status leaves the scheduler on the old plan
(`config.go:102`). When the rows cannot be loaded, the synchronisation ends without an error and without entries
(`config.go:213-217`), and a schedule that is refused is skipped: such rows keep numbers of the process before, and a later
update of one of them removes the entry that has this number now, of another job perhaps. The end of an execution is tried
three times and given up (`util.go:86-106`), after which the row says "running" until the next start or update.

### Checkpoints

State: `stage` (staging directory: data, manifest and marker of a checkpoint, and how far a save is),
`disk` (the same of the final directory), `status`, `flagged` and `pointer` (the rows, their `latest`,
and `latestCheckpoint` of the job), `agent` (where its walk is, and its temporary copy), `processed`
(what it remembers), `skipped` (history: what of that it never copied), `event` (its request in the backend), `scan`, `del` (the scan and the deletion or
cleanup under way), `budget` (what may still happen).

| Action | Code |
|---|---|
| `SaveRemove`, `SaveOpen`, `SaveWrite`, `SaveManifest`, `SaveMarker` | `save` and `record` of the SDK |
| `AgentLook` | `processStaging`, `processManifest` up to the event "uploading" |
| `AgentCopy`, `AgentRemove`, `AgentRename`, `AgentManifest`, `AgentMarker`, `AgentFails` | `copyPathAtomically`, `writeManifest`, `writeSuccessMarker`, `postFailedEvent` |
| `AgentRestart` | the agent's process stops and starts |
| `EventApply`, `EventRead`, `EventClear`, `EventSet`, `EventPoint`, `EventFails` | `updateCheckpointFromInternalEvent`, `refreshLatestForCheckpointJob` |
| `ScanStart`, `ScanList`, `ScanSave`, `ScanMissing`, `ScanDeleted`, `ScanPoint`, `ScanFails` | the background scanner, `scanLocalCheckpointDir`, `persistScan` |
| `DeleteJobCheckpoint`, `CleanupJobCheckpoints` | the handlers, up to the choice of what to delete |
| `markCheckpointDeleting`, `DeleteData`, `DeleteManifest`, `DeleteMarker`, `markCheckpointDeleted`, `markCheckpointDeleteFailed`, `DeleteFails` | the steps of a deletion, `FileSystemScanner.Delete`, its errors |
| `DeleteRead`, `DeleteClear`, `DeleteSet`, `DeletePoint` | `refreshLatestAfterMutation` |

A step is one file operation or one statement. What is written is the number of the save; a copy taken
while a save writes is `Torn` and matches no manifest (its check sum differs), which a scan reports as invalid. A
checkpoint is a file here. The marker of a directory lies inside it and is removed with it; the
SDK's size of a directory leaves the marker out, which the scanner counts, so its manifest does not validate. A scan reads the directory first and
then looks at each entry, whose size, marker, manifest and check sum are one step.

The backend overview (`docs/zh-CN/backend-code-overview.md:389`) says that only a manifest with a
success marker becomes committed, which is `CommittedIsSaved`, and (`:360`) that scans bring
rows and files together, which is `ScanRepairs`. It also says (`:383`) that a deletion only marks the row
and the data plane removes the files; the code removes them within the request, through the scanner
service, and the model follows the code.

`CommittedIsSaved` is about the first save of a name: the marker in the staging directory stays when
the name is saved again. Between two scans rows may be wrong, and a cleanup that reads a
latest flag that is stale keeps the flagged checkpoint and deletes a newer one: true of the code,
and why `ScanRepairs` speaks of the end only. The SDK writes a manifest before its marker. An agent that looks in between
remembers the manifest as handled (`main.go:168`, `:137`), and this save is lost unless the agent restarts or the name is saved
again. `SavesArePublished` says that this is the only way, short of deletions; `FinishedSavesArePublished` does not hold.

### ModelDownload

One thing to download, that is one row. State: `row` (live, deleted or none; its status and the name of
its job), `wants` (users associated with it), `given` (names given out so far, which are numbers), `job` (the
phase of each job), `gone` (names in the reconciler's queue because a job was removed or a round failed), `req`
(per slot a request under way), `rec` (the round of the reconciler), `dataset`, `reused` (history: names that came
back with a deleted row), `events` (how much of what is bounded has happened).

| Action | Code |
|---|---|
| `Share`, `Join`, `StartAnew`, `Restore` | the transaction of `getOrCreateDownload`; only sharing takes no lock |
| `Submit`, `SubmitFails`, `Answer` | `submitDownloadJob` and the status after it, in all three handlers |
| `Retry`; `Resume`, `Rename` | `RetryDownload`; `ResumeDownload` |
| `Pause`, `Stop`, `StopFails`, `PauseWrite` | `PauseDownload` |
| `Leave`, `Count`, `CountFails`, `Stop`, `SoftDelete`, `AdminDelete` | `DeleteDownload`, `AdminDeleteDownload` |
| `RequestFails` | an error that ends a request, a status written without looking at the error |
| `Reconcile` | `fetchJob`, `fetchDownloadRecord`, `handleJobNotFound`, the choice in `syncDownloadWithJob` |
| `CreateDataset`, `DatasetFails`, `UpdateStatus`, `DeleteOrphan`, `RoundFails` | what a round then does |
| `JobRuns` | Kubernetes |
| `Restart` | the process stops and starts: existing jobs are listed anew, removed ones are not |

`Reconcile` is enabled for every job that exists: it is queued at each change and at each
synchronisation of the cache. Job and row are read in one step; the writes come later. Progress, sizes, messages
and logs, the reference count (which nothing reads), pods of removed jobs, and the users and accounts
of a data set are left out. True of the code and left open by the properties: a pause that a late
"Downloading" overtakes leaves a row without a job, which nobody repairs; two resumes
at once start two jobs; a deleted row that comes back keeps its status and the name of its old job; a count of users that fails
removes a row others still want; a data
set whose creation fails is not tried again.

## 3. The runs

| Run | Checks | Instance |
|---|---|---|
| `JobDispatch` | `TypeOK`, `ClaimedOnce` | 2 jobs, 2 replicas, a failure at any step of an activation or a crash |
| `JobQuota` | `ActivatedWithinQuota`, `FirstComeFirstServed` | 3 jobs of equal tolerance, blockers on, a quota for one or none, rounds of two |
| `JobRows` | `RowFollowsCluster`, `ActivatedIsExposed`, `NoPhantomUsage`, `RefinesAdmission`, `NeverRestarted` | a normal and a backfill job, preemption, a delete request, cleaners, a failing write or call |
| `JobProgress` | `PrequeueIsLeft` | fairness, lost signals, failed clean-ups, preemption |
| `PreemptionRoom` | `PRTypeOK`, `PlanHoldsSmallest`, `PlanMakesRoom`, `PendingIsBound` | 2 victims of every size, 2 nodes, a failed deletion |
| `BillingRounds` | `TypeOK`, `ChargedOnce`, `FreeMinutesOnce`, `BalancesAddUp`, `RefinesLedger`, `IssuedOncePerPeriod` | 2 jobs of a user, 2 replicas, a restart, removal, deletion, adjustment or crash |
| `Session` | `ShownAccountIsUsed`, `CallsRunWhereShown`, `ReplaysAreValid`, `EveryRequestSettles` | 2 requests, 2 accounts, expiring access and refresh tokens, another tab once |
| `Approval` | `AutoOncePerWindow`, `ApprovedAfterLock`, `RunningJobsKeepOrders`, `LockIsFollowedUp`, `EndedJobsOrdersSettle` | one of three stories: 2 short orders, a detail page that shows either, deletions and the clock; 2 orders on the tab of a job with 2 requests under way; 1 order of a job that goes through all phases, the tab and the check; a failing request or read |
| `CronJobs` | `ScheduleFollowsRows`, `RunningIsAttended`, `OthersStayScheduled` | 2 jobs, a good and a refused schedule, 1 execution, or 2 of one job, failing loads, statements and commits |
| `Checkpoints` | `CommittedIsSaved`, `ScanRepairs`, `DeletingEnds`, `SavesArePublished` | 2 checkpoints, a save, a deletion or cleanup, one failure of any party |
| `CheckpointSaves` | `FinishedSavesArePublished`, violated | 1 checkpoint, saved once, no failure |
| `ModelDownloads` | `OnlyOrphansRemoved`, `ReadyHasDataset`, `StatusFollowsJob`, `OrphansAreCleared` | 2 requests at a time, 3 jobs, 4 requests, failures or restarts |

`PointLedger` promises, as `JobAdmission` does, what somebody outside sees: `RefinesLedger` says that the transactions of
`Billing` are atomic and keep the rule of payment, whatever is read under which lock. `DebtComesLast` follows from it and is in no run.
`TypeOK` of `Session`, `Approval`, `CronJobs`, `Checkpoints` and `ModelDownload` is in no run: it is proved.

**Findings.** One run shows the code at odds with its own words (`findings` in `PROJECT.json` quotes them).
`CheckpointSaves`: the SDK's documentation says that the agent copies committed manifests to the final directory; one it
meets before the marker is written is not copied.

Two more need no run. The comment of `isJobRunning` (`approvalorder.go:165`) counts Pending and Inqueue as running, its list
holds Running alone, and the check cancels the orders of jobs that wait (`CheckOrder` does).
`preemption.go:185` says that
`buildNodeBackfillPreemptionPlan` "finds the smallest backfill set", and the set also holds the candidates the
search rejected on the way (with sizes 1 and 2 and a deficit of 2, both). `PlanHoldsSmallest` states what holds:
a smallest set is among what is removed.

**Bounds.** Two jobs are enough for every property that relates one job to its blocker, its
victim or a competitor for the quota; three are used where two selected jobs compete with a
third or a third blocks one of two. One quota slot makes every second job wait.
`MaxFaults` bounds failures to one in a behaviour, of any kind the run's `Faults` names and at
any step: the properties are about what a failure leaves behind. Two replicas are
the least that race. With sizes, spare and demand up to 2, a deficit needs one or two
victims, and victims that are too small, exact and too large occur.
`ActivatedWithinQuota` is checked for one loop (leader election), and `FirstComeFirstServed`
without quotas: usage is read again for each candidate, so with a quota a job that is
released between two candidates lets the later one pass. `RowFollowsCluster` says nothing of
a job its owner has asked to delete (an activation may overtake the plan of the deletion, and the
job stays), and `ActivatedIsExposed` assumes that the clean-up of a
failed activation works; the code ignores its error.

`BillingRounds` has one free minute, a period of two minutes and a tick every minute, so that
within three minutes a run is settled in several windows, leaves its free minutes inside one
and is issued twice. Its constraint `OneComplication` lets one thing happen besides: a second
job of the same user, a second replica, or an event, each of which is followed by two minutes.
The properties concern how settlements meet, which two jobs, two replicas, or a loop
and a final settlement show; they hold under the constraint and are proved without any bound. A job that is restarted gets its free minutes again (a
new running timestamp); `FreeMinutesOnce` is therefore stated for jobs with one run.

In `Session` an access token lives one unit and a refresh token two, within three units of time, so
that a request finds either expired; two requests are what a queue behind a refresh needs, two
accounts what a switch needs. Another tab acts once in a page's life (`~mixed` in `Elsewhere`), since after
it nothing is said about accounts until the next login.

The constraint of `Approval` (`OneStory`, in `MCApproval`) makes a behaviour tell one of three stories, each with what its
properties need. Two orders are what dialogs confuse, and two slots let a lock of each be under way on the tab. On
the detail page one request is enough, since there it is the selection that changes while a lock is under way; its orders are
short, the window is one unit in two units of time. What happens to a job concerns its orders alike, so one order of it is
enough; the job may start queued or running and goes through every phase any number of times. Nobody locks for ever but on the
detail page. In the last story the check begins while no lock dialog was opened (an order may be rejected meanwhile). The constraint cuts off only what somebody chooses to do, and nothing that
fairness asks for, so that what it leaves are behaviours of `FairSpec`. The list of all
orders (`Page[a] = "list"`) differs from the tab in that its
dialog stays mounted while it is closed; no run has it, the theorems cover it. `LockIsFollowedUp` says
nothing of the detail page: there, closing the dialog clears the selection, and a lock answered
later is reported to the reviewer and not followed up.

Three entries per process let `CronJobs` synchronise two jobs and reschedule one. Every combination of rows an
earlier process may leave is an initial state, which is where a restart leads: behaviours end there. Executions of different jobs
share nothing but the mutex, so one job has all of them; two of it overlap only while the other job
is suspended (`OneStory`, in `MCCronJobs`). `RunningAttended` is proved without these bounds.

`Checkpoints` bounds what happens rather than when (`Budgets`, spelled out in `MCCheckpoints`): a
checkpoint saved again under its name, a second one saved, a second one saved while the first may be deleted or
cleaned up, the only one deleted, the newest or the older of two deleted or cleaned up. Each is a set of initial
states, with one failure of any party (agent, event, scan, deletion) except in the third, where the
crossing of a save and a deletion is the point. Two checkpoints are what the latest flag and a cleanup that
keeps one need. Scans are not bounded.

In `ModelDownloads` two requests meet, of one user in two windows; requests of several users differ only
in whether others are left when one leaves, which the same user does by coming back. Three names let a
row leave two jobs behind. Four events are a creation, a pause and a resume with a failure or a restart, or a
deletion with a return and one more. The run allows that it stops: names and events run out.

**Fairness.** `FairSpec` is weakly fair to the reconciler's worker, to each step of each
watcher loop (the ticker makes one enabled at any time), to running requests and to Volcano.
Nobody has to submit or delete, a tolerance need not elapse and no failure has to happen.
`JobProgress` uses it: a queued job is activated, deleted or revoked at last
because a round always follows and jobs that hold the quota end. `Preemption` is fair to the
loop, to terminating pods, to the reconciler and to binding, not to the end of a victim.
`Session` is fair to answers (a request that is not answered times out after ten seconds), to the
callbacks of the browser and to loading the page it was told to load; `Approval` to requests under way, their
callbacks and the reconciler; `Checkpoints` to a save that began, the agent's poll, requests under way and the scanner
(its interval is set, and the job is in its batch: rounds take jobs by `updated_at` up to a limit, so one that
is not written may wait for ever behind more jobs than a batch holds); `ModelDownload` to requests and rounds
under way, and strongly to the reconciliation of each job that exists, whose key competes with others for one
worker and is queued again at every synchronisation of the cache. Nobody has to save, delete, press a button, log in or update anything.
`CronJobs` states no fairness, since its properties are of states and steps: that a row does not say "running" for ever
follows from `RunningIsAttended` as long as executions return.

## 4. The proofs

`JobLifecycleProofs` proves, for every choice of the constants allowed by
`ConfigAssumption` (any number of jobs, replicas and failures, any quota and blocking
relation):

| Theorem | Statement |
|---|---|
| `TypeCorrect` | `Spec => []TypeOK` |
| `ClaimsSound` | `Spec => []ClaimInv` |
| `AtMostOneClaim` | `Spec => []ClaimedOnce` |
| `NoSecondRun` | `Spec => NeverRestarted` |
| `QueueImplementsAdmission` | `Spec => RefinesAdmission` |
| `RowsSound` | `Spec => []FlowInv` |
| `RowsFollow` | `Spec => []RowFollowsCluster` |
| `NoPhantoms` | `Spec => []NoPhantomUsage`, if nothing restarts |
| `Reachable` | `Spec => []ActivatedIsExposed`, if nothing restarts and clean-ups work |
| `QuotaRespected` | `Spec => []ActivatedWithinQuota`, if `Undisturbed` (below) and `QuotaAssumption` |
| `ServedInTurn` | `Spec => FirstComeFirstServed`, if `UniformTolerance` |

*Claims.* `ClaimedOnce` is not inductive: a watcher in the middle of an activation
commits without looking at `claims`. `ClaimInv` says what makes that safe. A row being
activated is still committed as Prequeue, since everybody else who writes rows waits for the
lock; only one watcher holds it; a row that is Prequeue was never activated, since nobody
writes Prequeue but the submission, once. The last part needs that the reconciler cannot write
Prequeue back: `StatusOf` turns a waiting row it read into Pending. Each action preserves
`ClaimInv` (its parts are checked here only, as are `LockInv`, `SettledAdvances` and `RefreshInv` below)
through one of a few frame lemmas (what a step leaves of rows, claims and
watchers). `NoSecondRun` follows: whoever creates a cluster job is either a submission that
has not queued anything or a watcher whose current job has no claim. For the refinement,
`StageOf` maps the rows, claims and the history of the queue to the stages, and the same
lemmas show that each step moves at most one job and only along the allowed edges.

*Rows.* `FlowInv` says why a row is right when nothing about its job is in flight. Whatever changes a job in the
cluster puts it into the reconciler's queue or happens before anybody could look; what the reconciler holds
is what the cluster says, or the job waits in the queue again; it lets go of a job only when the row says
the phase (or, of a job that is gone, no longer counts). A submission that has not reached the cluster has no
row, no event and no deletion, and a row that a deletion is about to write is not Prequeue. `NoPhantoms`
leaves restarts out because a new process does not reconcile what was deleted before it listed the jobs.

*Ingresses.* A queued job in the cluster has its ingresses unless a watcher is just creating
them (`ReachInv`). This takes that a failed activation removes its job and that no crash hits between the job and
the ingresses: both fail in the code (it ignores the error of the clean-up), hence the hypotheses.

*Quota.* A round selects on the usage it read and claims much later. `RoundsFit` says that what an owner was
given through the queue and what the round still holds for it fit together: a selection checks
that, a commit moves a request from one to the other, and everything else only gives room back. For the latter
a row that has left the quota must stay out (`Settled`): its job is gone or over in the cluster and in
what the reconciler holds, which needs `FlowInv`. `Undisturbed` is one watcher (two select
on the same usage), no deletions of normal jobs by their owners (a row written Deleted is revived by a reconcile that read it before) and no
failed exposure (its clean-up makes the reconciler free the row that the next activation of the same
job writes). TLC finds a violation when any of the three is dropped. Commits that fail, evictions,
cleaners, restarts, preemption and lost signals are covered, and the sums are over any finite set
of jobs with any requests.

*Order.* `Turn` says that a round that holds a candidate holds every alike one ahead of it that is still
queued, and has selected that one if it selected the candidate. A scan keeps this because alike jobs
have the same blockers and patience ends in the order of the queue (`InPatience`, the one use of
`UniformTolerance`; without it TLC finds a violation); a round then takes the first of its page, and drops only
rows that are no longer queued. A commit is of the first of its batch, so nobody alike was ahead. This
needs no assumption on replicas, failures or deletions.

The module also proves of `Preemption`, for finitely many victims, any sizes, nodes, resources and failures
(`PreemptionAssumption`):

| Theorem | Statement |
|---|---|
| `PlanTypeCorrect` | `PRSpec => []PRTypeOK` |
| `PlansMakeRoom` | `PRSpec => PlanMakesRoom` |
| `PlansHoldSmallest` | `PRSpec => []PlanHoldsSmallest` |

*The search.* A plan is what a recursive function returns, of which nothing is known before it is shown to exist.
`SearchExists` builds it in stages, by the number of candidates ahead: a partial function that is right up to a stage
extends to the next. `SearchIsRight` then says what a call returns, for every position, count, list
and sum: nothing, exactly if no choice of that many candidates ahead covers the deficit with the sum so far; else the list it was
given, extended by candidates ahead in ascending order, with such a choice among them. It is shown
by taking the call with the fewest candidates ahead for which it fails, since the prover has no induction
over a predicate. From it `SubsetIsSmallest`: the first size that succeeds is that of the smallest sets that would do.

*The plan.* The candidates of a node are the ascending sequence of its running rows, which exists and is unique
(`AscendingFacts`). So `NodePlan` holds a smallest relieving set and is empty exactly if there is none
(`NodePlanFacts`), its jobs are distinct and of one node, which `PRTypeOK` keeps while the plan is worked off. The best plan is one
of the nodes' plans (`BestPlanFacts`: the plans are finitely many, and `Better` is total on them), and
when the rows are not stale what it takes away is what the deficit lacked.

`BillingProofs` proves, for any number of jobs, users and replicas, any prices and
configuration and any number of events (`BillingAssumption`):

| Theorem | Statement |
|---|---|
| `BillingTypeCorrect` | `Spec => []TypeOK` |
| `LocksSound` | `Spec => []LockInv` |
| `OneIssuePerPeriod` | `Spec => IssuedOncePerPeriod` |
| `SettlementsAdvance` | `Spec => SettledAdvances` |
| `EachMinuteOnce` | `Spec => []ChargedOnce` |
| `FreeMinutesGivenOnce` | `Spec => []FreeMinutesOnce` |
| `PointsConserved` | `Spec => []BalancesAddUp`, for finitely many jobs |
| `DebtIsLast` | `Spec => DebtComesLast`, for finitely many jobs |
| `LedgerImplemented` | `Spec => RefinesLedger`, for finitely many jobs |

The argument. When a transaction commits, it writes what it computed steps ago. `LockInv` says
that this is still right: whoever holds a copy of a job holds its lock, and the copy is the
settlement of the bill as it is committed; an issue past its first step holds the account,
which is still due. A step of one transaction never takes a lock from another
(`LockKept`), so each action preserves `LockInv` by one of three lemmas: a transaction begins or
ends without copies, goes on with those it has, or adds one under a new lock. From this
follows `BillStep`: a bill changes only by a settlement with something to settle. The
rest is arithmetic on one bill: the window starts after the last settlement, so its minutes are
new ones (`ChargeStep`, with the cardinality of a disjoint union), and the free minutes that
are left over end at the same minute in each window (`FreeStep`).

The balances change when transactions commit copies they made steps ago, of several jobs and users at
once. `CopyInv` says of each transaction under way that its copies are made under locks (`Work`), that it is where it may lock next (`Place`),
and that what they would change of what a user holds and was billed adds up to
the cost it has still to take from that user, and to nothing otherwise (`Moved`, `Owed`). A step
of one transaction leaves the copies of the others right, since it commits only rows it has locked.
At the commit nothing is owed, so the sum of the balances and of the bills, over all jobs of a user, is
unchanged; an issue and an adjustment change it by what they grant.

*Ledger.* `PointLedger` knows no rows, copies or locks: in one step every user pays what it is billed, by a
rule of its own for free points, extra points and debt. `Billed` maps the bills of a user's jobs to their sum. A tick pays job
by job, so what a commit writes must be what one payment of the sum would leave. That is `Paid`, the last part of `Work`:
the copies of a user's balances are what one payment leaves of the committed ones, of as much as
they fell (`PaidMore`: a payment after a payment is a payment of both). How much they fell at a commit is what was billed, since the
points add up before and after it. A debt comes last for the same reason (`PaidDebt`).

`SumProofs` has what both modules need of `MapThenSumSet`: the library defines it by a recursive function, of
which nothing is known before it is shown to exist. That, and how a sum changes with one more member, are proved
by taking a least set for which the claim fails (the induction theorems of the library take an
operator, which the provers cannot instantiate).

`SessionProofs` proves, for any number of requests and accounts and any lifetimes:

| Theorem | Statement |
|---|---|
| `TypeCorrect` | `Spec => []TypeOK` |
| `RefreshesDoNotOverlap` | `Spec => []RefreshInv` |
| `ReplayValid` | `Spec => []ReplaysAreValid` |
| `AccountShown` | `Spec => []ShownAccountIsUsed` |
| `CallAccount` | `Spec => []CallsRunWhereShown` |

The argument. `RefreshInv` is inductive with the types: only `StartRefresh` sets the flag, under the guard
that it is down, and only the two ends of a refresh take requests out of the queue, all of them. A replay is
good since a request on its way was sent in the unit that runs, so the token it carries was made in it.
The accounts need that tokens in answers of a check, a switch and a refresh are those the page
would store: as long as nothing is `mixed`, the refresh under way was asked for with the account
shown.

`ApprovalProofs` proves, for any number of orders, jobs, users, reviewers and pages of each kind:

| Theorem | Statement |
|---|---|
| `TypeCorrect` | `Spec => []TypeOK` |
| `ApprovedLocked` | `Spec => ApprovedAfterLock` |
| `AutoApprovedOnce` | `Spec => []AutoOncePerWindow` |
| `RunningKeepOrders` | `Spec => RunningJobsKeepOrders` |

The argument. An approval is written long after its lock: `GrantInv` says that a lock answered as done was
written, and that every approval under way is for an order whose lock was written by that reviewer, or, on a detail page,
comes after the lock of an order of that page; for the latter `PageInv` says that pages select and show only orders of
theirs. `WindowInv` says that a creation past the eligibility check still has no recent
automatic approval of its user, which holds because a user's requests do not overlap. `QuietInv` says that of
a quiet job the row says "Running", the reconciler holds nothing but "Running", and the check no order, unless
it could not read the row: whoever looked at an earlier phase has had its say. `OrderAssumption` has the orders of a
detail page belong to one job, as its related orders do.

`CronJobProofs` proves, for any number of jobs, schedules, executions, failures and restarts:

| Theorem | Statement |
|---|---|
| `CronTypeCorrect` | `Spec => []TypeOK` |
| `ScheduleSound` | `Spec => []ScheduleFollowsRows` |
| `OthersKept` | `Spec => OthersStayScheduled` |
| `RunningAttended` | `Spec => []RunningIsAttended` |

The argument. Removing by number is safe only if numbers mean what rows say: numbers of entries are
not larger than the last one given (`NumberInv`), each entry of an untorn job is the one its row or the
operation under way names, with the plan of the row unless that was edited (`EntryInv`), and a number in a row that got it in
this process, or that the operation under way has made, belongs to no other job's entry (`OwnerInv`). Rows that a synchronisation did not reach
are not covered by it (`stale`), which is why `OthersStayScheduled` exempts their updates. The operation under way is part of each,
because between the change of the scheduler and that of the row the two disagree.
`RunningIsAttended` is inductive with the types alone: each step that writes "running" belongs to an execution, each that
ends one writes the row or counts it in `left`, and however the synchronisation ends it counts what it leaves.

`CheckpointProofs` proves, for any number of checkpoints and any budgets:

| Theorem | Statement |
|---|---|
| `TypeCorrect` | `Spec => []TypeOK` |
| `OnlySavedCommitted` | `Spec => []CommittedIsSaved` |

The argument. A row becomes committed in two ways: through an event, whose sender saw the marker many
steps ago, and through a scan, which saw a marker in the final directory. `SavedInv` follows both: a staged marker is
never removed; the agent past its look is at a checkpoint that was marked, and writes the final marker for
that one; a request of the agent's exists only while it waits for the answer; what a
scan holds valid had a marker when it was listed.

`ModelDownloadProofs` proves, for any number of users, requests under way, names and events:

| Theorem | Statement |
|---|---|
| `TypeCorrect` | `Spec => []TypeOK` |
| `OrphansOnly` | `Spec => []OnlyOrphansRemoved` |
| `DatasetFirst` | `Spec => []ReadyHasDataset` |

The argument. The reconciler removes a name it looked at steps ago. That name had a job that had ended, and a
job by that name can come only from a request that still has to submit it. `FreshInv` says that there is none:
a name to be submitted is new to the cluster and to the reconciler and belongs to one request, unless it
came back with a deleted row; `NameInv` gives the reason, names are given in order and everybody who
holds one holds one that was given. Most actions preserve the conjunction because they are `Quiet`: they
give no name, bring no row back and create no job. Those that are not have a lemma each, or, where a name is given, share
`Gives`. `ReadyInv` adds to `ReadyHasDataset` that a round that is to write "Ready" has passed the data set.

`QuotaRespected` and `ServedInTurn` say nothing of the cases their hypotheses leave out, in which the properties
fail. Only model-checked: liveness, which is out of the prover's reach, stays with TLC
(`PrequeueIsLeft`, `PendingIsBound`, `EveryRequestSettles`, `LockIsFollowedUp`, `EndedJobsOrdersSettle`,
`ScanRepairs`, `DeletingEnds`, `SavesArePublished`, `StatusFollowsJob`, `OrphansAreCleared`).

## 5. Not modelled, and the plan

`PROJECT.json` lists every component with the reason. The configuration (switches, limits,
quota) is constant within a behaviour. Paging of the queue, profile data, mails and experiment
rows are left out. Most of the repository's TypeScript is forms, tables, charts and their layout around one
query or one mutation; what of it keeps state across awaits and decides something is in `Session` and
`Approval`, and the share of the frontend's lines that the models stand for is small for that reason.
Two browser windows of one user, several backend replicas of the cron manager (which overwrite each
other's entry numbers) and data set orders are left out.

Of checkpoints, these are left out: directories, the tracker file, temporary names a scan may
list, manifests written in part, rows that change while the agent looks at one
checkpoint (a step), a restart of the agent while the backend handles its event, two scans or two deletions of a job at a time, a scanner service that goes
on deleting after its caller gave up, cleanup by age or size, restore, artifacts and metadata, and an
agent whose source is its destination.

Of what the repository says and the models left open, these are true of the code: direct submissions may
exceed a quota together, a deletion may be overtaken by an
activation, rows of jobs deleted while no process runs stay occupied, a final settlement may be lost.

Planned, in this order:

1. `Billing`, the rest: changes of price and of the billing status, issues on request, several
   accounts.
2. Checkpoints that are directories, and scans that overlap.
