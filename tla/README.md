# Verification of the NPD portal

TLA+ modules, TLC runs and TLAPS proofs for the programs of this repository: the
portal that lets users create and operate virtual machines on a Proxmox
cluster (`portal/app`), the one-shot reinstallation over PXE (`infra/pxe`) and
the creation of cluster users (`scripts/create-cluster-user.py`). `PROJECT.json` lists components, runs, mutants, the
source lines of every definition, hazards, findings and theorems; this file
explains them.

## 1. Inventory

| Component | State | Operations | Interacts with | What is hard |
|---|---|---|---|---|
| Operation worker (`workers/operation_worker.py`, `operations/services.py`) | rows of `operations` (status, phase, UPID) and `virtual_machines` (status, placement) | `run_once`: select a row with SKIP LOCKED, then place, prepare, poll or reconcile it in transaction A; call the provider outside any transaction; store the result in transaction B | PostgreSQL, the adapter, other workers | crash between commit and call, lost answers, two workers on one row, late answers |
| Proxmox adapter (`proxmox/http_adapter.py`, `client.py`) | none | each command reads the VM (GETs), then answers, raises or POSTs | Proxmox API | check-then-act over HTTP, timeouts of unknown outcome |
| VM and operation requests (`virtual_machines/services.py`, routers, `web/router.py`) | same rows, row locks, unique `idempotency_key` | `create_vm`, `enqueue_vm_operation`, commit or rollback by the router | worker, quota | races on key, quota and VM row |
| Compute quota (`compute/`) | `user_quota`, plans | usage, limits, starter quota | requests, identity | concurrent creations; what counts |
| Dispatch grace (`DISPATCH_GRACE`, `workers/config.py`) | age of `updated_at` | take up a dispatch marker | worker | a call longer than the grace |
| Fake adapter (`proxmox/fake.py`, `workers/adapter.py`) | VMs, power states and tasks in memory | each command changes the memory and succeeds | worker in its default mode | memory is lost at a restart, rows are not |
| Worker queue order | `updated_at` | ORDER BY, LIMIT 1 | worker | starvation, VMID reuse |
| Identity (`identity/`) | users, sessions | OIDC callback, lookup, logout, CSRF | all routers | first-login race, expiry, revocation |
| SSH keys (`ssh_keys/`) | keys, unique fingerprint, unique name per owner | import, generate, list | requests | insert race |
| Install-once (`infra/pxe/*.sh`, `boot.ipxe`) | flag files, the web server's log, the watchers' offsets | create, batch, watcher, fetch by a node | PXE clients | watchers race for one flag; lines of the log read twice or too early |
| Cluster users (`scripts/create-cluster-user.py`) | passwd on several hosts | next UID, create on each host | none | partial failure, UID race |

Ansible roles, monitoring, nginx, templates, migrations, evidence and
documentation keep no state of their own to model.

What makes each component correct:

- worker: a command is sent at most once; a UPID belongs to its step; no row is
  left where no branch takes it; settled rows stay; a VM never boots before it
  is configured; `deleted` means gone; every operation settles or ends where
  only reads follow;
- requests: one operation per key, one active operation per VM, the plan's
  limits hold, the answer belongs to the request, no orphan VM row, requests do
  not wait for each other in a circle;
- grace: a running call is never taken for cut off;
- fake adapter: what it forgot is never taken for done, and operations end;
- queue: a row that cannot be carried out does not starve the others; a
  placement stays;
- identity: one user row per subject, a revoked or expired session never
  authenticates; SSH keys: one row per fingerprint and owner; install-once: a
  machine installs once per request; cluster users: one UID per user.

## 2. Plan

| Order | Module | What | State |
|---|---|---|---|
| 1 | `OperationWorker` | rows, workers, adapter calls, provider | done |
| 2 | `VmRequests` | concurrent HTTP transactions | done |
| 3 | `DispatchGrace` | time behind `GraceCoversCall` | done |
| 4 | `OperationQueue` | order of rows, VMID reuse, rollback at the head | done, proved |
| 5 | `VmPromise`, `OperationPromise` | abstract specification; `OperationWorker` implements it | done, proved |
| 6 | `Sessions` | OIDC login, lookup, expiry, revocation, starter quota | done |
| 7 | `SshKeys`, `InstallOnce`, `ClusterUser` | the smaller components | done |
| 8 | `LocalWorker` | worker with the fake adapter; implements `VmPromise` too | done, proved |
| 9 | `Portal` | session check, key requests, logins and logouts composed | done |

Every safety property of the runs is proved; what is left to TLC is ENABLED and
liveness (end of section 6).

## 3. Modules and their correspondence to the code

### `OperationWorker` (through `MCOperationWorker` and `MCOperationPromise`)

A row of `operations` is `opStatus` (status), `opType`, `opVm`, `opTask`
(`provider_task_id`: the step whose UPID it is) and the column `phase`, kept as
a marker `opMark` and a step `opStep`:

| `phase` in the code | `opMark` | `opStep` |
|---|---|---|
| `clone`, `configure`, `shutdown`, `await_task`, NULL | `plain` | the step |
| `dispatch_create_S`, `dispatching`, `dispatch_S`, `dispatch_reboot_S` | `dispatch` | S |
| `reconcile_create_S`, `reconcile`, `reconcile_S`, `reconcile_reboot_S` | `reconcile` | S |
| `poll_backoff`, `poll_backoff_create_S`, `poll_backoff_S` | `backoff` | S |
| `needs_review_create_S` | `review` | S |
| `complete` | `complete` | last step |

A transaction is one action, since the row stays locked (`FOR UPDATE`) for all
of it. Transaction A also reads the provider (nextid, task status, power
state) while it holds the row. Read and commit are one step here: the provider
does not look at the database, the read only constrains this row and its VM,
and nobody else writes them meanwhile (at most one active operation per VM), so
moving the read to the commit only exchanges it with steps of other VMs and of
the provider; a provider change between read and commit gives the same row as a
read before the change. Settling on slightly older provider state is covered by
`GuestPowerOff`, which may come right after the commit.

| Action | Code |
|---|---|
| `CreateVm`, `EnqueueVmOperation` | the commits of `create_vm`, `enqueue_vm_operation` |
| `ChoosePlacement` | first pass of `start_create_vm_operation` |
| `Prepare` | `prepare_create_vm_dispatch`, `prepare_start_vm_dispatch`, `prepare_lifecycle_dispatch` |
| `PollRunning/Succeeded/Failed/Error` | `refresh_create_vm_operation`, `process_*` with a UPID, and their `except` branches |
| `ReconcileConfirmed/Unknown` | `reconcile_*_operation` and their `except` branches |
| `Probe`, `Post`, `Receive`, `CallFails` | an adapter command between the transactions |
| `StoreTask/Done/InProgress` | `finish_*_dispatch` |
| `StoreUnknown` | the handlers of a raised call |
| `StoreRefused` | transaction B raises because the row moved on |
| `Crash` | the process dies during a call, or transaction B cannot commit |
| `Accept`, `Drop`, `TaskOk`, `TaskFail` | Proxmox (external) |
| `ForeignLock/Unlock`, `GuestPowerOff` | backups, snapshots, guests (external) |

`wAt` is where a worker's command stands (`probe`, `post`, `sent`, `reply`);
`flight` holds POSTs the provider has not acted on yet, which survive the
worker; `posts` is a history variable that counts POSTs.

Left out: `attempts`, `last_error_code` and timestamps (they decide nothing but
the timing), the in-process branches of `process_*` for pending rows that
`run_once` never reaches, and request validation. A failed clone is assumed to
leave no VM behind. A task that ends OK has its documented effect. The GETs of a
command (the resource, then its status) are one step, so the provider changes
between a command's reads and its POST, and not between two reads. A resize also raises for
a disk that is larger than requested or has no valid size; the row then goes the way of `CallFails`.

`GraceCoversCall` says whether a dispatch marker can be taken up while the
call is still running. TRUE is what the comment at
`operation_worker.py:31` wants; `DispatchGrace` says when it is so.

### `VmRequests` (through `MCVmRequests`)

One HTTP request is one transaction at READ COMMITTED, one SQL statement per
step: `LockQuota` or `LockVm` (`FOR UPDATE`), `Lookup` (the key), `Check` (quota,
active operation, status), `Insert` (flush), `KeyTaken` (IntegrityError and
rollback), `Resolve` (second lookup without locks), `Commit`, `Refuse`
(router's rollback), `Abort` (client or process gone). The unique index makes
`Insert` wait for an uncommitted row of the same key. The four limits of the
plan are kept as one count and one sum; the sum is the number of `Units` (a VM has
one for each unit of its size), so that it needs no recursion.
`SeedsAssumption` says that the VMs that were there before fit the plan. The worker is present by the commits it
may make (`WorkerCommits`, `Outcomes`); that the worker makes no others is
`CommitsAreOutcomes` of `OperationPromise`.

### `DispatchGrace`

A clock in seconds: `age` of the marker, the wait the command is in (`call`) and
the time spent in it. The HTTP client bounds every wait, so a wait that used up
its timeout stops the clock until it ends.

### `OperationQueue`

`queue` is the table in the order of `updated_at`; `stage` is what a row waits
for. `Selected` is the SELECT of `run_once` with its WHERE (delays by `Elapse`),
ORDER BY and SKIP LOCKED. A transaction that commits puts its row at the end
(`Touch`, `Update`), one that rolls back leaves it where it is. The choice of a
placement is two steps, because the provider names the VMID (`ChooseTarget`)
before the row is written (`SavePlacement`, where `provider_vmid` is UNIQUE). A
creation is only its clone, a deletion stands for all other operations: what
follows the placement has the same effect on the queue. `Clone`, `CloneLost`,
`Destroy` and `ForeignVm` are Proxmox (external).

### `VmPromise`, `OperationPromise` (through `MCOperationPromise`)

`VmPromise` says what a user may rely on, without workers, phases or faults: an
operation is `Ask`ed on a VM that has none open and shows the right status,
its commands are `Send`t once, in the order of its plan and while the VM shows
that they are under way, the status `Advance`s along the path of the operation,
and its end is success; or it `Fail`s for good. It translates no code, so it
has no source lines. `OperationPromise` maps the worker to it: pending and
processing are both open, `posts` is `sent`, `virtual_machines.status` is
`shown`.

`OperationPromise` also ties the worker to `VmRequests`, of which it instantiates the
tables as committed: `provisioning` is `pending` there, since no request tells them
apart. `CommitsAreOutcomes` is what `VmRequests` takes for granted about the
worker. The converse, that a request commits only on a VM that shows the
right status and has no other active operation, as `CreateVm` and `EnqueueVmOperation`
take it in one step, is `CheckedAtCommit` of `VmRequests`.

### `LocalWorker`

The worker as it runs by default (`WORKER_ADAPTER=fake`): one process, so a
command (`Command`, then its answer in `call`) and the transactions
(`RunOnce`) alternate. `fake` holds `created_vms`, `_deleted_vmids`,
`_power_states` and the known tasks; `Restart` replaces it by `NewFake`
and drops the command. A task of an earlier process is known by its id (`Known`,
the second half of `get_task_status`). `LoseResult` is a transaction B that
cannot commit. The module implements `VmPromise` as well, with the history
variable `sent`; `cut` marks operations whose command had no known result at a
restart.

### `Sessions` (through `Portal`)

One request is one transaction at READ COMMITTED and one step per statement, as
in `VmRequests`. A login (`Callback`) selects the identity, inserts user and
identity (waits for an uncommitted one, IntegrityError on a committed one), adds
the starter quota, checks `is_active`, and commits with its session; after an
IntegrityError `auth_callback` starts once more. A page reads session and user
(`get_current_user`) and writes `last_seen_at` in a step of its own (`Touch`). A
logout passes the CSRF check, revokes, commits and only then asks the identity
provider for its endpoint (`Redirect`). `Expire` and `Deactivate` are the clock and the operator. An operator may also
switch the starter plan at any time; one statement alone reads it, so this is a choice in that
statement (`StarterPlans`).

### `SshKeys` (through `Portal`)

One import or generation is one transaction: SELECT by name, SELECT by
fingerprint, the INSERT as one step for each unique index, commit, or, after an
IntegrityError of an import, rollback and the SELECTs again (`Resolve`). A key
is a model value; a generated key is new.

### `Portal` (through `MCPortal`)

The requests of one portal together: it extends `Sessions` and instantiates
`SshKeys` with its pages as requests and its user rows as owners. A page that
`get_current_user` accepted may go on as an import or generation for the user it
found (`SubmitKey`); the check is not repeated afterwards, so a logout, an
expiry or a deactivation may fall between it and the commit of the key.

### `InstallOnce`

`flag` is the file of a MAC, `log` the lines a watcher's `grep` lets through,
`mine` what a watcher keeps (its offset, the size it measured, and, since the log only
grows, the lines it has read as the numbers of the `line` in hand and of the last one, `end`). A round of a watcher is `Measure`, `Read`, for each line
`TestFlag` and `Move`, then `NextRound`. Every watcher handles every flag; the `mv`
of the slower of two fails, and `set -e` ends it. `dd` reads to the end of the log,
past the measured size. `Boot` is a node that fetches its flag. `World` names what
people and nodes do: authorize while a watcher runs (`overlap`), let time limits
pass (`expire`), boot or authorize within a second (`hasty`). A node fetches whatever
flag the web server has, also when the watchers have reached their limits:
`boot.ipxe` asks nobody.

### `ClusterUser` (through `MCClusterUser`)

`passwd` of each host, `dirs` (the owner of a name's directories) and the
variables of each run. `Start` chooses the way to a UID, `LookUp` asks
condor01, `ReadPasswd` reads one host after the other and `Allocate` takes the
first free UID. On each host the script first looks (`CheckUser`) and then runs
`useradd` (`AddUser`), which refuses a name or UID the host has; the host may fail
before or after either. Execute nodes are handled side by side, and a failed one
does not stop the others. Administrators create users only with this script;
`useradd` on a host by hand is outside the model.

## 4. Runs

| Run | Bounds | Shows |
|---|---|---|
| `worker_safety` | 1 VM, 4 operations, 2 workers, all faults, guests included | sent once, UPID of its step, nothing stranded, no boot before configuration, `deleted` is gone, no hidden run, settled rows stay; the worker implements `VmPromise` |
| `worker_live` | 3 operations, faults but guests and locks, weak fairness | operations settle; completion is noticed; the status shown is the power state |
| `worker_no_grace` | 3 operations, all faults, calls may outlive the grace | a creation's UPID is of its step all the same; the worker commits only what `VmRequests` takes it to commit |
| `worker_stale_reboot` | 2 operations, calls may outlive the grace | finding 1 |
| `requests` | 3 requests, 2 users, 2 keys, 1 existing VM, 2 sizes | keys, locks, quota, answers for the VM or size asked for, no circle of waiting |
| `grace_default` | 10 s, 3 requests of 3 waits | a running call keeps its row |
| `portal` | 2 logins of 2 people, 2 pages that may send keys, 1 logout, lost requests, no plan | one whole account each, one retry is enough, an ended session is refused and stays ended, keys are distinct and of their own user, a 409 tells the truth, no circle of waiting |
| `queue` | 2 VMs, 2 workers, 4 VMIDs, all faults, weak fairness | placements stay; only a VMID that is saved and offered again holds pending rows up |
| `queue_jam` | 2 VMs, 1 worker, a lost clone | finding 2 |
| `install` | 2 authorizations, 2 nodes, 4 boots, overlapping watchers and time limits, weak fairness | one installation per flag until its watcher's limit, no fresh flag moved, a served flag is moved |
| `users` | 3 runs, 2 people, 2 UIDs, 1 execute node | one UID per name, one name per UID, right owner, `Done.` is true |
| `local` | 1 VM, 4 operations, 2 restarts, weak fairness | the forgotten is not confirmed; implements `VmPromise`; operations succeed, or were cut off, or wait for an operator |

`TypeOK` documents the values of a module's variables. It is proved, as a theorem or
as the part of an inductive invariant, for `OperationWorker`, `OperationQueue`, `VmRequests`,
`ClusterUser`, `LocalWorker`, `InstallOnce` and `Portal`, and in no run's list.

Why the bounds are enough. Operations of different VMs share nothing in these
modules but the workers, so one VM shows all interference; four operations cover
the longest chain (create, shutdown, start or reboot, delete) in which each
works on what the previous left; two workers suffice for one to reconcile or
poll under the other's call. Whether
calls end within the grace period has runs on either side (`GraceCoversCall`). Three requests are needed for a loser of
a key race to meet a third party, and for two stops on two VMs with one key to follow
the creation of the second VM, so that an answer for the wrong VM is possible. Sizes 1
and 3 under a plan of 3 VMs and 4 units let the sum and the number refuse alone; at
most one request is of size 3 and the VM there before is of size 1 (`FewLarge`, a bound). Two logins, of one
person or of two, race for the row of one identity, and the loser retries; two
key requests meet in either index, and the loser reads again. Two watchers
race for a flag; a third only repeats the roles of the two. Three runs of the
user script are two that race and one that repeats; two UIDs are the fewest that two people
can share wrongly, and bastion01, condor01 and one node are one host of each
group. Two restarts let an operation lose its command and be reconciled by a
process that forgets again. Deadlock is not checked where a finite set of
operations, requests or runs really ends, which is every module but
`DispatchGrace`. Symmetry is used in safety runs only.

Fairness. `run_worker` is a loop that never returns, sleeps at most 2 s and picks
the least recently updated row, so each enabled step of a row is eventually taken
(weak fairness per row and step; that a row is in fact reached, and the one
case in which it is not, is the subject of `OperationQueue`, whose fairness is per
worker and not per row). Every HTTP wait has a
timeout, so calls end. The provider is assumed to answer and to finish tasks,
and a read of it not to fail for ever. Nothing is assumed of clients, faults or
crashes. `InstallOnce`: scripts and watchers go on
(they poll every second); nodes are not owed a boot. `LocalWorker`: as
`run_worker`; restarts and requests are not owed. `VmRequests` and `Portal` need
no fairness: a request takes a bounded number of statements, so it is enough
that while any request is under way one of them can take its next step
(`SomeoneGoesOn`). That has two halves: only what `Waits` names holds a request up,
which is said with ENABLED, and never do all requests wait (`NoCircle`), which is proved.

## 5. Findings

The two runs that expect a violation show where the code and its documentation
disagree:

1. `worker_stale_reboot`: `finish_lifecycle_dispatch` does not compare the step of
   the answer with the step of a reboot row. If the answer to the shutdown
   outlives `DISPATCH_GRACE`, its UPID is stored as that of the start, and the
   reboot succeeds without a start. `vm.create` compares the phase and is not
   affected (`CreateTaskMatchesStep`).
2. `queue_jam`: a VMID saved for a clone that was lost stays in the table while the
   provider offers it again. Saving it for the next creation violates the unique
   index, the transaction rolls back with `updated_at` unchanged, and the same
   row is at the head of the queue for ever. Two workers that are offered one VMID
   can reach the same state without a lost clone, while the row that has it
   waits behind the head; `TakenUnlessJammed` shows that, while VMIDs are left, there is no other way.

Limits the modules show with other constants or formulas:

- `DispatchGrace` with `Timeout = 299` and `Waits = 1`: the settings accept timeouts with
  which a running command is taken for cut off (`RunningCallIsNotCut` fails),
  against the comment at `operation_worker.py:31`; `GraceCoversEveryCall` gives
  the condition under which it is not.
- `OperationWorker` with `Faults = {"taskfail"}`: a creation that fails after the clone leaves
  a disk that no quota counts. `compute-quota-and-vm.md:157` wants it counted,
  `02-compute-ssh-keys.md:64` describes the code.
- `SshKeys`: a generation that loses a race for its name ends in `error` (500),
  where `02-compute-ssh-keys.md:155` promises 409; imports answer 409
  (`Integrity`, `Resolve`).
- `InstallOnce`: a watcher ends after its time limit (`install-once-watcher.sh:33`) and
  leaves the flag where it is. A node that is first booted later finds it and
  reinstalls itself at every boot, without any race, against
  `docs/runbooks/pxe-reinstall.md:7` ("разрешить ровно одну автоматическую
  переустановку") and `docs/services/pxe.md:51` (the flag goes to `used/` after the
  first 200); one authorization and `World = {"expire"}` are enough to see it. Within
  the limit it can happen, too: of two watchers that race for a flag one dies of its
  `mv`, and when the other, started earlier, reaches its limit, the flags of the first are
  without a watcher. `OnceForEachFlag` names these two cases (`Unwatched`) and shows that
  there is no third as long as nobody acts within a second. With
  `"hasty"` in `World` an earlier watcher that still handles a fetch from before
  moves a new flag away unserved, and `FreshFlagKept` fails.
- `ClusterUser` with `Explicit = TRUE`: with `--uid` the script compares UIDs only on
  the hosts it visits, so repeated or partial runs can leave one name with two
  UIDs (`UidsAgree` fails).

## 6. Proofs

| Theorem | Module | From |
|---|---|---|
| `TypeCorrect`: `Spec => []TypeOK` | `OperationPromise_proofs` | nothing |
| `NeverSentTwice`: `Spec => []AtMostOnePost` | `OperationPromise_proofs` | nothing: any constants, faults, `GraceCoversCall` TRUE or FALSE |
| `NothingStranded`: `Spec => []NoStrandedOperation` | `OperationPromise_proofs` | nothing, as above |
| `SettledStays`: `Spec => FinalStays` | `OperationPromise_proofs` | nothing, as above |
| `CreateTasksMatch`: `Spec => []CreateTaskMatchesStep` | `OperationPromise_proofs` | nothing, as above |
| `OnlyOutcomesCommitted`: `Spec => CommitsAreOutcomes` | `OperationPromise_proofs` | nothing, as above |
| `TasksMatch`: `Spec => []TaskMatchesStep` | `OperationPromise_proofs` | `GraceCoversCall`; any faults |
| `WorkerKeepsPromise`: `Spec => PromiseKept` | `OperationPromise_proofs` | as above |
| `NoBootUnconfigured`, `DeletedVmsAreGone`, `NothingRunsHidden`: `[]NeverBootsUnconfigured`, `[]DeletedIsGone`, `[]NoHiddenRun` | `OperationPromise_proofs` | as above |
| `StatusesAgree`: `Spec => []StatusAgrees` | `OperationPromise_proofs` | as above, and no guest powers itself off |
| `ForgottenStaysOpen`, `TypeCorrect`: `[]ForgottenIsNotConfirmed`, `[]TypeOK` | `LocalWorker_proofs` | nothing: any number of operations, VMs and restarts |
| `LocalKeepsPromise`: `Spec => PromiseKept` | `LocalWorker_proofs` | nothing, as above |
| `OneOperationPerKeyHolds`, `OneActiveOperationHolds`, `AnswerIsOwnHolds`, `NoOrphanVmHolds`, `TypeCorrect` | `VmRequests_proofs` | requests and VMs are finite and have different names |
| `QuotaHoldsAlways`: `Spec => []QuotaHolds` | `VmRequests_proofs` | as above; the VMs there before fit the plan |
| `CheckedAtCommitHolds`: `Spec => CheckedAtCommit` | `VmRequests_proofs` | as above |
| `NeverInCircle`: `Spec => []NoCircle` | `VmRequests_proofs` | as above |
| `PlacementsStay`, `TypeCorrect`: `Spec => PlacementStays`, `[]TypeOK` | `OperationQueue_proofs` | any VMs, workers and VMIDs, any faults |
| `GraceCoversEveryCall`: `Fits => (Spec => []RunningCallIsNotCut)` | `DispatchGrace_proofs` | `LastWait * Timeout < Grace` |
| `OneInstallation`: `[]OnceForEachFlag` | `InstallOnce_proofs` | `"hasty"` is not in `World`: nobody acts on a node within the second a script or a round takes |
| `FreshFlags`, `TypeCorrect`: `[]FreshFlagKept`, `[]TypeOK` | `InstallOnce_proofs` | as above |
| `OneIdentity`: `~Explicit => (Spec => []UidsAgree)` | `ClusterUser_proofs` | `--uid` is not used |
| `StorageIsOwn`, `DoneIsTrue`, `TypeCorrect`: `[]DirsAreOwn`, `[]DoneIsComplete`, `[]TypeOK` | `ClusterUser_proofs` | as above |
| `AccountsWhole`, `OneRetry`: `PortalSpec => []OneWholeAccount`, `[]RetryIsEnough` | `Portal_proofs` | requests have different names; any faults |
| `EndedRefused`, `RevokedForGood`: `[]EndedIsRefused`, `RevokedStays` | `Portal_proofs` | as above |
| `KeysDistinct`, `ConflictsReal`: `[]SavedAreDistinct`, `[]ConflictIsReal` | `Portal_proofs` | as above |
| `KeysOwn`: `PortalSpec => []KeyIsOwn` | `Portal_proofs` | as above |
| `NeverInCircle`: `PortalSpec => []NobodyInCircle` | `Portal_proofs` | as above |

`NeverSentTwice` goes through the invariant `PostInv`. `AtMostOnePost` alone is not
inductive: nothing in it says that a worker about to POST is the only one, nor
that the row cannot become pending for the same step again. Steps get a `Rank`
that grows along every operation (clone, configure, resize or shutdown, start).
A row is `Behind` a step when it has taken it up or is past it. The invariant
says that every POSTed step and every step in a call is behind its row, that a
worker before its POST has a step that was not POSTed, and that no two workers
hold the same step of the same row. `Prepare` needs a pending row, behind
nothing but earlier steps, so its new call is the only one for its step.
`KeepPostInv` covers all steps that move rows only forward and let calls only go
on or end; `Post`, `Prepare` and new rows are proved one by one.

`NothingStranded` and `SettledStays` share an argument. `EffectOfStep` shows that
every step leaves the rows alone or has one of six effects on one row: a new
row, taken up, a task stored, a new marker, a step done, failed. The invariant
`RowInv` is then checked once per effect. It adds to `NoStrandedOperation` that a
task id and a marker fit the row's status (`TaskRows`) and that a VM has at most
one active operation and is neither failed, deleted nor missing while it has one
(`VmRows`). The last part is why a settled VM stays settled: an effect on a VM
comes from an active operation of it, and there is none.

`CreateTasksMatch` needs no grace period: an answer for another step finds another
phase and is refused (`FinishAccepts`), and the end of a step clears its UPID
(`TaskFollows` is kept by every step).

`OnlyOutcomesCommitted` and the theorems of `VmRequests_proofs` lean on each other through the
tables: those hold whatever the worker does within `Outcomes`, this one says that it does no
more. The late answers that upset `TaskMatchesStep` do no harm here: an answer may be credited to
another step, but only to one of the type of its row (`CallFits`), so whatever a row is
then moved to is an outcome of that type. `Written` lists what a step may do to the tables (nothing, a request, taken up,
VM provisioned, finished, broken), and `TableInv` has what each needs to be an outcome: the VM of
an active creation is `pending` or `provisioning` (`CreatedVm`), hence a failed creation fails a VM that has
been nothing else. Stating this corrected `Outcomes`, which did not have the commit between the halves of a reboot
(VM `stopped`, row still active).

The other theorems about the worker need `GraceCoversCall`; finding 1 is what happens
to `TaskMatchesStep` without it. `PromiseInv` adds to the invariants above
that a call owns its row, which is as `Prepare` left it (`CallOwn`), that a row
has only steps of its type (`StepFits`), and that its VM shows the status of
that step (`ShownInv`). For the refinement, `SeenStep` shows that every step has
one of nine effects on what `VmPromise` sees (a request, a POST, a row moved, ended,
or nothing), and `EffectIsStep` that each of them is one step of `VmPromise`
or a stutter: `SendFact` and `AdvanceFact` give, for each type and step, the place in the
command's plan and in the path of statuses.

`ProviderInv` links the rows to the provider, which lags behind them or runs ahead
of them while a command is under way. Its parts say what is known in between. A
command on its way or running is that of the step its row is in (`NoStray`), except
a shutdown or stop that a guest has forestalled: that one may still be under way when the
operation has ended, and it is harmless since it only powers off. The effect of a command under way
is still to come (`UnderAhead`), so nothing else has changed its VM; an answer
`done`, and a task that ended OK, mean the effect is there (`AnswerKnows`,
`StepKnows`). `StoppedIsTrue` and `RunningIsTrue` then allow the shown status to be
wrong only while a finished task of an active operation is not yet noticed (`Due`), and `Prepared` says
that a start comes after cloud-init and disk. Steps are proved in three kinds: at
the provider (`Lands`, or `Aside` when no VM changes), in a call (`CallMoves`),
and on a row (`RowStepKeeps`, with what is over when a row moves: `TaskOver`,
`ConfirmedOver`).

`LocalWorker_proofs` proves the same refinement for the default mode without any
assumption. With one process a row and its call cannot diverge, so `Good` can say
everything about a row at once: what its type and step allow, what its VM shows, that
a pending command and all later ones were not sent. The difficulty is the restart.
`CutInv` says that the fake knows nothing of the VM of an operation that was cut off,
now and later: only a command could make it known, commands are sent for active operations,
and the only active operation of that VM is the one that was cut off. So a poll
of it finds `missing` and leaves it open.

`VmRequests_proofs`: under READ COMMITTED a statement sees what others committed
just before, so nothing a request has read stays true by itself. `LocksInv` says that
from its look-up to its commit a request holds the row lock that its checks are about: the
user's quota row for a creation, the VM row for the other kinds. `FreeInv`
and `PaidInv` say that what was checked is still true, because whoever could make it
false needs the same lock; the worker commits without it, but only for active
operations (the VM has none) and never in a way that uses more quota. `KeyInv` is the unique index over
committed and uncommitted rows together. `AnswerInv` says what a request will
answer (`IsFor`: key, kind, owner, and the VM it named or the size it asked for), also when
it found the row of another in a second look without a lock. `QuotaHoldsAlways` needs
that the new VM adds its size to the sum exactly once (`UsageOf`, `UnitsAdd`).

`NeverInCircle` rests on the order in which the services take things: the row lock first,
then at most one key. `HeldInv` says that a row lock belongs to a transaction that is past its
first statement, so whoever waits for a row waits for one that can wait for a key only,
and whoever has a key only has to commit. In `Portal_proofs` the chain is identity, or name and
then fingerprint; `ClaimInv` and `EntryInv` say where their holders stand.

`OperationQueue_proofs`: `PlacementStays` must survive the steps other workers take between
the answer with the VMID and the write of it. Only SKIP LOCKED protects the row: `HoldInv` says that a
row a worker holds is still pending and has no placement, and that no other worker holds it. For that
the row must be in `queue` exactly once, although every commit takes a row out of the middle of the
sequence and appends it (`TableOK`, with `RemoveRow` and `AppendRow` about the sequence); `NextVmidIsFree` says that the
provider's offer is a VMID at all.

`GraceCoversEveryCall` needs `AgeWithinWaits`: the marker is at most as old as the
waits before the current one in full and the current one so far. Together with
`Fits` (the only nonlinear step, `WaitsBelowGrace`) the marker of a running call
is younger than the grace.

The theorems of `ClusterUser_proofs` share the invariant `IInv`. `SameUid` and
`UidIsOwn`, the parts of `UidsAgree`, are not inductive: they speak of pairs of hosts, and a run that adds a
user to a later host looks at that host only. The invariant says why this is
enough: bastion01 comes first and `useradd` there refuses a name or UID that is
taken, so bastion01 knows every account there is, under the same UID
(`BastionFirst`), and its UIDs are distinct (`BastionIsUnique`). A run past an
entry host has its user there (`EntryDone`, `TargetDone`), which holds because
accounts are never removed and a run that meets another UID goes to no later
host. Runs with `-only` flags start later in that order; they take the UID of
condor01, which is on bastion01 already. That is where `~Explicit` is needed
(section 5 says what happens without it). The two UIDs of an instance are
nothing special: nodes, names and UID range are arbitrary constants.

The theorems of `Portal_proofs` rest on `PInv`, which is `IInv` for the
variables of `Sessions`, `KInv` for the keys and `OwnerInv` between them. `StepOfSessions`
says that every step of the portal is a step of `Sessions` or leaves its variables
alone, so what is proved of `[Next]_vars` of `Sessions` holds for the portal.

- Accounts: `OneWholeAccount` says nothing of rows that are not committed. By
  `ClaimInv` a login that has inserted an identity is about to commit it and the
  person has no other; by `LoginInv` the account a login goes on with is
  committed for its person or its own. With these the commit cannot make a second
  account. `RetryInv`: identities are never removed, so a second attempt finds the
  one that stopped the first.
- Ended sessions: a page reads the session, then the user, then decides, and a
  logout, an expiry or a deactivation may commit between any two. `BarredInv` says
  for each point what will still refuse the request: the row it is yet to read
  or the value it has read. `Lasting` (an answered login keeps its account, nothing
  is reactivated, un-revoked or un-expired) keeps it true while others step.
- Keys: committed rows alone are not enough, since two requests may both be past
  their selects. `UniqueInv` says both indexes are unique over saved and
  uncommitted rows together, and `EntryInv` when a request has its entries; a
  request that waits for another's entry goes on only when that one is saved (and
  then fails) or gone. `ConflictInv`: rows are never deleted, so the second look
  finds what the index complained of.
- `OwnerInv` holds because a page that passed the check keeps its cookie
  (`PageStays`) and the session keeps its account (`Lasting`).

`InstallOnce_proofs`: a watcher reads lines that are new since its offset, some of them
twice, and handles the flags of all authorizations. `LogInv` says of each line a watcher has not
yet left behind that the flag of its node, if there is one, was served itself, that no script is about to make
one, and that it is the only such line of that node; all three hold because a script or a boot waits until the node
has settled. Hence a moved flag was served (`FreshFlags`). `OneInstallation` asks for more: a served flag must
be moved before the node boots again. `SeenInv` says that its line is still ahead of a watcher
that goes on (`Goes`: it lives and its next `mv` will not fail). When a watcher is
overtaken and so will die, the one that overtook it handles the same line (`SameLine`), so what was ahead of the
first is ahead of the second, too (`GoesOn`); `WatchInv` says that not all watchers die.
Only a time limit breaks this, and then (second half of `Followed`) the flag's own watcher
must have reached its limit or have died as well: `SecondBoot`. Without `"hasty" \notin World` both are false (section 5).

Only model-checked, because they are outside the prover's reach: the half of `SomeoneGoesOn` that says with ENABLED
that nothing but `Waits` holds a request of `VmRequests` or `Portal` up (the other half is
`NeverInCircle`), and all liveness (`OperationSettles`, `CompletionIsNoticed`, `Settles`, `ServedIsMoved`,
`TakenUnlessJammed`).

## 7. Not modelled

- HTTP details of `proxmox/client.py` (headers, TLS, decoding) and ownership
  conflicts (a VMID that belongs to another resource raises like any failing
  read);
- in `VmRequests`, the pages that only read, and the parsing of forms;
- in `Sessions`, the exchange with the identity provider and e-mail values;
- in `InstallOnce`, rotation of the log (the watcher would start again at its
  beginning) and checks of arguments; the moment between a flag and the offset of its
  watcher is assumed to be shorter than a boot;
- in `ClusterUser`, keys, `--dry-run` and accounts made by hand;
- templates, migrations, Ansible roles, monitoring, nginx, evidence and
  documentation: no state of their own that a step changes at run time;
- in `Portal`, forms that the CSRF check refuses: they change nothing.

Wording of errors, cloud-init contents, IP addressing and logging are no part of
any property.
