# Le0xFarm: verification models

Le0xFarm is a mining-farm manager in Go: a **Controller** keeps in SQLite what
every Host should run, and one **Agent** per Host runs the miners. The
Controller never assumes; it converges the Host towards the wish from what the
Agent reports. This directory models the parts where order, failure and
concurrency decide whether that works, checks them with TLC and proves theorems
about them with TLAPS.

Paths below are relative to `src/`. `PROJECT.json` lists every run, mutant,
hazard, finding and theorem, and the source lines behind every definition.

## 1. Inventory of the system

### Components that keep state

| Component | State | Operations | What is hard | What makes it correct |
|---|---|---|---|---|
| Process supervisor, `internal/runtime/supervisor` | one record per ExecutionID (state, desired, generation, cmd, pid, crashes), hold flag and revision, `closed` | Start, Stop, Restart, wait goroutine, watchdog, ApplyMaintenanceHold, Shutdown | one mutex released around validation, waiting and sleeping; every goroutine can come back to a changed record | one process per execution; a terminal state means a dead process; a confirmed hold and a finished Shutdown mean silence; nothing hangs |
| Reconcile coordinator and planner, `internal/reconcile` | per Host: observed entry, in-flight keys with dispatch sequence, restore barrier | ReconcileHost, session and result callbacks, timeouts, SetMaintenanceHold, retirement | plans made under a lock are sent outside it; results, timeouts and reports may come in any order | no two overlapping miners; one outstanding command per Host; no leaked guard; convergence |
| Observed store, `internal/controllerstate` | epoch, freshness per kind of fact, executions, watermarks | Connect, Apply*, Disconnect, RequireFreshBootstrap | a report asked for before a command and answered after it | an older report never undoes a newer one |
| Controller sessions, `internal/controllernet` | epoch counter, live session, pending requests | hello, bootstrap queries, heartbeats, results, expiry, replacement, pairing window | replacement of a session while commands of the old one are under way | callbacks only for the newest epoch; a token is used once |
| Agent client, `internal/agentnet`, and miner runtime, `internal/minerruntime` | command buffer of each session, prepared launches, telemetry, the claim of the final start validation | receive loop, command goroutine, reconnect | a hold overtakes buffered commands; an ended session's goroutine goes on | a START is carried out only in the reality it was planned for |
| Desired state, `internal/farmconfig` | workloads, bindings, pools, wallets, profiles, snapshots, holds, barriers (with revisions) | create, update, delete, retry, propagate, mark, clear | compare-and-swap on revisions; references; propagation in one transaction | generations only grow; nothing referenced is deleted; RUNNING workloads do not overlap |
| Incidents, `internal/incidents` and `internal/farmconfig/incidents.go` | incident records and their authority | evaluate, activate, resolve | evaluation races a change of authority | an incident is not resolved by an observation older than its cause |
| Backup and restore, `internal/controllerbackup`, lease in `internal/controllerlock` | backup directories, data directory entries, restore marker, retention debt | create, scheduled create, prune, verify, restore, recover | a crash between any two directory operations, also in recovery | the database is replaced at one instant or not at all |
| Linux installer, `internal/linuxinstall` | files, users and units installed so far | install, upgrade, rollback | one step of several fails | all or nothing |
| Package store, `internal/packages` | package directories | install, verify | concurrent installs, publication by rename | a visible package is complete |
| Identity, PKI, trust: `internal/*identity`, `*pki`, `*trust` | key and identity files | initialize, load, pair | crashes between files | an identity is whole or absent |

`internal/farmresolve`, `internal/farmmodel`, `internal/gpuresource`,
`internal/wiremap`, `internal/miners` and `internal/inventory` compute or
convert and keep no state; `internal/controllerdb` is SQLite and its
migrations; `internal/controlleradmin` and `cmd/` decode, dispatch and wire.

### How they interact

The Controller's coordinator plans over three inputs: the desired state (a
database transaction), the observed store (memory) and its own in-flight keys.
It sends through the session of the newest epoch, and is called back by it:
connected, observation, result, disconnected. On the Agent, the stream's receive
goroutine answers a hold itself and puts everything else into a buffer which the
session's command goroutine empties. A START passes the miner runtime (which
prepares it before the Supervisor knows of it) to the Supervisor, whose own
goroutines, one per process and one per backoff, share its mutex with the calls.
Before any of that, a starting Controller takes the lease of its data directory
and recovers an interrupted restore (`cmd/le0x-controller/main_linux.go`,
244-256). A restored database carries a barrier per Host, which the coordinator
lifts only after comparing the Host's reality with the restored wish.

## 2. The modules

| Module | Models | How |
|---|---|---|
| `Supervisor` | `runtime/supervisor/supervisor_linux.go` | every critical section of `Supervisor.mu` |
| `SupervisorProofs` | | TLAPS proofs about `Supervisor`: types and generations |
| `SupervisorSafetyProofs` | | TLAPS proofs of the four safety invariants of `Supervisor` |
| `ObservedStore` | `controllerstate/observed.go` | the entry of one Host as operators |
| `Planner` | `reconcile/planner.go` | one workload's next action, a pure function |
| `Coordinator` | `reconcile/coordinator.go` with sessions, Agent loop and farmconfig as it uses them | composes the two above: one Host end to end |
| `CoordinatorProofs` | | TLAPS proofs about `Coordinator`: types, in-flight keys, the hold before a START, the restore barrier; dispatch over one session |
| `FarmConfig` | `farmconfig/`, `farmresolve/`, the claims of `gpuresource/`, the operator's requests in `controlleradmin/` | the database of the desired state, one action per transaction |
| `FarmConfigProofs` | | TLAPS proofs about `FarmConfig` |
| `Incidents` | `incidents/`, `farmconfig/incidents.go`, the evaluation worker in `reconcile/` | extends `FarmConfig` by the observation and the worker of a Host |
| `IncidentsProofs` | | TLAPS proofs about `Incidents`: what is published, skipped and resolved |
| `AtomicRestore` | | abstract: what a restore promises |
| `Restore` | `controllerbackup/manager_linux.go`: installation, rollback and recovery | entry by entry of the data directory; implements `AtomicRestore` |
| `RestoreProofs` | | TLAPS proofs about `Restore`: its invariants and the refinement |
| `Backups` | the rest of `manager_linux.go`, `controllerdb/` as it is prepared and stamped | extends `Restore` by artifacts, scheduling, retention and candidates |
| `BackupsProofs` | | TLAPS proofs about `Backups` |
| `Installer` | `linuxinstall/install_linux.go` | one step per artifact or systemctl call, with rollback |
| `InstallerProofs` | | TLAPS proofs about `Installer` |
| `MC*` | | constants for TLC |

A definition with the comment "Mutant of `<Definition>`" is a plausible wrong
version that the project uses to show that a property can fail. It is part of no
specification.

### Supervisor

`exec` is the executions map. A goroutine between two critical sections is a
record: `call[c]` for an API caller, a member of `starts` for a goroutine in
`startExisting` or in a watchdog's backoff (phase *sleep, fired, check, validate,
commit, rejected*). The pair <<execution, generation>> names the process, its
`*exec.Cmd`, pid and done channel, because every start uses a new generation;
`GenerationStartsOnce` is the proof obligation behind that naming. `alive`,
`zombies` and `doneClosed` are the life of a process: running, exited but not yet
seen by its `wait` goroutine, done channel closed. Log handling, environment,
crash times and the length of a backoff are left out; the crash window is a
choice whether the last crash still counts.

`ApplyMaintenanceHold` works through its targets in order, one `Stop` each;
`Shutdown` stops its targets in parallel goroutines in the code and may time
out; the model has the timeout as an action and does not wait for goroutines
that outlive it.

### Coordinator

One Host, any number of workloads and reconcile workers. A worker is *idle*, has
*reserved* its key and built a plan under the Host lock, has checked it again
(*send*), or has *sent* and not recorded the sequence yet: `PrepareDispatch` or
`PrepareBlocks`, `Recheck`, `SendRuntime` or `SendFails`, `SetDispatchSequence`.
Between any two of them the operator writes, a result arrives, a session breaks.
The session is a sequence of epochs; `inbox[e]` and `busyCmd[e]` are what is left
for the command goroutine of session `e`, which goes on after `e` has ended.
`holdInbox` belongs to the receive goroutine and overtakes the inbox. The three
bootstrap queries that are always sent together travel as one, `facts`. The
Supervisor is reduced to one status per execution; its own races are in
`Supervisor`.

Generation 0 of a workload stands for an execution of the history that a restore
discarded.

Left out: GPU claims and snapshot refreshes, incident evaluation, the Controller's
own restart (a new process starts again at epoch 1 with an empty memory), the
Agent's exit when a restored Controller's hold revision is lower than its own,
the 16-slot buffer (at most five commands are pending in a session), and the
`FAILED` result of a START, which no Agent sends. The reads of one planning round
are taken in one transaction; the second check of the code, which repeats them,
is a step of its own.

### FarmConfig

`db` is the database, one table per field; `edit` is the one request of an operator
that reads a row now and writes it later (`controlleradmin`'s workload and hold
actions). Every writing method of `farmconfig.Service` is one action, because
`writeTx` runs it in one transaction on the database's only connection
(`controllerdb.Open`): all of it or nothing. A row is its revision and content;
revision 0 is an id not used yet and -1 a deleted one, since UUIDs are not used
again. `Propagate` is the re-resolution inside the same transaction
(`propagateWorkloadIDs`), `Snapshot` the immutable plan of a generation,
`ResourceConflict` the claims check, `SameHardware` the validation of stable GPU
identities. Content, tuning and plans are members of small sets; hashes are the
thing hashed. Reads, listing and pagination are left out, and so are argument
templates and secrets.

Revisions are compared in the code because a caller may have read an older row;
callers other than the live operator are taken to have just read it, which is what
the Coordinator does. `BlockDesiredGeneration` and `RefreshResolved...` belong to
callers in `reconcile`; any of them may come at any time.

### Incidents

The worker of a Host is *idle*, about to *begin*, has *read* the authority, is about
to *publish*: `ReadAuthority`, `AuthorityChanged`, `EvaluateObserved`,
`SkipUnchanged`, `Publish`, `PublishRefused`; a database error ends the pass at any
of them (`EvaluationFails`). Between any two the operator writes
(every action of `FarmConfig`), a session connects, reports, breaks or expires, the
Controller restarts. `pending` is the re-evaluation asked for while one runs.
`Conditions` translates `incidents.Evaluate`: a workload has the conditions of the
first cause that applies. Severities, texts, timestamps and resource names are left
out; the count of a row is kept, for what opens and what refreshes.

### Backups

`store` is each database's row of `controller_backup_state` and revision, `art` an
artifact's state (*staged, published, durable, removing*), `job` the operation that
holds the manager's mutex and its next step. It extends `Restore`: a restore begins
as a job (verified, safety backup, candidate prepared with its barriers and its own
revision) and goes on entry by entry there. The Controller writes between all steps
while it serves. A kill or power loss abandons the job; a published artifact that is
not durable may be gone. An artifact's contents are the database and revision it
says it holds; a failed verification is a failed step. Taken as given: the clock
does not go back between backups, and a SQLite commit is durable.

### Installer

`todo` is the list of steps still to do in the current phase: a plan is computed
once (`InstallPlan`, `UninstallPlan`) and each step of it is one action, which may
fail before or after it took effect, or be the last one before a kill. Rollback is a
phase of its own (*stopping, restoring, enablement, activity*), with its own plans
and failures. `txn` is the `installTransaction`; `file` holds what each path
contains, `copies` the rollback copies on disk, `svc` what systemd says of a
service. systemd is external: a call fails at will, `disable` may unload a unit,
a start without its file is refused, a running service may fail at any time. The
operator edits the configuration only while no installation runs.

### Restore

`dir` maps the four names of the data directory that a restore touches to the
file (inode) they link. `images` is the set of directories that a power loss may
leave behind; a sync makes it `{dir}`. With `Ordered` an unsynced change adds the
new directory to it, which is what a journal gives; without, each change may
reach the disk alone. `text` is how much of the marker's content is written or
durable. Every `linkat`, `unlinkat` and `fsync` is a step; between any two the
process can be killed, fail with an I/O error (then the deferred removal of the
validation name runs) or lose power. A start goes through recovery; a failed
link goes through the same recovery in the same process.

Sizes and checksums of a binding are the inode here, because nothing writes
`farm.db` while a marker exists. That claim is itself checked: it rests on
`SettledWhenUsed`. `Serve` contains a directory sync because SQLite syncs the
directory with its journal before it changes the database (the driver is opened
with `journal_mode(WAL)` and `synchronous(FULL)`, `controllerdb/db.go:54`).
Replacement of entries by other programs, and a backup of another Farm's trust
identity, are not modelled.

`AtomicRestore` is the promise: an instant at which the database is replaced by a
later one, a window until that is durable in which a crash may give the
previous one back, and nothing that was acknowledged is ever lost. The
refinement maps the database to `farm.db` or else the retained original.

## 3. The runs

| Run | Instance | Shows |
|---|---|---|
| `supervisor_commands` | 1 execution with ON_FAILURE, a command goroutine, a goroutine that calls Shutdown, crash limit 3, 7 calls or exits | OneProcess, TerminalMeansDead, ShutdownQuiet, GenerationStartsOnce; under fairness StopReturns, BackoffEnds |
| `supervisor_hold` | 2 executions without restarts, a command and a hold goroutine, hold revisions 1-2, 4 calls or exits | HoldConfirmedQuiet |
| `coordinator_session` | 2 overlapping workloads, 2 workers, 1 session, restored database, 2 generations, expiring facts, 1 fault | NoOverlap, Serialised, RetiredIsDead, BarrierQuiet |
| `coordinator_hold` | 1 workload, 2 hold revisions, 2 sessions, 1 fault | NoLeakedGuard, StartsFollowHold |
| `coordinator_converge` | 1 workload, 2 generations, 2 sessions, fairness | Converges, Retires |
| `farm` | 2 Hosts, 1 GPU in 4 reports, 1 Pool, WalletRef and Profile, 2 workloads, from an empty, a configured, a working and a restored database, up to revision 9 | ReferencesExist, EffectiveIsCurrent, ExclusiveClaims, BindingsKeepHardware, RestoreEndsWithLastBarrier, PlansAreImmutable |
| `incidents` | 1 Host, a CPU and a GPU workload, 2 observations or restarts, up to revision 6, fairness | NoOrphanIncident, SkippingIsSafe, PublishedIsCurrent, RecoveryNeedsEvidence; IncidentsSettle |
| `installer` | both roles, 2 invocations, 3 failures, from a clean and an installed host | OriginalsSurvive, RollbackIsExact, ReplacedAtRest, InstalledIsOneVersion, UninstallLeavesNothing |
| `restore` | 3 BackupIDs, 2 restores, 1 hourly and 2 daily slots, up to revision 3, ordered directory | StartRecovers, SettledWhenUsed, SkippedIsCovered, RetentionDebt, RestoreLosesNothing, and Restore implements AtomicRestore (ReplacesAtomically) |

The violation runs are in section 5. `TypeOK`, `FarmTypeOK` and `InstallerTypeOK`
are checked by `supervisor_commands`, `farm` and `installer`; those of
Coordinator and Restore are proved (section 4), and with that of Incidents in no run.

### Why the bounds are enough

* Supervisor: a hazard needs a start that a Stop and another Start supersede
  (three calls), an exit, and a watchdog: six units of fuel reach the crash
  limit and a restart after it, a seventh a Shutdown or a second one after the
  first has timed out. Executions do not interact except through the
  hold and Shutdown, so one is enough where neither loops over several, and two
  where one does.
* Coordinator: two overlapping workloads show a replacement, two workers the
  race between two plans, two generations an old and a new execution, two
  sessions the overlap of an ended and a live one. A second fault or a third
  generation multiplies the states many times; a single fault already
  takes every error path once (each fault action fires), and two of them were
  run once for the session instance (3.4 million states, no violation).
* FarmConfig: one Pool, WalletRef and Profile suffice because rows of a table never
  look at each other; two workloads are needed for claims and for propagation to
  more than one, two Hosts for the last barrier, and the four initial databases put
  every operation within the few transactions that remain (from the working one:
  four). What two workloads show of references, claims, barriers and plans is proved
  for any number (section 4).
* Incidents: two observations contain every pair of modes before and after a read;
  two transactions after the initial database change the authority once before and
  once after the worker's read.
* Installer: a second invocation runs over everything a first may leave behind; of
  three failures, one starts a rollback and two hit the rollback itself.
* Restore: a second attempt over the leftovers of a first covers every mix of an
  old validation name with a new transaction; a crash is never bounded. Three
  BackupIDs are a target, a safety backup and a scheduled one, and exceed one hourly
  slot.
* Deadlock is checked except where the bounded clients, a Host whose last session
  has ended, or a finished installer may stop: the three Supervisor instances,
  `coordinator_hold`, `coordinator_scan_failure` and `installer`.

### Fairness

A goroutine whose next critical section is enabled runs, a timer expires, a
process that was sent SIGTERM and then SIGKILL exits; the Controller's ticker and
heartbeat tick, and a stream delivers or breaks. Nothing obliges an operator to
act, a fault to happen, a deadline to pass, or a process to exit by itself.
`coordinator_converge` has no expiring observation, because a model without a
clock would let one expire again and again before the heartbeat that refreshes it.
In `incidents` the reconcile ticker and the worker's steps are fair, nothing else; the
database may fail any number of passes, but not for ever (`<>[][~EvaluationFails]_vars`),
since a worker whose every query fails can settle nothing.

### Assumptions

* One process at a time has the data directory (the lease of `controllerlock`), and
  one transaction at a time the database: a transaction is one step.
* SQLite commits are durable and syncing a directory makes its entries durable.
  `Ordered` says that unsynced directory changes reach the disk in their order, as
  a journal writes them; section 5 says what the code loses without it.
* The Controller's clock does not go back between two backups.
* Hashes and checksums do not collide; UUIDs are not used twice.


## 4. What is proved

For every set of executions and goroutines, every crash limit and any number of
calls (`SupervisorProofs`):

* `TypeCorrect`: `Spec => []TypeOK`. TypeOK is inductive by itself because it
  says that a caller inside Stop or Restart names a real execution. One lemma
  per kind of step (`AcceptStartType`, `StopSectionType`, `StartStepType`,
  `WaitStepType`, `CallStepType`), combined in `TypeOKInductive`.
* `OneStartPerGeneration`: `Spec => []GenerationStartsOnce`. Not inductive: the
  invariant `GenerationInv` adds that no process and no pending start is ahead of
  its execution's generation counter, and that a start that may still spawn has
  a generation no process has. Every step either takes starts and processes away
  (`Shrinks`), moves a start to its next phase (`Advances`), turns one start into
  one process (`Spawns`) or schedules a start for a generation just counted up
  (`Schedules`); counters only grow (`GenerationsGrow`).

The assumption is `SupervisorAssumption`: ids are naturals, the crash limit is
positive, no API goroutine is called "watchdog".

For any number of executions, Shutdown goroutines, crashes and calls, under
`OneSession` (`SupervisorSafetyProofs`): `OneProcessAlways`,
`TerminalMeansDeadAlways`, `HoldConfirmedAlways`, `ShutdownQuietAlways`, each of the
form `OneSession => (Spec => []P)`. `OneSession` says that one goroutine dispatches
commands, one applies holds, and that no execution has a watchdog where holds occur.
The proof uses each part: with two command goroutines the last section of a Stop can
overwrite a newer start (the hazard at `supervisor_linux.go:437`), and a hold beside a
watchdog is the first disagreement of section 5. All runs that pass satisfy it.

The four follow from `SafetyInvariant`, whose inductive invariant `SafetyInv` has five
parts:

* `OwnInv`: an unreaped process is the one its execution names by generation, cmd and
  pid, the execution is STOPPING, or RUNNING and desired; a pid that is not 0 names an
  unreaped process; a closed done channel belongs to none.
* `StartInv`: a start belongs to a watchdog or to the one command goroutine, and where
  there is no watchdog no start finds a process of its execution. This is why
  `CommitSuppressed` may raise the generation without comparing it.
* `CallInv`: a STOPPING execution is being stopped by someone, and whoever stops one
  can count on nobody wanting it again: the Supervisor is closed, the hold lasts, or
  the goroutine is itself the one that would send the START.
* `HoldInv`, `ShutdownInv`: while their loop runs, what is alive is still to be stopped
  or being stopped (`Covered`).

A process is created only for a current start, and `GenerationInv` says that a current
start's generation has no process: so its execution has none (`CurrentIsFree`). The
steps fall into few shapes, each with a lemma: a start that passes (`PassesStart`),
settles its execution (`SettlesStart`) or spawns (`SpawnSafe`); a wait goroutine that
reaps (`ReapSafe`); a Stop that signals (`StopSectionSafe`) or ends (`StopEnds`); an
accepted START (`AcceptStartSafe`).

For any sets of Pools, WalletRefs, Profiles, Hosts, devices and workloads, any
contents and any number of transactions (`FarmConfigProofs`):

* `ReferencesAlwaysExist`: `FarmSpec => []ReferencesExist`;
* `ClaimsStayExclusive`: `FarmSpec => []ExclusiveClaims`;
* `RestoreEndsWithBarriers`: `FarmSpec => []RestoreEndsWithLastBarrier`;
* `PlansStayImmutable`: `FarmSpec => PlansAreImmutable`;
* `EffectiveAlwaysCurrent`: `FarmSpec => []EffectiveIsCurrent`;
* `BindingsAlwaysKeepHardware`: `FarmSpec => []BindingsKeepHardware`;
* `FarmTypesAlways`: `FarmSpec => []FarmTypeOK`.

The first four rest on `FarmInvariant`. None of its three invariants is inductive alone: the
operations read rows, so `WellFormed` adds that every table has its rows and columns,
that what is live has content with real ids, that no plan belongs to a generation its
workload has not had (this is why a new generation never meets an old plan), and
that a PENDING barrier exists; `EditOK` says that an operator's request is about a
live row it read. The argument has three layers. One lemma per table (`PoolWrite`,
`ProfileWrite`, `WorkloadWrite`, `BarrierWrite`, ...) says under which condition a
written row leaves the database consistent; `GenerationsFollow` says that new
generations and plans for them do, whatever propagation computed; `Follows` composes
them. One lemma per operation shows that its guards are that condition.

The next two need `PlansIn` besides: every workload is effective, each plan binds the
hardware of the one before, and a plan of devices binds exactly those (`BoundIn`). A
transaction leaves it so (`Leads`) for one of three reasons. It writes a row that no
workload reads, because the row is new or what refers to it has been asked for
(`CommitUnread`). Or it writes one that only the workloads it propagates to read
(`CommitRead`): `WorkloadReads` says what resolving a workload looks at, `PoolPlans`,
`ProfilePlans` and `SettingsPlans` that the users the operation computes are all who read
the row, `PropagateEffective` that a workload that is resolved again is effective, even if
its new generation has no plan yet. Or it is about one workload (`OneWorkload`), and gives
it a plan of a later generation (`NewPlan`) or none. The newest snapshot of a workload is
a greatest number, and that a set of generations has one is proved from the least number
above them (`LeastNatural`, `GreatestNatural`): no induction over the generations.

The last says that every row is one the scan functions read back, and that no revision,
generation or plan is of a transaction the database has not seen: `RowsIn(d, n, g)`
bounds the rows of d by n transactions and its generations by g. It holds of what an
operation writes before the triggers count it because a transaction raises a row's
revision once and a workload's generation once (`CommitTyped`): an operation that
propagates leaves the generations to the propagation (`NewGenerationsTyped`,
`CommitPropagatedTyped`), one that plans raises its workload's itself (`NewPlanTyped`).
That a resolved hash is one rests on the references (`PlanTyped`), so FarmTypeOK is
inductive with `FarmInvariant` only.

`FarmAssumption`: Profiles and workloads refer to ids, a Profile's tuning is a value or
none, no inventory is the value that stands for none, and the first database is one operations left, which is how a new
(empty) or restored database begins. `EmptyDatabaseIsConsistent` and
`EmptyDatabaseIsTyped` prove it of the empty one for any constants.

For any sets of workloads, observations and rows, and any number of transactions,
reports, disconnections, restarts and evaluations (`IncidentsProofs`):

* `NoOrphanEver`: `Spec => []NoOrphanIncident`;
* `PublishedCurrentAlways`: `Spec => PublishedIsCurrent`;
* `SkippingSafeAlways`: `Spec => []SkippingIsSafe`;
* `RecoveryAlwaysHasEvidence`: `Spec => RecoveryNeedsEvidence`.

They follow from `IncidentsInv`, which has four parts: `FarmInv` of `FarmConfigProofs`;
`IncidentsIn`, of which NoOrphanIncident is one conjunct; `ObsInv`, that the
observation says something known of each execution; and `CacheInv`. SkippingIsSafe is
not inductive: between the publication and the next evaluation the desired state may
change and change back, rows may be resolved with their workload and the observation may
come and go. `CacheInv` says what the rows still have in common with the evaluation
published last, without a word about the present state: its conditions are ACTIVE, or
were about a workload that is gone for ever, and nothing else of the types it may
resolve is ACTIVE. When the same evaluation is made again, its conditions are about
workloads that exist (`ConditionsAre`), so none of them is gone and all are ACTIVE.
`FarmTells` is the bridge to the desired state: every operation of `FarmConfig` either
says nothing about incidents and lets no workload go (`Silent`), or deletes one workload
and resolves its incidents in the same transaction (`Deletes`). `ReconciledIs` says what
`Reconciled` makes of the rows, `PublishIs` that the facts it uses are those of the
moment.

`IncidentsAssumption`: an Agent reports executions in known states, and the first
database's incidents are ones that the worker and the operations left; a workload has an
id. SkippingSafeAlways adds `NoneIsNoEvaluation`, that the value which stands for "no
evaluation yet" (a nil pointer) is not an evaluation.

For any set of BackupIDs, any number of attempts, crashes and power losses
(`RestoreProofs`):

* `RestoreTypeCorrect`: `Spec => []TypeOK`, whatever order directory changes reach the
  disk in;
* `StartRecoversAlways`: `Ordered => (Spec => []StartRecovers)`;
* `SettledWhenUsedAlways`: `Ordered => (Spec => []SettledWhenUsed)`;
* `RestoreIsAtomic`: `Ordered => (Spec => ReplacesAtomically)`, the refinement of
  `AtomicRestore`.

`Ordered` is needed: without it ReplacesAtomically is false (section 5). The inductive
invariant `IInv` says where the program counter is enough to know what is on the disk,
and where it is not, what recovery can do with it:

* `Good` is what every directory a power loss may leave satisfies, before and after any
  number of attempts. Validation names link the database of their own attempt
  (`Names`); without a marker there is no retained original (`Plain`); under the marker
  of attempt k (`Marked`) farm.db and the retained original are on one of the *sides*
  that `readTransaction` tells apart (`Sides`); until the marker's bytes are durable the
  original is in place and nothing is retained. The transaction a marker describes is
  itself sensible (`Recorded`).
* `Settled` says that no power loss would lead to another database. It may fail only
  where the restored database is linked and its link not yet synced (`Open`): there the
  marker is in the directory and farm.db is what it restores (`Exposed`), so that a
  start syncs that link before it removes anything.
* `InstallInv` and `RecoveryInv` say of each place what the process already did to the
  entries, so that the links it counts are the ones it expects.

`OnlyUnwritten` then gives StartRecovers: none of the checks on which recovery gives up
can fail, but the one on the marker's text. For the refinement, every step leaves the
versions of all images where they were (`Unreplaced`) except the link of the restored
database and syncs, which each are one step of `AtomicRestore` (`MapsInstall`,
`MapsSync`).

`RestoreAssumption` says that there is a BackupID and that none is named like the
three fixed entries.

For any set of BackupIDs, any retention policy, clock and revisions, any number of
restores, writes, failures, kills and power losses (`BackupsProofs`):

* `BackupsImplementRestore`: `BackupsSpec => Spec`, and with it `RestoreWithinManager`:
  the three results above hold of a restore inside the manager;
* `SkippedCoveredAlways`: `Ordered => (BackupsSpec => []SkippedIsCovered)`;
* `RetentionDebtAlways`: `Ordered => (BackupsSpec => []RetentionDebt)`;
* `RestoreLosesNothingAlways`: `Ordered => (BackupsSpec => []RestoreLosesNothing)`.

`Ordered` is what `IInv` needs, and what makes an unlinked artifact stay unlinked once a
later sync of the backup directory returned. None of the three is inductive. `BInv`
adds to `IInv` what they rely on:

* `JobInv`, `MadeInv`: what an operation knows at each of its steps. The artifact under
  way is newer than every other and of the database in farm.db; a safety or manual one
  of exactly its revision, because nothing is served then; an hourly one perhaps of an
  earlier revision, and only then does the watermark stay behind.
* `Skips` strengthens SkippedIsCovered: the artifact that has a skipped database is also
  the newest hourly one (`Newest`), counting those that are published but not durable
  and those whose removal is not. Pruning retains the newest whatever the limits are
  (`NewestRetained`: `HourlyLimit` is positive), so it never removes the cover.
* `Owes` strengthens RetentionDebt to every database that a start may find after a power
  loss. The debt is cleared only when nothing is left to prune and no removal is
  unsynced (`Clean`). `PruneFinds` shows that until then there is a next artifact to
  remove, `RetainedShrinks` that where nothing was left to prune there is still nothing
  after a failure or a power loss took artifacts away.
* `PlaceInv` and `Untouched`: from the candidate's bind to the link of the restored
  database its original is held by a safety backup; a database that was installed but
  not yet served still has its barriers, its debt and a revision above its watermark.

Each action has a lemma (`SnapshotKeeps`, `PublishKeeps`, `MarkKeeps`, `PruneKeeps`,
`InstallKeeps`, ...). The steps that only move statuses of artifacts go through `ArtKept`
(what was durable of a safety or newest hourly backup still is), those that only move
directory entries through `FoundKept`, which follows from the refinement: a step that
replaces no version lets a start find none but the earlier ones (`UnreplacedFound`).

For any devices, any hosts and selections of roles, and any number of invocations,
failures and kills (`InstallerProofs`):

* `InstallerTypesAlways`: `Spec => []InstallerTypeOK`;
* `OriginalsAlwaysSurvive`: `Spec => []OriginalsSurvive`;
* `ReplacedAtRestAlways`: `Spec => ReplacedAtRest`;
* `UninstallAlwaysLeavesNothing`: `Spec => UninstallLeavesNothing`;
* `InstalledIsAlwaysOneVersion`: `Spec => InstalledIsOneVersion`;
* `RollbackIsAlwaysExact`: `RunningHaveUnits => (Spec => RollbackIsExact)`.

What a step may count on depends on what was done before it, so the invariants speak
of `todo`: something holds already, or the step that sees to it is still to come
(`Pending`). For that the module first says what the plans are. Every plan is in the
order of its ranks (`Ranked`) and has exactly the steps named (`InstallPlanIs`,
`StopPlanIs`, ...); in an uninstallation each step follows the right one (`Follows`).
The plans are flattened sequences, and the first lemmas say what flattening gives:
their induction is over the numbers alone, as the least number outside a set
(`LeastNatural`), which needs no operator for a parameter. Then:

* `TypeInv`: types, that each step still to do fits its phase and its transaction
  (`Fits`), and that an Install asks and captures before it changes (`Foreseen`).
* `OriginalsInv`: nothing changes until everything is captured (`Untouched`); what has
  changed was captured (`Captured`); what an earlier interrupted invocation left behind
  is either what this one found or still among the earlier copies (`Base`); what was
  put back stays so (`Restored`). OriginalsSurvive follows, though a run may begin over
  the half-done work of any number of others.
* `RestInv`: no service that the transaction started runs once artifacts are put back;
  in an uninstallation, what was read of a service last still says enough of it when
  its turn comes, failures of services included (`Viewed`).
* `Current`: how far an Install has come with each artifact, unit and service.
* `ExactInv`: how far enablement and activity are from what was found, and that no
  service runs without its unit.

`InstallerAssumption` says that roles are selected in sequences and that the first
hosts are typed. `RunningHaveUnits` says that no service runs without a unit when the
installer first comes. It is needed: systemd keeps the unit of a running service whose
file is gone, also over a daemon-reload, and after a failed Install the loaded unit would
be neither absent nor the file's. No operation of the installer leads there
(`UnitsOfRunning`). `MCInstaller` evaluates it on the hosts of the run.

For any workloads, workers, sessions, generations, holds and faults
(`CoordinatorProofs`):

* `CoordinatorTypesAlways`: `Spec => []TypeOK`, together with `WorkersAct` (a worker
  that is not idle has a START or a STOP), without which the type of the command it
  sends would not be kept.
* `NoGuardIsLeaked`: `Spec => []NoLeakedGuard`, by `GuardInv`: every in-flight key is
  of the newest session and that session still exists; a key without a dispatch
  sequence has its worker; a worker that has sent has a sequence. The steps outside the
  workers only take keys away (`OthersKeepGuard`); an ended session takes all of them,
  because none is of an earlier one; `WorkersKeepGuard` goes through the worker's steps.
* `StartsAlwaysFollowHold`: `Spec => StartsFollowHold`, by `HoldInv`:
  * `HoldKnown`: nothing on its way to the Agent carries a revision above the
    database's, and what carries the newest revision carries the newest state;
  * `HelloFirst`: a hello stands first in its session's buffer, and while it does
    nothing of that session has been answered, so the session is not ready;
  * `HoldReaches`: while the stream of a live session is up, the Agent has the newest
    revision, or it is in the hello or in the command the operator's call waits for;
  * `WorkersHold`: a worker past its reservation excludes the operator's call, and one
    that is about to send a START has seen that there is no hold.

  A worker sends to a ready session, which is past its hello, while no call waits: the
  third case of three is left, the Agent has the newest revision. The invariant is
  preserved by one lemma per group of steps (`WorkersKeepHold`, `SetHoldKeeps`,
  `HoldCallKeeps`, `SessionsKeepHold`, `HelloKeepsHold`, `HoldKeepsHold`,
  `GoroutineKeepsHold`, `RestartKeepsHold`), and no step but a worker's send puts a
  START into a buffer (`OnlyWorkersSendStarts`).

* `BarrierStaysQuiet`: `Spec => []BarrierQuiet`, by two more facts:
  * `OrdersKnown`: everything that can become a START names a generation of this
    database, wherever it is (snapshots, workers, pending commands, buffers, commands
    being prepared), and behind the barrier there is no runtime command at all and no
    worker that could send one;
  * `LostSeen`: an execution of the discarded history that lives is in the list the
    Controller has and in every list on its way. It can only end (`LostFades`: no START
    names it), so a list that does not show it can be believed however old it is, and
    behind the barrier no runtime result is awaited that could overwrite a list
    (`EntrySees`, `RepliesSee`).

  The barrier is then lifted only for a list without such an execution
  (`BarrierSees`), over any number of reconnections.

`CoordinatorAssumption` is all these assume. The other three need `OneQuietSession`:

* `DispatchIsSerialised`: `OneQuietSession /\ Spec => []Serialised`;
* `ClaimsNeverOverlap`: `OneQuietSession /\ Spec => []NoOverlap`;
* `DeletedStaysDead`: `OneQuietSession /\ Spec => []RetiredIsDead`.

`OneQuietSession` is `MaxEpoch = 1 /\ MaxHold = 0 /\ "executions" \notin Expiring`: one
session, no change of the hold, no list of executions that gets too old. It fixes these
three of the constants as `coordinator_session` does and leaves the others open
(workloads, claims, workers, generations, faults, failing scans, the restore). Without
any one of its parts the code keeps none of the three: TLC violates each with a second
session, with an expiring list, and with `MaxHold = 2` (section 5). Only a hold that is
entered and never left (`MaxHold = 1`) would do no harm in that instance; the proofs do
not cover it.

None of the three is inductive, and none is so without the others. `OneSession` is the
invariant: types, `HoldInv`, and `QuietInv`, whose parts are

* `SessionQuiet`: the one session never ends;
* `PathInOrder`: everything the Agent carries out passes one first-in, first-out path,
  from the inbox over the START being prepared to the replies not yet taken. There is
  at most one runtime command on it, and a list asked for after that command is behind
  it. So a list with the sequence of the last dispatch tells its outcome;
* `FreshFirst`, `PathKeys`, `OneKey`: nothing is dispatched before the first list; what
  is on the path is the last dispatch, newer than the entry, and its key is in flight;
  there is at most one key, of a workload that exists, and a START's key has nothing
  live beside it that claims the same;
* `WorkersQuiet`: a worker past its reservation has its key, or it comes too late to
  `setDispatchSequence` for a key that was resolved. Then no plan asks for the same
  action any more (`Finished`), so the late call cannot meet the key of another worker;
* `SeenLive`, `ListsLive`, `OutcomesTrue`: whatever the Agent runs is in the entry, or
  the START that made it is still in flight; the same for every list on its way, with
  the answer to that START behind it; an outcome on its way is still true;
* `SnapsKnown`, `BarrierStands`, `DeletedDead` and NoOverlap itself, which the steps
  need of each other.

One lemma per kind of step shows that it keeps them (`DispatchQuietly`, `RecheckQuiet`,
`SendQuiet`, `SequenceQuiet`, `OperatorQuiet`, `QueryQuiet`, `StopQuiet`, `StartQuiet`,
`FailsQuiet`, `ExecutionsQuiet`, `ResultQuiet`, `RestQuiet`, ...); `QuietStep` combines
them. What happens to the path alone is said once (`JoinsInOrder`, `LeavesInOrder`,
`PathLeaves`, `PathKept`), and `Evolves` says what the rest has to do with it. TLC
agreed on every part over the instance of `coordinator_session` (509,376 states)
before it was proved.

Everything else is model-checked only. Liveness under fairness and ENABLED are out of
the prover's reach, so IncidentsSettle, Converges and the other liveness properties
stay with TLC; the induction theorems of the library cannot be used, since they take an
operator for a parameter. Every safety property of the passing runs has its theorem.

## 5. Where the code and its documents disagree

| Run | Property | What happens |
|---|---|---|
| `supervisor_hold_watchdog` | HoldConfirmedQuiet | A superseded watchdog start that meets a hold (`supervisor_linux.go:263`) marks the newer, running execution STOPPED; the hold is confirmed over a live process. Once the hold is lifted, a START of that execution creates a second process beside the first: OneProcess fails in the same instance, five steps after the trace of this run. |
| `coordinator_old_session` | NoOverlap | An ended session's goroutine finishes the START it was preparing (`agentnet/client.go:257`) after the new session saw it absent and started the replacement. |
| `coordinator_scan_failure` | Converges | A failed scan for unmanaged processes during bootstrap (`controllernet/server.go:416`) leaves the session NOT READY; heartbeats refresh READY sessions only. |

Further observations without a run of their own:

* A timeout while the observation is not fresh clears the guard of a command whose
  outcome is open (`coordinator.go:769`); an older execution list then makes the entry
  fresh and a second command goes out. `Serialised` fails in `coordinator_session`
  when executions may expire, which is why that instance lets only the other facts
  expire. NoOverlap and RetiredIsDead fail there too.
* The same happens without an expiring observation when a hold is set and lifted: its
  return asks for a fresh bootstrap (`RequireFreshBootstrap`), and a runtime timeout in
  the meantime clears the guard of a START whose outcome is open. A list asked before
  that START makes the entry fresh, its workload is stopped in the database and deleted,
  and the START is carried out afterwards: RetiredIsDead fails in the instance of
  `coordinator_session` with `MaxHold = 2`, and so do NoOverlap and Serialised.
* With two sessions the instance of `coordinator_old_session` also breaks
  RetiredIsDead, by the same late START; and Serialised when there are two workers:
  the late START lets the same key be reserved twice, and `setDispatchSequence`, which
  recognises a key by its value (`coordinator.go:985`), resolves the other worker's.
* Recovery of the original side removes `restore-old` without first syncing a
  `farm.db` that a killed recovery may just have linked (`manager_linux.go:1146`).
  With `Ordered = FALSE` ReplacesAtomically fails: a power loss can leave no
  database. The restored side syncs first.
* A kill between the creation of the restore marker and its write makes every later
  start refuse until an operator removes the empty file; `StartRecovers` states
  exactly that exception.
* With two command goroutines in the Agent at once (two overlapping sessions) the last
  section of `Stop` may overwrite an execution that the other has just restarted
  (`supervisor_linux.go:437`).

Four hazards in `PROJECT.json` have no property: that one, the timeout of a START
over an observation that is not fresh (`coordinator.go:769`; no passing run lets
executions expire, and where they may, the properties fail as said above), the key
that `setDispatchSequence` recognises by value (`coordinator.go:985`), and the
temporary name of a default configuration that could not be removed
(`install_linux.go:798`). Each entry says why.

## 6. What is not modelled

The component list in `PROJECT.json` gives every part and its status. Not modelled:

* **Package store**, `internal/packages`: verification and publication of miner
  packages by rename. Nothing of it is shared with the modelled state; next in the
  plan.
* **Identity, PKI, trust stores and pairing**: mostly key and certificate handling,
  behind file operations that a crash can interrupt; next in the plan.
* **Controller lock**: a kernel lease. Restore and Backups take it as given.
* **Inventory and process observation**: reads of `/proc` and `/sys`. What they report
  is an input of Coordinator, FarmConfig and Incidents.
* **Miner adapters, wire mapping, generated protocol code**: conversions without
  state or order.

Partly modelled: the Coordinator leaves out GPU snapshot refreshes and the
Controller's own restart; sessions leave out the pairing window and certificates;
the Agent client and the miner runtime leave out telemetry and the buffer's limit;
the resolver leaves out command lines; the database leaves out migrations; the
administration API and the programs leave out decoding, output and wiring.

Steps of modelled handlers that are left out:

* The start validator that `ValidateStart` stands for only gives a verdict. With
  `RefreshInventory` set, `acquireFinalStartValidation` also publishes the inventory it
  has read and stops every execution with assigned GPUs whose binding has become invalid
  (`minerruntime/adapter.go`, 184-217 and 367-387): a `Stop` of other executions, called
  from inside a start, while the binding lease is held. The one adapter in the repository
  uses the CPU only, so no execution has a device yet; the invalidation belongs to the
  inventory, which is planned.
* A restore removes the sidecars `farm.db-wal` and `farm.db-shm` before it links anything
  (`controllerbackup/manager_linux.go`, 752-756). The model has the database as the one file
  `farm.db`.
* `le0x-controller backup create` opens the database as the server does
  (`main_linux.go:395`) and thereby creates an empty `farm.db` in a data directory without
  one. The model's backups are taken of a database that exists.

What a modelled handler does to other state outside the model is named in section 2.
Hashing, argument layout, cryptography and file modes are out of scope.

## 7. Plan

In order of importance:

1. `PackageStore`: concurrent installs of one package, publication by rename,
   verification before use.
2. `Pairing`: single use of an enrollment token when its persistence fails.
3. An instance of Supervisor with the command goroutines of two sessions.
4. The Coordinator over `FarmConfig`'s database instead of its own smaller one.

Theorems planned: which of Serialised, NoOverlap and RetiredIsDead hold again once the
code ties a key to its dispatch (`coordinator.go:985`), keeps the guard of a command
whose outcome is open (`coordinator.go:769`) and waits for the goroutine of an ended
session. The path of one session would then be an invariant of each session.
