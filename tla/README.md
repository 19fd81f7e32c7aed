# A TLA+ verification of kubesync

kubesync keeps software mirrors on Kubernetes. A *controller* turns `Job` and
`Manager` objects into deployments, a *manager* serves a REST API on top of the
API server, and one *worker* pod per mirror runs the syncs. This directory holds
TLA+ models of the parts whose correctness depends on the order in which things
happen, TLC configurations that check them on small instances, and proofs that
TLAPS checks for all instances.

`PROJECT.json` maps every definition to the lines it models and lists the runs,
the findings, the hazards and the theorems.

## The system

| Part | State | Operations | Talks to |
|---|---|---|---|
| Mirror job (`worker/job.go`) | `state`, `ctrlChan` (1 slot), `disabled`, the run with its `kill` and `jobDone` channels, the semaphore | `mirrorJob.Run` (the control loop), `runJob`, `runJobWrapper`, hooks | provider, `managerChan` |
| Provider (`worker/*provider.go`, `worker/runner.go`) | `isRunning`, `cmd`, `logFileFd`, the child process | `Run`, `Start`, `Wait`, `Terminate` | operating system |
| Hooks and context (`worker/*_hook.go`, `worker/context.go`) | a stack of context layers, log files, snapshots | `preJob` ... `postFail`, `Enter`, `Exit` | provider |
| Worker (`worker/worker.go`, `worker/schedule.go`) | mutex `w.L`, the schedule with its own mutex, `managerChan` (32), `exit` | `POST /`, `runSchedule`, `Halt`, start-up | job, manager |
| Manager (`manager/server.go`) | `Job`, `Announcement` and `File` objects in the API server, read through a cache; `rwmu` | job, schedule and size updates, enable/disable, edits, client commands, announcements, files, mirrorz | API server, workers |
| Controllers (`internal/controller`) | owned deployments, services, config maps, volume claims; status phases | three `Reconcile` functions | API server |
| Pure functions (`internal/types.go`, `internal/recognizer.go`) | none | sizes, command verbs, file names | |

What makes each part hard, and what it should guarantee:

* **Job.** Three goroutines and a process for each run; four ways out of an
  attempt; the loop waits for the runner while the runner may wait for a full
  channel. A run must be over before the loop goes on, a process must never be
  left unwatched, tokens must be exact, messages ordered, a kill must get
  through.
* **Provider and hooks.** A goroutine in `provider.Run` outlives the attempt that
  was terminated, so that several meet in the provider. Two processes must not
  write to one mirror, a snapshot must not catch a sync in progress, and context
  layers must be left as often as they are entered.
* **Worker.** The handler, `runSchedule`, `Halt` and the job share two mutexes,
  two channels and an atomic state, and each reads the state before it acts on
  it. Commands must be answered, a signal must end the worker after its job, the
  manager must learn how a run ended, and a job must be planned again after each
  run.
* **Manager.** Handlers read an object from a lagging cache and write their whole
  copy back. No request may undo what another stored.
* **Manager and worker.** Each calls the other with a mutex held; requests are
  lost or arrive late, pods crash. Nobody may wait for ever.
* **Controllers.** Reconciles on lagging caches, retried for ever; one active
  manager per namespace; objects must converge to the desired ones although only
  some changes trigger a reconcile.

## Modules

| Module | Models | How it is related to the others |
|---|---|---|
| `MirrorJob` | `worker/job.go`, and the provider as the job sees it | abstract view of the next two |
| `Worker` | `POST /`, `runSchedule`, the schedule, `Halt` | extends `MirrorJob`, implements `JobSpec` |
| `SyncRun` | hooks, context, command and rsync providers, `runner.go` | implements `MirrorJob` by `INSTANCE MirrorJob WITH proc <- Process` |
| `TwoStage` | the two-stage rsync provider | extends `SyncRun` |
| `JobRegister` | a `Job` object that is read and written in one step, and what each request makes of its status | abstract view of the next |
| `Manager` | the handlers that change a `Job`, the cache, `rwmu`, `mirrorz` | extends `JobRegister`, implements `RegisterSpec` |
| `MirrorSystem` | the worker as the manager sees it, the network, crashes | extends `Manager`, implements `ManagerSpec` |
| `JobController`, `ManagerController` | the two reconcilers, their objects, caches and work queues | |
| `Catalog` | announcements with their reconciler, file entries | |
| `Controllers` | the last three side by side | extends them |
| `MCSyncRun`, `MCTwoStage`, `MCControllers` | instances for TLC | |
| `MirrorJobProofs`, `WorkerProofs`, `WorkerRunProofs`, `SyncRunProofs`, `HookProofs`, `ManagerProofs`, `SystemProofs`, `ControllerProofs` | theorems and proofs | `WorkerProofs` uses `MirrorJobProofs`, `WorkerRunProofs` uses `WorkerProofs`, `HookProofs` uses `SyncRunProofs`, `SystemProofs` uses `ManagerProofs` |

State and actions, module by module:

* `MirrorJob`. The constant `Loops` names the calls of `mirrorJob.Run`; there may
  be more than one, since the handler launches one for every Start of a disabled
  job. `loop[l]` is the program counter of the call, `run[l]` that of its runner
  (`runJob`) together with the goroutine in `provider.Run` (`sync`), and `proc` is
  the one process. An action is what a goroutine does between two points where
  another one can make a difference. The environment actions (`Control`,
  `Receive`, `Boot`, `GoRun`) are all that the rest of the worker may do to a job.
* `Worker`. The handler holds `w.L` across its steps; `sp` is the program counter
  of `runSchedule`; `known` is what the manager was told last.
* `SyncRun`. `call[c]` is a goroutine in `provider.Run`; it holds `lock` from `Lock`
  to `Unlock`, opens the log file (`fd`), starts the process (`ps`), waits for
  whatever `p.cmd` is when it gets there, and unsets `isRunning`. `Terminate` is
  `SigTerm`, the wait for the process with the mutex held, and `SigKill`. `hook` is
  the place in the hook lists; each kind of hook fails or not, enters or leaves a
  context layer, or takes the snapshot. `Process` is what `MirrorJob` calls `proc`.
* `TwoStage`. The provider keeps its mutex except while it waits; `Relock` is the
  return from `Wait` to the loop over the stages.
* `JobRegister`, `Manager`. A handler holds `rwmu` from its read to its write and
  is one step that reads `cache` and writes `job`; the write is refused unless the
  version of the copy is the stored one. The stop command is the exception: it
  stores `Paused`, then calls the worker with `rwmu` held. `Sync` lets the cache
  catch up. `clock` is the time, which stands still or goes on between requests.
  `LastOnline` is not kept; that it differs or not decides whether an update that
  changes nothing else makes a new version, so both may happen.
* `MirrorSystem`. `sp` is the place in `Worker.Run` and `runSchedule`, `req` the
  request that it waits for, `late` the requests that the HTTP client gave up and
  the manager has still to serve. The job is reduced to its state and to the
  order of its messages (`Follows`), which is what `MessageOrder` shows of
  `MirrorJob`; a run whose process cannot be terminated ends without a message. On
  a signal `Halt` takes `w.L`, sends `jobHalt` and waits (`HaltLock`, `HaltSend`); what
  a job that is Halting says is still reported. The messages that `runSchedule`
  flushes after `exit` are in `Worker` only.
* `JobController`, `ManagerController`. A reconcile takes a copy from the cache,
  decides what to apply and delete, makes one call per step, any of which may
  fail and put the object back into the queue, and stores the status last. An
  object is what of it depends on the spec, such as the containers of a
  Deployment. The flag `fresh` of a copy stands for its resource version. Only
  changes of the generation, and the creation and deletion of owned objects, put
  something into the queue, as the event filters say.
* `Catalog`. The manager edits announcements and files from its cache. The
  reconciler reads an announcement from a cache of its own (`GetNews`) and updates
  its status in a second step (`DateNews`), which is refused, and tried again, when
  the copy is not the stored version any more; a restart of the controller
  reconciles, and so dates, every announcement again. `updateFile` patches, reads
  again, and stores.

The definitions `JoinedAtOnce`, `UpdateBlindly`, `PatchesAppFirst` and their like,
each directly in front of the definition it distorts, are the program with a
plausible bug. No specification uses them: they document that each property
notices that bug.

Abstractions. Messages carry a status and the schedule flag, not their text. In
the worker, times are left out: a planned run is due at any moment, a timeout
strikes at any moment when `Timeout` is set. A process is one pid: children of a
command that outlive it are not followed. The settings of a Job map names to
values, of which `Unset` is one; the controllers have only the fields of a spec on
which they decide. What mirrorz shows is a set of letters with times, so a letter
that is shown twice (`N` for a new mirror) is there once; the `C` of a proxy, which
depends on no status, is left out. Adjacent
steps of a goroutine are merged where no other goroutine can tell: the receive
from `managerChan` and the check of the state after it, the two loads in that
check, and `w.L.Unlock()` with the `close(w.exit)` after it. The API server, its
caches, the work queues and Linux processes are external: they are modelled from
how the code uses them.

## Runs

| Run | Asks | Instance |
|---|---|---|
| `job` | does a run end before the loop goes on (`IdleHasNoRun`), is no process left unwatched (`NoUnattendedProcess`), are tokens and messages in order (`SemaphoreExact`, `MessageOrder`), does a kill get through (`KillCompletes`) | one loop, two attempts, timeouts, failing hooks, all control actions |
| `worker_safe` | does `Halt` wait for the run (`HaltWaits`), does the manager learn how a run ended (`StatusSettles`), does the worker drive its job as `JobSpec` allows | Start, Stop, Restart, one signal; no timeout |
| `worker_serve` | can `AddJob` deadlock (`NoSelfDeadlock`), is every command answered (`CommandsServed`) | Stop and Ping; every stored status |
| `worker_live` | does one signal end the worker (`HaltCompletes`), is a next run planned after every run (`KeepsSyncing`) | one signal, Ping, lost reports, failing hooks, no timeout |
| `sync` | can two processes run (`OneProcess`), can one outlive its termination unnoticed (`NoUnattendedSync`), is a snapshot torn (`SnapshotQuiet`), are layers balanced (`Layers`), is `MirrorJob` true of provider and hooks (`ImplementsJob`), does a kill get through the provider's mutex (`KillCompletes`) | two calls in the provider at once, one hook of each kind |
| `manager` | is the Job a register (`RegisterSpec`), do its times fit together and never go back (`TimesOrdered`, `TimesMonotone`), is a known size kept (`SizeKept`), does mirrorz contradict itself (`MirrorZSane`) | one setting with two values, two sizes, three times, four versions |
| `system` | are `rwmu` and `w.L` given back although a stop command and a start-up wait for each other (`LockReleased`, `StartupCompletes`) | two versions, one late request, any number of signals and crashes |
| `controllers` | do the objects of a Job converge (`JobsConverge`) and is its status left alone (`StatusUntouched`), is a mounted ConfigMap there (`ConfigMounted`), is a deployed Manager complete (`DeployedIsComplete`), alone once the cache knows it (`ActiveStays`) and succeeded by the next (`Succession`), are announcements published once and dated after every edit (`PublishedOnce`, `EditsDated`), is what `updateFile` answers true (`RepliesTrue`) | six specs, two Managers, a few faults each |

`worker_safe`, `sync` and `manager` also check a refinement: the detailed
specification has the abstract one as a property.

The other four runs each show a place where the code does something else than a
comment or a document of the repository says; the texts are in the `findings` of
`PROJECT.json`:

* `replan`: `AddJob` locks its mutex twice when a run is planned already. The HTTP
  server is up before start-up plans the first run, so a Restart may flush the
  schedule too early; the run that it starts ends while that plan is still there.
* `two_stage`: a kill between the stages of a two-stage rsync is lost, and the
  second stage runs unwatched.
* `pause_undone`: a report sent before a pause, or late, replaces `Paused` by
  `Failed`.
* `two_managers`: reconciles on an old cache make two Managers active, the second
  being reconciled before the cache has the phase of the first. It is the
  specification of `controllers`, which checks what holds in spite of that: once
  the cache knows the active Manager no other joins it (`ActiveStays`).

**Known races.** Further orders of events that the models contain, in which the
code does what its authors may not want, though no comment says so. Each can be
seen by changing the constants of a run.

* A Stop that flushes the schedule just before `runSchedule` plans a run leaves a
  paused job planned, and a tick starts it.
* `Halt` does not wait for a disabled job that has just been started, as its state
  is `Disabled` until its loop runs (two loops, `Stored = {"Disabled"}`).
* A sync that ends at once may be taken for a failed start; its error is nil and
  the program panics (`NilPanic`).
* A Ping loses the planned run of a job that is Ready; a start received while a
  run winds down is swallowed after its handler has flushed the plan.
* A timeout whose `Terminate` fails ends the run without a report or a plan.
* `HaltCompletes` fails with a second signal and with Stop, and `CommandsServed`
  fails before start-up and after the loop has returned: both send on `ctrlChan`
  with `w.L` held and nobody receives.
* A post hook that fails leaves the layer of the log limiter, and with it the log
  file of the failed attempt, in the context for all later runs. `layers` counts
  from the beginning of a run, so `Layers` is about runs whose hooks go well.
* An edit of a Job made with an old cache loses the settings of the edit before;
  an update that the manager refuses for a conflict counts as delivered.
* Disabling a Job reconciles nothing: its worker stays until another event. The
  Service and ConfigMap of a Job that is no mirror any more are deleted under
  names they do not have, so they stay. A Job without a size makes the
  reconciler panic on every try, and the panic ends the whole controller process,
  which restarts and queues every object again. In the model only that Job is
  queued again, so the liveness of the other reconcilers is that of a cluster
  without such a Job.

**Bounds.** `Loops` has one element; the proofs cover any number. `Retry` is 1 or
2: with two attempts there is a first, a last and a retry. `Concurrent` is 1, so
that a run can wait for its own token of the run before. `ChanCap` is 1 or 2
instead of 32, so that the channel is often full. `MaxSignals` bounds the signals
at one. `Calls` allows for two goroutines in the provider, the one of the current
attempt and one that was given up; a third would need a process that survives
two kills. `Controls` of `sync` are a start and a stop: the others reach the
runner in the same two ways. `MaxRev` and `MaxClock` bound the versions and the
time of a Job; three writes and a lagging cache are enough for any conflict of
two requests. `post` is one command at a time. `MaxLate` is one late request,
which can already overtake any number of later ones. `MaxFaults` and
`MaxJobFaults` bound edits, deletions, failed calls and restarts, so that
convergence has a beginning; `MaxChanges` does so for the announcement, with three
of them, so that an edit, a restart and a failed call can meet. `Values` is one
value besides `Unset` in `manager`, and only `Unset` where settings do not matter.
`MaxTime` allows for an edit after a publication
after a creation.

`Controllers` follows the objects of one component in each behaviour (`scope`):
the components share no object, and together their states would multiply.

**Fairness.** Goroutines run on (weak fairness per goroutine). A blocked sender
is served when the channel is free infinitely often, since Go queues senders in
order, and `sync.Mutex` hands over to a waiter that starves (strong fairness for
`HttpSend`, `Fire`, `HaltSend`, `HaltLock`, `ExitLock`, and for the manager's answers,
which need `rwmu`); `select` picks at random among the ready cases, which gives
the same to `Exit`. A process that got SIGKILL goes away. Both HTTP clients have a
timeout, so a posted command returns (`PostReturns`); that the worker gives a
request up is not assumed. Caches catch up and work queues are worked off, each
Manager in the queue in its turn (strong fairness for `MBegin`, which waits while
another Manager is reconciled). `JobsConverge`
also assumes that a Manager becomes active, without which the Job reconciler
returns an error. Nothing makes clients send commands, signals arrive, users edit,
or a sync end. Only `LiveSpec` adds that a planned run is not due while the run
that asked for it winds down: the interval is a minute at least, because
`GetIntEnv` replaces zero by the default; and `KeepsSyncing` is about workers whose
syncs end. Deadlock is not checked: a job that nobody starts, a worker that has
returned and a cluster at rest may stop.

## Proofs

For every number of loops, attempts, tokens and slots, and every set of
commands:

* `TypeCorrect`: `JobSpec => []JobTypeOK`. The runner's record is typed first
  (`RunType`), then the remaining variables (`TypeStep`).
* `IdleHasNoRunHolds`: from `Settled`, which says that a loop which is neither
  waiting nor on its way out has a closed run. `IdleHasNoRun` alone is not
  inductive, as it says nothing of the loops that were just launched.
* `NoUnattendedProcessHolds`: from `Attended`, which adds that a goroutine in
  `provider.Run` belongs to a runner that awaits it (`SpawnedAwaits`), so that
  each way out of an attempt meets either no process or one that it signals.
* `SemaphoreExactHolds`: from `TokensExact`: only a run that has passed the
  select holds a token, and the semaphore is the number of the holders
  plus `releasing`; a lemma on cardinalities covers each way to take or
  return a token.
* `WorkerImplementsJob`: `Spec => JobSpec`, with the invariant `HandlerOK` that a
  handler about to send has a command the job understands.
* `WorkerKeepsJobSafe`, `WorkerTypeCorrect`: safety carried over to the worker.

For a job with one loop, and every number of attempts, tokens and slots (the
messages of two loops interleave, and `MessageOrder` is false of them):

* `MessageOrderHolds`: from `Ordered`, which ties the newest message on
  `managerChan` to the place of the runner (`NewestFits`) and says that only the
  last attempt asks for the next run (`AsksOnce`). `WorkerMessagesOrdered` carries
  it over to the worker.
* `HaltWaitsHolds`, for a job that is not stored as `Disabled` and any number of
  names in `Loops`: from `HaltInv`. `Sole` says that such a job has one loop, since
  only a Start of a disabled job launches another; `Halted` says that once `Halt`
  waits the loop is leaving, about to, or has `jobHalt` before it.
* `StatusSettlesHolds`, for the same jobs, without timeouts and lost reports: from
  `StatusInv`. A run that is over while its job is Ready was not killed
  (`Undisturbed`), so its last report is the latest status in the channel, in the
  hands of `runSchedule`, or with the manager (`Told`). Both conditions are needed: a run that is given up
  after its timeout, or a report that is lost, may leave the manager with
  `Syncing`.
* `NoSelfDeadlockHolds`, for the commands Stop and Ping: from `PlanInv`: the
  next run is in the making in one place at a time (`OnePlan`): in the schedule,
  with `runSchedule`, on `ctrlChan`, with the loop, in the run that will ask for it,
  or in a message that does. `replan` shows that Restart breaks it.

For a provider with one stage and one loop, and any number of calls left in the
provider, attempts and hooks (`SyncRunProofs`):

* `SyncRunImplementsJob`: `Spec => ImplementsJob`, so the theorems on `MirrorJob`
  are about the code of the providers too. The invariant `SyncInv` is needed
  because `MirrorJob` has one process and no mutex: `CallOK` says that from the
  start of a process to the end of `isRunning` its call owns `p.cmd` and no other
  process is there, `AttemptOK` ties the runner's view of its attempt to the place
  of the call, `RunOK` and `TermOK` say that `Terminate` holds the mutex from its
  check of `isRunning` to its last signal. Starting a process, reaping it, unsetting
  `isRunning` and the return of `Run` are steps of `MirrorJob`; taking the mutex,
  opening the log, the second signal and the hooks are not seen by it.
* `OneProcessHolds`, `NoUnattendedSyncHolds`: every live process is `p.cmd`, and one
  that was not signalled belongs to the current attempt. The second is false with
  two stages, which `two_stage` shows.
* `SyncRunTypeCorrect`, `SnapshotQuietHolds`, `LayersHolds` (`HookProofs`): from
  `HookInv`, which adds to `SyncInv` the hook that is next and the layers for each
  place of the runner (`HookOK`), that no process is left once the sync of the
  attempt is over (`QuietOK`), and who has the mutex for `Terminate` (`LockOK`).

For every set of settings, sizes and commands, every bound on time and versions,
and any number of late requests:

* `RegisterInvariant`, `TimesOrderedHolds`, `TimesMonotoneHolds`: the register is
  typed and its times are in order (`RegisterInv`); a request only sets a time to
  that of the clock, which is not less.
* `CacheCoherent`: from `Coherent`, a cached Job with the stored version is the
  stored Job. It needs that versions are never used again, not even after a
  deletion.
* `ManagerImplementsRegister`: by `Coherent`, a handler whose write is accepted has
  read what is stored, so its read and write are one step of the register.
  `ManagerKeepsTimes` carries the two properties over.
* `SizeKeptHolds`: by cases on the handlers.
* `MirrorZSaneHolds`: from `RegisterInv`, by cases on the status that is shown; that
  the last success is not after a failure needs the order of the times.
* `SystemImplementsManager`: a step of the worker, a late request or a crash is a
  step of the manager or none; `SystemKeepsTimes` and `SystemKeepsData` follow.
* `SystemTypeCorrect`: from `LockInv` and `WorkerInv`, which say where the holder of
  each mutex is.

For any number of Managers, specs and faults:

* `StatusUntouchedHolds`: from `CopiesTrue`: a copy that is marked as fresh is the
  stored Job, so a status that the reconciler may write is the one that is there.
* `ConfigMountedHolds`: from `MountInv`: of the patches that are left to a reconcile
  (`PatchesFit`), the ConfigMap comes before the Deployment that mounts it unless
  it is there, and no reconcile deletes it.
* `ActiveStaysHolds`: from the same `DeployInv` as the next. `Established` says that
  the cache knows the only active Manager and that no reconcile with the latest
  copy of another is under way. A reconcile that begins then is turned down, one
  that began before has a copy that the API server refuses, and only the deletion
  of the Manager ends it. That `two_managers` makes two active shows that the
  condition on the cache is needed.
* `DeployedIsCompleteHolds`: from `DeployInv`. The phase is the last
  of a plan (`PlanFits`), so when it is stored with the latest copy all that a
  Manager needs is there or its loss has queued the Manager (`PlanOK`); and an
  active Manager that misses something is queued, being reconciled, or of a type
  in the cache that has nothing to deploy (`Due`). It is about what the cache says
  because the reconcile goes by it; the property follows where the cache is fresh.
* `PublishedOnceHolds`, `RepliesTrueHolds`: from `CatalogInv`: the copy of a reconcile
  that counts as the latest is the stored announcement, so the time of
  publication that an accepted update keeps is the one that is stored; and
  `updateFile` has not replied while it runs.
* `ControllersTypeCorrect`, `ControllersSafe`: the lemma `SideBySide` says that the
  composition implements the specification of each controller, so their
  invariants hold together.

The proofs assume the named `ASSUME`s of the modules, which only say what the
constants are (that `Loops` is finite, and that no Manager has the empty name,
which stands for no reconcile).

Every safety property that a passing run checks is proved, under the conditions
given above, which the runs meet as well. Only model-checked: the liveness
properties `KillCompletes`, `CommandsServed`, `HaltCompletes`, `KeepsSyncing`,
`LockReleased`, `StartupCompletes`, `JobsConverge`, `Succession` and `EditsDated`, as
there is no reasoning about fairness in the provers used; and the two-stage
provider, of which `NoUnattendedSync` is false.

## Not modelled

* A Job's deletion in the controller (Kubernetes collects the owned objects) and
  the end of the active Manager as Jobs see it; the address of the manager that a
  worker is given.
* `internal/recognizer.go` and `ParseSize`, which take strings apart, the bodies
  of lists and reads of the manager, `external` (remote calls and formatting),
  log-file parsing, command lines and environments of the sync processes.
* Owned objects are watched without delay: an event of one puts its owner into
  the queue in the same step.
* `cmd/main.go` (flags and wiring), logging, gin routing, generated code and
  Kubernetes manifests change no state that a property is about.
