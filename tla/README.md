# A verification development for gonnx

gonnx installs ONNX model bundles from Git repositories and serves each model
over HTTP through a Python worker process. This directory holds TLA+ modules
that model the daemon's stateful parts, TLC configurations that check them on
small instances, and TLAPS proofs, for every value of the constants, of every
safety property that the runs check: of the supervisor of the workers, of the daemon
that is stopped, killed and started again around it, of the Python program of a
worker, of the handlers that install and delete models, and of concurrent pulls.

Paths below are relative to the repository; `manager.go` is
`internal/runtime/manager.go`, and so on (`main.go` is `cmd/gonnxd/main.go`,
`gonnxctl` is `cmd/gonnxctl/main.go`).

## 1. The system

| Component | Files | State it keeps | Operations |
|---|---|---|---|
| runtime manager | `internal/runtime/{manager,worker,dialer,runtime}.go` | `Manager.workers` (name -> Worker) under `mu`; per Worker a state, a process, a one-value `waitCh`, a socket path derived from the name | `Load`, `Unload`, `Predict`, `Describe`, `Workers`, `UnloadAll` |
| worker SDK | `sdk/python/gonnx/*.py` | the process: handler, model, bound socket, `_SHUTDOWN` | `/health`, `/describe`, `/predict`, `/shutdown`, one request at a time |
| API handlers | `internal/api/api.go` | none of their own | install, list, get, delete, pull, load, unload, predict, describe |
| registry | `internal/registry/registry.go` | SQLite table `bundles`, one connection | `Upsert`, `Get`, `List`, `Delete` |
| source installer | `internal/source/*.go` | bare mirrors, `bundles/<segment>/<sha>`, temporary worktrees `<dir>.wt` | `Install` (sync, resolve, materialize), `Update` (no caller) |
| bundle | `internal/bundle/*.go` | none: reads a directory | `Load`, `CheckAssets`, digest |
| assets | `internal/assets/assets.go` | files at their destinations, temporary files | `Plan`, `Fetch`, `CheckPresent` (no caller) |
| python venv | `internal/python/venv.go` | `.venv` and its sentinel | `Setup`, `VenvPython` |
| sysdeps | `internal/sysdeps/sysdeps.go` | none | `Check`, `Warnings` |
| schema | `internal/schema/schema.go` | none | `Compile`, `Validate` |
| daemon | `cmd/gonnxd/main.go` | wiring, signal handling | start, `UnloadAll`, `Shutdown` |
| command line client | `cmd/gonnxctl/main.go` | none | one HTTP request per command, but two for `update`; `pull` reads a stream |
| scheduler, telemetry | `internal/scheduler`, `internal/telemetry` | empty packages | |
| installation | `install.sh`, `Makefile` | | |

**How they interact.** Every HTTP request is a goroutine of its own. A handler
walks the registry, the directory tree and the manager one after the other; no
lock and no transaction spans two of them. The manager starts a worker as a
child process, talks to it by HTTP over a Unix socket found by *path*, and hears
of its death through `waitCh`. The only lock in the daemon is `Manager.mu`.

**What is hard.** `Load` holds `mu` while it waits for a process to come up;
`Unload` drops `mu` before it talks to the worker, waits for it and removes its
socket, so it overlaps with a new `Load` of the same name. `waitCh` carries one
value and has two readers. Workers die or hang at any moment. Installs, deletes,
pulls and loads of one bundle overlap; git, the network and SQLite fail half
way; the daemon itself may be killed at any step, and files and worker processes
outlive it. On a signal it unloads its workers while it still serves requests. A
worker runs foreign code for each request, one after the other. The full list, each
at its line, is `hazards` in `PROJECT.json`.

**What makes each component correct.**

- *Manager*: whoever takes the lock sees only settled workers; a worker is made
  ready by its own health answer; a request reaches a process of the model it
  named; exit statuses have one reader; no process is left unsupervised; nobody
  waits for ever.
- *Store* (API, registry, source, bundle): a registered row denotes a complete
  bundle of its own source; a running worker has its bundle; failures leave
  nothing that looks finished; each call has one effect on the catalogue or none;
  a load replaces no ready worker.
- *Assets*: a valid file is never replaced by anything else; a finished fetch
  left every asset in place, and what was pulled stays loadable.
- *Venv*: a sentinel never vouches for an incomplete environment.
- *Daemon*: `UnloadAll` stops every worker it saw; workers of an earlier daemon
  answer for a new one only where one of them was still booting when it ended; after
  a signal the daemon ends.
- *Worker server*: who answers `/health` has its session and, where `serve` calls
  `startup` at all, has been started; requests run once, in
  order, each with its own reply; `/shutdown` is the last thing it does.

## 2. The modules

| Module | Models |
|---|---|
| `ModelLifecycle` | the abstract promise of the manager: each model is absent, loading, ready, degraded or failed; loading is exclusive across all models |
| `WorkerManager` | `internal/runtime` with the worker processes, sockets and wait goroutines; the invariants, the inductive invariant, liveness, and the refinement of `ModelLifecycle` |
| `MCWorkerManager` | TLC instances of it |
| `WorkerManagerProofs` | the TLAPS proofs about it |
| `DaemonShutdown` | `main` of the daemon and `UnloadAll`, composed with `WorkerManager`: the signal, the end or death of the daemon, and the next one |
| `DaemonShutdownProofs` | the TLAPS proofs about it, on top of `WorkerManagerProofs` |
| `WorkerProcess` | the abstract promise of a worker process: the picture `WorkerManager` has of it |
| `WorkerServer` | the Python program of a worker; implements `WorkerProcess` |
| `WorkerServerProofs` | the TLAPS proofs about it |
| `ModelStore` | the abstract promise about installed models: a catalogue of usable revisions, and who runs |
| `BundleStore` | the persistent state and the handlers that change it: registry rows, bundle directories, worktrees, started workers; implements `ModelStore` |
| `MCBundleStore` | TLC instances of it |
| `BundleStoreProofs` | the TLAPS proofs about it |
| `Daemon` | request handlers and restarts, shared by the next three |
| `AssetPull` | `assets.Plan` and `assets.Fetch` on one bundle directory |
| `VenvSetup` | `python.Setup` on one bundle directory |
| `BundlePull` | `handlePull`: composes `AssetPull` and `VenvSetup`, with `gonnxctl pull` at the other end |
| `MCBundlePull` | TLC instances of it |
| `BundlePullProofs` | the TLAPS proofs about it and its two components |
| `SourceRef` | `ParseRef` and `gonnxctl update` as pure functions, with a theorem about them |

The composition goes two ways. `DaemonShutdown` EXTENDS `WorkerManager` and
`BundlePull` EXTENDS `AssetPull` and `VenvSetup`: their actions are conjoined with
what the other component does. Where two components meet at a narrow interface,
one is replaced by an abstraction that the other implements: `WorkerManager` sees
of a worker what `WorkerProcess` says and `WorkerServer` refines; `BundleStore`
sees of the manager one step per call.

### WorkerManager

| Variable | Code |
|---|---|
| `mu` | `Manager.mu` held for writing over several steps. Critical sections that never block (the RLock look-ups, `Unload` 152-159) are one step that needs `mu` free |
| `workers` | `Manager.workers` |
| `wname`, `wstate` | `Worker.BundleName`, `Worker.state` |
| `proc` | what the operating system says of the process: booting, serving, hung, stopping, zombie, reaped |
| `waitCh` | whether the exit status is in `Worker.waitCh` |
| `sock` | which process is bound to `socketPath(name)` |
| `call` | where each goroutine is in its method, its worker `w` and the peer `conn` it is connected to |

A worker is one `exec.Cmd`, one `Worker` and one wait goroutine; one identity of
`Procs` stands for all three. `client.Do` is three steps: the dial (`Connect`,
which decides the peer by whoever is bound to the path *then*), the answer, and
`DoFails`. The worker speaks HTTP/1.0 and closes after each reply, so no
connection is reused. `Predict` reads `w.state` after it released the read lock:
that is the place "gate". That read
races with `Unload`'s last assignment, `w.state = StateStopped`, which runs
without the lock; the state is one machine word, so the reader gets the old value
or the new one, which are the two orders of the model's steps.

`Load` takes the lock and then runs the bundle's check commands ("deps"), which
nothing bounds: `ChecksHang` takes it to "stuck", for ever and with the lock.

A context that ends is noticed only where the code looks at it: in a pending
`Do` (`Cancelled`) and in the select of `waitHealthy` (`LoadGivesUp`, which also
stands for the startup timer; time is not modelled, the timer may always have
fired). The arguments and environment of the child (`buildCmd`) are data and
left out, but for `GONNX_SOCKET`, which is `sock`.

### DaemonShutdown

`main` is where the main goroutine is: serving, before or in the loop of
`UnloadAll` over its snapshot `names`, draining (`srv.Shutdown`), down. It calls
`Unload` as the thread `Main`, with the 15 s context (`expired`), which a pending
`/shutdown` request looks at and `mu` does not. Requests arrive until the listener
is closed, that is, also while the workers are unloaded. `Ends` is the end of the
process by any way: goroutines, lock and map are gone; the worker processes are
not, unless systemd ends the control group, which `install.sh`'s user mode does
not use. `left` keeps what each was doing then, and such a process is reaped by
nobody in the model. `due` is a history variable: the workers in the map at the
snapshot. `Stuck` and its like wrap the actions of `WorkerManager`.

### WorkerServer and WorkerProcess

`phase` is where `serve()` is: imported, prepared (`ctx.session` is there or
`startup` has returned, or neither was called for), bound,
accepting, handling, hung in foreign code, exited. `queue` holds connections not
yet accepted, `current` the one being served, `header` whether the reply buffer
of the present handler object holds lines already, `file` what is at the socket
path. `stop` is `_SHUTDOWN`. `HandlerReturns`, `HandlerSetsHeaders`,
`HandlerUnserialisable`, `HandlerHangs` and `Dies` are the ways foreign code ends.
A connection carries one request, since `BaseHTTPRequestHandler` speaks HTTP/1.0.
The refinement mapping sends `phase` and `stop` to `WorkerManager`'s process
states and a caller's state to asked, ok or failed.

### BundleStore

`registry` holds rows, `dirs` how far the copy of each `bundles/<segment>/<sha>`
got and from which source directory, `worktree` what git knows of `<dir>.wt`,
`running` the ready or degraded worker the manager lists for each name, with the
revision it was started from (one that is not ready or degraded counts as none),
`req` where each handler is. A directory in state "part" has manifest and handler but not all
files: `bundle.Load` accepts it. A revision in `Broken` has an invalid manifest;
`bundle.Load` refuses it, and it stays on disk unregistered. `DigestFails` is the
other way `bundle.Load` fails: its walk meets a file that just went. An "update"
is `gonnxctl`'s two requests: read the row, then install what it says. `mishaps`
bounds crashes and failed clean-ups together: an error of `os.RemoveAll` or of
`git worktree remove` is ignored or logged, and leaves remains. That git fails or is
killed is no mishap: it runs under the request's context (`source.go:204`), so a
client that leaves during `git worktree add` may leave the path registered, which
`AddWorktree` does not know and `Undo` therefore does not undo; the files go, and the
worktree is "stale", registered but gone. `Manager.Load` and `Unload` are one step here;
their insides are `WorkerManager`'s: `Start` is a no-op beside a ready worker only, and
replaces a degraded one, by a worker of whatever revision the row names by now or, if
that one fails, by none (`NewWorker`). `Push` and `Crash` are the environment.
Clearing `running` at a crash says that the new daemon's map is empty; processes
of the old daemon are in no map.

`Disciplined` restricts clients: no delete of a name beside another call for it,
and no two installs of it at once. The code enforces none of this and several
properties need it; section 5 says what happens without.

`ModelStore` has the row and the worker of each name only, the latter with its
revision and whether it is ready. A row maps to the
catalogue iff its directory is usable, so `ImplementsStore` says that no step of any
handler makes a listed revision unusable or usable by halves, that an update
replaces one usable revision by another, that a load replaces a worker only if it is not ready, and that a delete
acts on what does not run.

### AssetPull, VenvSetup, BundlePull

A content stands for its digest, so `CacheMiss` compares contents. The manifest
is static, as a bundle directory belongs to one commit. `Plan` looks at one file
per step, so other pulls may come in between. The server may send any content at
all. Temporary files are named by thread and boot, as `os.CreateTemp` never
reuses a name. In `VenvSetup` the SDK content is a version that only grows;
`--clear` deletes the sentinel first or last, as the directory order has it; a
step that fails leaves what was done. A child process that outlives a crashed
daemon is covered as far as it ends before the restart. `OneSetup` is the
discipline `Setup` asks of its callers ("safe to call concurrently for different
bundle directories"), which `handlePull` does not provide. `ClientSees` is what `gonnxctl pull` makes of
the stream: it succeeds iff it reads "done", and fails at "error" and at a stream
that breaks off, as the server's 10 minute `WriteTimeout` makes it. `pulled`, a
history variable, remembers the SDK of the last success.

### SourceRef

A URL is a record of the parts that `ParseRef` looks at. The row of an installed
bundle holds what `ParseRef` returned.

## 3. The runs

| Run | Instance | Shows |
|---|---|---|
| `manager_safety` | 2 models, 2 processes, 3 goroutines; load, unload, describe; crashes at any time | all safety invariants, the inductive invariant, and the refinement of `ModelLifecycle`; 0.63 M states up to symmetry |
| `manager_progress` | 1 model, 2 processes, 2 goroutines; load, unload, predict, list; workers and check commands may hang | `LoadReturns`, `LockObtained`, `UnloadReturns`, `PredictReturns` under fairness; 59 k states |
| `daemon_life` | 1 model, 2 processes, main and 1 request goroutine; load, unload; hangs, signal, kill, 1 restart | `SnapshotStopped`, `OnlyLateBindersIntrude`, the inductive invariant, `DaemonLifecycle`, and `ShutdownEnds` under fairness; 194 k states |
| `worker_server` | 2 callers, all requests, both kinds of engine and handler | `HealthMeansLoaded`, `RunsOnce`, `RepliesClean`, `NothingAfterShutdown`, the inductive invariant, `ShutdownObeyed` and `Served` under fairness, the refinement of `WorkerProcess`; 29 k states |
| `store_safety` | 1 name from 1 source directory, 3 commits, the second invalid; 2 handlers, 1 crash or failed clean-up, disciplined clients | `RegisteredLoads`, `RegisteredComplete`, `RunningHasBundle`, `NothingHalfDone`, the inductive invariant, and the refinement of `ModelStore`; 0.26 M states up to symmetry |
| `bundle_pull` | 3 assets, two of which want one destination with different digests; 2 pulls, 2 SDK versions, 1 crash | files, temporary files and the environment, that what a client has pulled stays, and the inductive invariant; 0.37 M states |
| `degraded_reload`, `unload_failed`, `lost_socket`, `skipped_startup`, `crash_partial`, `overlapped_setup` | the smallest instances that show it | each finds the violation described in section 5 |

**Why these bounds.** The hazards of the
manager need an old and a new worker of one name (two processes), a second name
for what must not mix, and two goroutines that race; a third goroutine adds
whoever looks up or takes a worker between the steps of the other two. The proofs then remove the bounds for safety. The
liveness run has one name because a second adds only more holders of the same
lock. `daemon_life` needs a worker of the old and one of the new daemon, and one
request beside main: more requests only repeat what `manager_safety` has. In
`worker_server` two callers are one being served and one waiting; the third, who
keeps joining the queue, is the first again. In the store every hazard is between two handlers or a handler and a
crash. Three commits of one source
give updates to a valid and to an invalid revision, and a degraded worker replaced by
one of a later revision. A second source with a base name of its own only adds
directories that nobody shares; with it, and each source valid at one of two commits,
there are 1.24 M states and all six properties hold, but the run takes close to five
minutes, and the proofs cover any number of sources. For pulls, the
third asset makes two of them share a destination; one crash and one SDK upgrade
can fall between any two steps.

**Deadlock.** The manager runs and `daemon_life` say `CHECK_DEADLOCK FALSE`: the system really may
stop, with every goroutine blocked in `Unload` of failed workers (finding 2), and
`Procs` is finite. The other runs check for deadlock.

**Symmetry** is used in safety runs only.

## 4. Fairness

`FairSpec` of `WorkerManager` assumes:

- weak fairness of `Advance(t)`: a runnable goroutine runs; a check command that
  returns at all is part of it;
- strong fairness of `Enter(t) \/ LoadGivesUp(t)`, of which a goroutine waits for
  one at a time. `Enter`: `sync.RWMutex` lets a waiting writer in before later
  readers and hands over in order, so nobody who waits is passed for ever.
  `LoadGivesUp`: the startup timer's channel keeps its value once fired,
  `waitHealthy` returns to the select after each check, and Go's select picks
  among ready cases at random;
- weak fairness of `Exit(p) \/ Reap(p)`: the kernel ends a process whose serve
  loop has ended, and `cmd.Wait` returns.

`FairDaemon` assumes the same of the requests, and for the main goroutine weak
fairness of what it runs, strong fairness of its locks, and weak fairness of
`Expire`: time passes. Nobody need send a signal or start the daemon again.
`FairSpec` of `WorkerServer` assumes that the interpreter runs (`Process`) and that
a caller's dial is made or refused; foreign code need not return.

Nothing is assumed of clients, of a booting worker (it may boot for ever), of
crashes, or of a hung worker or check command. A request to a worker has no deadline of
the daemon's own, so waits on a hung worker are exempt, and no
others: `LoadReturns` says that a `Load` that never returns waits for ever for the
answer of its own worker, or for its own check command (`LoadHangs`);
`LockObtained` that whoever never gets the lock waits behind such a `Load`; and
`PredictReturns` that a `Predict` that never returns waits for the worker it has asked
(`PeerHangs`), or behind such a `Load`. The comments at `manager.go:81` and
`manager.go:28` promise more than that (section 5). That some other process hangs, one that nobody
waits for, exempts nothing. `UnloadReturns` needs no exemption, since its wait ends in
a kill.

## 5. Findings

Six places where a comment or document says something else than the code does;
each has a run that exhibits it and an entry under `findings` with the quotation.

1. `degraded_reload`: loading a *degraded* model again starts a second process
   and forgets the first, which runs on unsupervised (`manager.go:91,128`).
2. `unload_failed`: a worker that exits during start-up has its status taken out
   of `waitCh` by `waitHealthy` and stays listed; unloading (or deleting) it
   blocks for ever (`manager.go:264,169`).
3. `lost_socket`: an `Unload` that overlaps with a new `Load` of the name removes
   the *new* worker's socket file; the model stays "ready" and unreachable
   (`manager.go:172`).
4. `crash_partial`: a daemon killed during the copy leaves a directory that later
   installs accept (`source.go:53`).
5. `overlapped_setup`: two pulls of one bundle build one `.venv`; the sentinel of
   one can end up in the environment the other has cleared (`api.go:334`).
6. `skipped_startup`: `serve` calls `ModelWorker.startup` for non-ONNX engines only,
   while `model_worker.py:17-20,34,49` promise it of every worker (`server.py:186`).
   `OnnxWorkersNeverStarted` proves that no schedule avoids it.

The properties that hold name other disagreements as their exceptions or hypotheses:

- `manager.go:81` says that `Load` blocks "until the worker is healthy or the startup
  timeout expires". `waitHealthy` does not look at its timer while a health request is
  pending (`manager.go:271`), so a worker that accepts and never answers holds `Load`,
  and the lock, for ever: the exception of `LoadReturns` and `LockObtained`.
- `manager.go:28` says that `DefaultPredictTimeout` "is applied when the bundle policy
  is 0". It is never read, nor is `policy.predictTimeoutMs`, and no deadline is put on
  a forwarded request (`manager.go:207`): the exception of `PredictReturns`.
- An `Unload` dials the socket path after it has released the lock, and its `/shutdown`
  may reach the worker that a new `Load` has bound there (`manager.go:163`).
  `PeerRunsNamedModel` says no more than that it is a worker of that name.
- Two names installed from one source share a directory, and deleting one takes it
  from the other's row (`api.go:260`), whose `bundle_dir` (`registry.go:9`) is then no
  bundle. `RegisteredLoads` fails for `Wants` with two names for one source.
- Of two installs of one commit at once, the second takes the directory that the first
  is still filling for materialized and registers it (`source.go:53`).
  `RegisteredComplete` fails for `Disciplined = FALSE`.

Observations made while modelling:

- A pull that fails at its second asset has already replaced the first
  (`assets.go:100`), where `docs/rfc-v0.md:173` says that no partially updated state
  is left behind. `PulledStaysLoadable` shows that it does no harm to verified files.
- A `Load` that begins after `UnloadAll`'s snapshot leaves a worker that outlives the
  daemon where no control group ends it. Such a worker, if it was still booting, can
  bind the socket of its name under a later daemon, and answer the health check of
  that daemon's worker. The latter is then ready before it has bound its socket
  itself; if it was degraded and is loaded again, it is the next intruder. So what
  `OnlyLateBindersIntrude` says is: under a name without such a late binder nobody
  intrudes. (Three processes are needed to see the second kind; the proof attempt
  found it where the run with two had not.)
- A failed worker's lost exit status (finding 2) blocks the shutdown of the daemon
  as well, and so does a `Load` with a hung check command: `UnloadAll`'s lock
  ignores its context. `ShutdownEnds` names both.
- A handler's `Response.headers` are sent before the status line, so such a reply
  is malformed (`server.py:111`); `RepliesClean` says that it spoils no other.
- `withLogging` wraps the response in a type without `Flush`, so the progress lines
  of a pull are not flushed (`api.go:64,306`).
- `handleInstall` leaves `InstalledAt` zero (`api.go:146`).
- A crash during an install, or a client that leaves while `git worktree add` runs
  (`source.go:147`: the deferred removal of line 152 is not yet registered), leaves the
  worktree registered in the mirror; its files are gone, so `git worktree add` refuses
  the path, and that commit cannot be installed again. `AddWorktree` has both, and
  `NothingHalfDone` claims no more than that no checkout stays on disk.

## 6. What is proved

In every module the argument is the same: no safety property is inductive by
itself, so an invariant (`IndInv`, in `DaemonShutdown` `DaemonInv`) collects the facts
they rest on; each action is shown to keep it, and the properties follow from it.
TLC checks each of these invariants on the run of its module as well. The proofs
depend on the named ASSUMEs of the modules, and those of a section on the ones it
names.

### The supervisor: `WorkerManagerProofs`

For any sets `Names`, `Procs`, `Threads`, any `Ops` and any values of the flags, and
with `None` no name, process or thread (`NoneAssumption`):

- `Supervision`: `Spec => []IndInv`;
- from it `TypeCorrect`, `OnlySettledWorkersSeen`, `HealthIsOwn`,
  `RequestsReachNamedModel`, `OneReceiver`, `StatusWaitsForUnload`,
  `ProcessesSupervised` and `DeadAreDead`, one for each safety invariant of
  `manager_safety`;
- `OneProcessUnlessDegraded`: what finding 1 refutes in general holds if no
  dependency is ever missing, so degraded workers are the only way to a second
  process;
- `ReachableUnlessCrossed`: what finding 3 refutes in general holds in behaviours in
  which no `Load` of a model gets the lock while an `Unload` of it is under way
  (`NoCrossing`), so that overlap is the only way to a ready worker without its socket;
- `Refinement`: `Spec => ImplementsLifecycle`, by `StepSimulates`: a step is
  `BeginLoad`, `EndLoad`, `Remove` or leaves the abstract state alone.

That a health answer comes from the loading worker, say, needs that the socket file
is absent or the worker's own throughout `Load`, which needs that no other worker of
that name can still bind. That needs "booting implies starting" and "starting
implies somebody is loading it", and that needs the lock, which `Load` takes before
its check commands run and may never give back (`Holding`). `Bookkeeping` collects
these facts in nine parts: `TypeOK`; `CallsFormed` (each goroutine is at a place of
its method, with a worker and peer of its name); `LoadExclusive` (the lock, the
loading goroutine and the starting worker imply each other); `MapFormed`; `TakenOnce`
(a worker taken by `Unload` is out of the map and taken once); `ProcessesFormed`
(record, process and status agree); `StatusUndrained`; `Supervised`; `SocketsNamed`.
`IndInv` adds what is true only where no earlier daemon has left processes:
`AllRecorded` (every process has a record) and, per name, `Undisturbed` (who boots is
being loaded; the socket and the peer that `Load` finds are its own). Each action has
a lemma with one step per part of `Bookkeeping` and one, `KeepsOwn`, that the other
two are kept where they hold. Actions that only move a goroutine share
`ReturnQuietly` and `MoveWithin`.

### The daemon: `DaemonShutdownProofs`

In addition for any number of restarts, with `Main` one of the threads
(`MainAssumption`, `BootAssumption`):

- `DaemonSupervision`: `DaemonSpec => []DaemonInv`;
- `ShutdownIsThorough` (`SnapshotStopped`), `HealthIsOwnAcrossRestarts`
  (`OnlyLateBindersIntrude`), `LifecycleAcrossRestarts` (`DaemonLifecycle`) and
  `DaemonTypeCorrect`;
- `PromisesSurviveRestarts`: the manager's safety properties that can hold beside
  workers of an earlier daemon do hold there.

`DaemonInv` has `Bookkeeping`, which the lemmas of the supervisor keep; `Strangers`
(processes an earlier daemon left have no record, and boot only if they did when it
ended); `MainFormed`; `Undisturbed(n)` for each name without a late binder; and
`SnapshotCovered`, the heart of the shutdown: each worker of the snapshot is dead,
degraded, or `Awaited`, that is, still listed under a name main has yet to unload, or
taken by somebody. `Moves` says what a step of the manager does to a process and its
record, `TakenGoesOn` and `ListedGoesOn` that an awaited worker stays so until it is
dead, or is replaced by a `Load`, which it can only be if it is failed, hence dead,
or degraded. That is why `SnapshotStopped` has its exception.

### A worker: `WorkerServerProofs`

For any set `Callers` and any `Kinds` among the four requests (`KindsAssumption`),
`None` no caller (`NobodyAssumption`):

- `Invariance`: `Spec => []IndInv`, and from it `HealthImpliesModel`, `AtMostOnce`,
  `OwnReplies`, `ShutdownIsLast`, one for each safety property of `worker_server`, and
  `TypeCorrect`;
- `OnnxWorkersNeverStarted`: what finding 6 shows in one behaviour holds in all;
- `ServerRefinement`: `Spec => ImplementsProcess`. So what is proved of the
  supervisor over `WorkerProcess`'s picture of a worker is not undone by anything
  foreign code does inside the program, short of what the picture allows it: to
  hang, to fail or to die.

That a reply is clean needs the buffer to be empty while a handler is at work
(`CurrentFormed`), which `Accept` brings about and no reply undoes before the next.
That a handler runs once needs the queue to hold each connection once, none of them
the one being served, each of a caller whose request has not run (`QueueFormed`);
`TailOfQueue` and `AppendToQueue` keep that. That nothing runs after `/shutdown` needs
that the flag is set between two requests only (`StopSettled`). `ModelInOrder` has
session and start in place from `Prepare` on, for the workers `serve` starts, and `CallsFormed` ties a caller's place to its request
and reply.

### The handlers over registry, disk and manager: `BundleStoreProofs`

For any names, sources, commits, handlers, crashes and failed clean-ups, any set of
broken revisions:

- `Storing`: `Spec => []IndInv`;
- `RowsLoad`, `RowsComplete`, `WorkersHaveBundles`, `InstallsAreClean`, one for each
  safety invariant of `store_safety`;
- `ActsAsOneStore`: the handlers implement `ModelStore`, a degraded worker that is
  replaced, also across an update, included.

`IndInv` is `Formed /\ (Orderly => Safe /\ Clean)`. `Formed` (types, what a handler
knows at each place, rows and directories of their own source) holds whatever
clients do. The rest, and the theorems but `Storing`, have `Orderly` as hypothesis:
`Disciplined` clients, sources with base names of their own (`SegOf` injective), and
one name for each source. The code enforces none of the three, and section 5 says what
happens without the first and the third. In `store_safety` all three hold. `Safe` says that what a row, a
worker or a handler counts on is there, that an install fills only a directory that
is not in use, and that a delete works from worker to row to directory; it is proved
from what any step does to rows (`RowsMove`), workers (`WorkersMove`, with what a load does
in `StartMoves`), the handler
itself (`HandlerMoves`) and directories in use (`UsedStays`). `Clean` says how far each
install has come as long as `mishaps = 0`, and of what no install works on that it is
absent or complete, without a checkout beside it (git may list one that is gone); it is proved from who owns a directory, as
orderly installs and deletes work on directories of their own (`OwnersApart`).

### Pulls: `BundlePullProofs`

For any manifest, any number of pulls, SDK upgrades and crashes:

- `Pulling`: `Spec => []IndInv`;
- of the files, without any condition: `FetchDelivers` (`FetchedMatch`),
  `NothingLeftOver` (`NoLitter`), `ValidFilesKept` (`ValidFilesStay`);
- of the environment, where `OneSetup` holds: `SentinelVouches`
  (`UpToDateIsComplete`), `DoneMeansReady`, `PulledIsKept`. Finding 5 is what happens
  where it does not.

For the environment, what counts is the order in which `Setup` works
(`SetupsFormed`): from the first step that touches the environment to the last the
sentinel is gone, or of an SDK older than the one hashed, so it vouches for nothing;
what pip installs is at least as new as what was hashed. An SDK named anywhere has
been there (`SdkBounds`), so a sentinel of the present SDK is of no older
environment. For the files, `PullsFormed` ties what a pull has planned, fetched and
verified to the disk, and `TempsFormed` each temporary file to its pull.

### Sources: `SourceRef`

`UpdateKeepsSource`: what an update parses from a row is what the row was made from,
whatever the URL and the flags of the first install, since `ParseRef` is idempotent
on its own results.

## 7. Model-checked only, and not modelled

Only TLC checks the liveness properties, which are out of the prover's reach:
`LoadReturns`, `LockObtained`, `UnloadReturns`, `PredictReturns`, `ShutdownEnds`,
`ShutdownObeyed`, `Served`, with the fairness of section 4. The findings are
violations of single instances, and need no more. No proof relates `Manager.Load`
and `Unload`, which are one step each in `BundleStore`, to their insides in
`WorkerManager`; and that `WorkerManager`'s processes do what `WorkerProcess` says is
seen by comparing the two, not proved.

Not modelled: wording and encoding of responses and logs; JSON Schema validation
(a library: `Validate` says yes or no); the value of a bundle's digest; padding of
short SHA-256 strings; `Installer.Update` and `assets.CheckPresent`, which have no
caller; the rendering and single-request commands of `gonnxctl`; `install.sh` apart
from the fact that it replaces the SDK; the empty packages scheduler and telemetry.
A worker's listen backlog of five connections is not modelled, nor unknown paths,
which the daemon never asks for. The removal of a bundle directory under a running
pull is in `BundleStore`, not in `BundlePull`. Outside the runs' disciplines, as the
notes of the hazards say, the store properties do not hold. Beside the two cases of
section 5, a load that read the row before a delete starts a worker whose bundle is
gone; a pull that did recreates a directory with nothing but assets; an update that
crosses a delete brings the row back. No document speaks of these three.

## 8. Plan

1. (done) `ModelLifecycle`, `WorkerManager` and its proofs; `BundleStore`;
   `AssetPull`, `VenvSetup`, `BundlePull`.
2. (done) `DaemonShutdown`, `WorkerServer`, `WorkerProcess`, `ModelStore`, `SourceRef`;
   update, invalid revisions and failed clean-ups in `BundleStore`.
3. (done) Proofs: `WorkerServer`'s safety and `ImplementsProcess`, for any number of
   callers.
4. (done) Proofs: `BundlePull` and its components, `BundleStore` with its refinement of
   `ModelStore`, `DaemonShutdown` on top of the manager's invariant.
5. Proofs, next: that the one-step `Start` and `Unload` of `BundleStore` are what
   `ModelLifecycle` allows, and that each process of `WorkerManager` is a
   `WorkerProcess`, so that the compositions at the narrow interfaces are proved as well.
