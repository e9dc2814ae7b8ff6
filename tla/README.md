# Specifications of mittnite

mittnite is an init system for containers: it renders configuration files,
waits for the services a container depends on, runs boot jobs to completion and
then keeps the container's jobs running, restarts them when they crash, stops
them on a signal and offers an HTTP API to inspect and control them.

This directory holds TLA+ specifications of that behaviour, the TLC
configurations that model-check them, and theorems about them that TLAPS proves.
Every definition is translated from the Go source; `PROJECT.json` maps each one
to the lines it stands for.

    tlc -config MCRunner_managed.cfg MCRunner
    tlapm RunnerProofs.tla

`PROJECT.json` also lists the runs; section 4 names the configurations beside them.

## 1. The system

### Components

| Component | Source | State | Operations |
|---|---|---|---|
| common job | `pkg/proc/job_common.go`, `crashloopbackoff.go` | flags `restart`, `stop`; `interrupt`; local `attempts`, `backOff`; mtimes of watched files | `Init`, `Run` (restart loop), `Watch`, `IsRunning`, `Restart`, `Stop`, `crashLoopSleep` |
| process supervision | `pkg/proc/basejob.go`, `types.go`, `types_status.go` | `cmd`, `phase`, log files, the set of managed pids | `startOnce` (with its wait goroutine), `Signal`, `SignalAll`, `SetPhase`, `Reset` |
| runner | `pkg/proc/runner.go` | `jobs`, `bootJobs`, `waitGroup`, `errChan`, `bootErrs` | `Boot`, `Run`, `exec`, `tick`, `startJob`, `waitForJobsToShutDown` |
| job API | `pkg/proc/runner_api_v1.go`, `api.go` | none of its own | start, restart, stop, status, list, logs |
| boot jobs and start-up | `cmd/up.go`, `pkg/proc/job_boot.go` | signal channels, readiness, exit code | the `up` command: render, probe, boot, run, shut down |
| lazy job and listener | `pkg/proc/job_lazy.go`, `job_listener.go` | `process`, `lazyStartLock`, `activeConnections`, `lastConnectionClosed`, `stopExpected` | accept a connection, start the process for it, forward, stop it after a cool-down |
| zombie reaper | `pkg/proc/reaper_linux.go`, `reaper_registry.go` | the registry of managed pids | reap orphans, leave managed children to their goroutine |
| probe server | `pkg/probe/server.go` | the set of probes | `Wait` until all succeed, `HandleStatus` |
| pid file | `pkg/pidfile/pidfile.go` | a file | `Acquire`, `Release` |
| log forwarding, streaming | `basejob.go`, `types.go`, `runner_api_v1.go`, `pkg/cli` | `stdout`, `stderr`, pipes, channels | open and close log files, decorate and copy output, read a log file and send it over a web socket |
| configuration | `internal/config` | none once read | read, merge, default, reject |
| file rendering, concrete probes, command line client, root command | `pkg/files`, `pkg/probe/probe_*.go`, `cmd/mittnitectl`, `pkg/cli`, `cmd` | none | one sequential pass each |

### Interactions

* `cmd/up.go` starts the HTTP server, waits for the probes, calls `Runner.Boot`
  and then `Runner.Run`; a SIGTERM or SIGINT cancels the context all of them share.
* `Runner.Run` spawns one goroutine per job that executes `job.Run`. The
  goroutine enters `r.waitGroup`, and hands the error of a job that may not fail
  to the runner through the unbuffered `r.errChan`.
* A job's `Run` calls `startOnce`, which starts the process, publishes it as
  `job.cmd` and through a channel to the *announcer* goroutine (which sets the
  phase), and spawns a *wait goroutine* that reaps it and reports through `errChan`.
* HTTP handlers run concurrently with all of these. They set flags on the job,
  signal `job.cmd`, or call `Runner.startJob`, which spawns one more goroutine.
* `Runner.tick`, every five seconds, lets each job `Watch` its files and, with
  `--keep-running`, starts failed and completed jobs again.
* Every process that is not a managed pid is reaped by the reaper.

Between them, `job.cmd`, `job.process` and `r.jobs` are shared without a lock, the
flags `restart` and `stop` and the phase are each protected alone, and nothing
protects a check of one together with an update of another.

### What is hard, and what would make each component correct

* **common job, supervision, runner, API.** One job object is acted on by any
  number of `Run` goroutines, their announcers and wait goroutines, the tick and
  the handlers. Correct: at most one live process per job; signals and `Wait`
  reach the process that is supervised; a phase that says a job has ended means
  it; a stop is effective and final; every child is reaped; `Run` returns after
  a cancellation, not before the jobs are down and not too late.
* **start-up.** Signals during the wait, a boot job that fails, times out or
  hangs, a fatal error that does not end the program. Correct: no regular job
  starts before all boot jobs have succeeded; a signal always leads to an exit.
* **lazy job.** Connections race the cool-down and the end of the process.
  Correct: at most one process; a connection is forwarded only to a process that
  was started for it; an idle process is stopped, a busy one is not.
* **reaper.** It races `cmd.Start` and `cmd.Wait`. Correct: it never takes a managed
  child's status; every orphan is reaped in the end.
* **probe server.** Correct: `Wait` returns when and only when all probes have
  succeeded; a status request is always answered.
* **pid file.** Two instances that start together. Correct: at most one holds it.
* **output.** Forwarders outlive the call that spawned them, and the log files too.
  Correct: a call loses no output it waited for, leaves no file open, closes nothing that
  is not its own, and kills nobody by closing a pipe.
* **log stream.** Client, handler and streamer end in any order. Correct: lines come in
  order, `--tail` shows the last ones, all three end, and mittnite does not.
* **job table.** Correct: every job is in it once, a request acts on the job it names,
  and every job that has failed is started again.
* **configuration.** Correct: defaults, deprecated fields and overlays resolve as
  documented.

`PROJECT.json` lists the hazards one by one, each at its line, with the properties
that cover it.

## 2. The plan

In order of importance; done is marked.

1. **`CommonJob`** (done): the goroutines and processes of one job object.
2. **`Runner`** (done), which extends `CommonJob`: the runner's goroutine, the wait
   group, the error channel, the API handlers and the shutdown. `MCRunner` and its
   configurations check it; **`RunnerProofs`** (done).
3. **`Startup`** (done): `cmd/up.go`, `Runner.Boot`, `job_boot.go`, `probe.Wait`, the signal
   fan-out and `ExitFunc`, with an abstract `Run`; **`StartupProofs`** (done).
4. **`LazyJob`** (done): `job_lazy.go` with `job_listener.go`; `MCLazyJob` instantiates it;
   **`LazyJobProofs`** (done).
5. **`Reaper`** (done): kernel process table, registry, registration in `startOnce`;
   **`ReaperProofs`** (done).
6. **`PidFile`** (done): several instances, crashes, outdated files; **`PidFileProofs`** (done).
7. **`JobTable`** (done): several jobs, `r.jobs` as `removeJob`, `addJobIfNotExists` and the
   middleware use it, twin objects for one name, the error of one job that leaves
   the others alone; `MCJobTable` instantiates it; **`JobTableProofs`** (done).
8. **`Output`** and **`LogStream`** (done): log files, pipes and forwarders; the channels of the
   log stream that the handler closes, and the client; **`OutputProofs`** and
   **`LogStreamProofs`** (done).
9. **`Lifecycle`** (done): the abstract life of one job, which `Runner` implements for clients
   that never start a job that is not running; the proof, step by step, is in `RunnerProofs` (done).
10. `RestartPolicy`: attempts, back-off and its reset in discrete time against a
   reference definition of "at most `maxAttempts` starts in a row"
   (`README.md:110` words it differently).
11. `Probes` (`HandleStatus`, whose timer fires once), `Watches` (the files a job watches)
   and `Config` (pure operators against reference definitions).

Every invariant and action property of the passing runs has a theorem. Worth proving beyond that:
`AtMostOneProcess` and `EndedMeansEnded` for clients that start a job only in a final phase (the run
`careful`), with a single handler. `OneGoroutine` says that no handler is inside `startJob`; its
replacement has to say that at most one of runner and handler is, and only while no goroutine is
active, although the tick may have looked at the phase before the handler did.

## 3. The modules

### `CommonJob`: one job object

A `Run` goroutine occupies a slot of `Runs`, with its program counter `pc[r]`.

| `pc[r]` | where the goroutine is |
|---|---|
| `enter` | first statements of `CommonJob.Run`, `job_common.go:46-64` |
| `loop` | head of the restart loop, 66-72 |
| `start` | `startOnce` up to `cmd.Start`, `basejob.go:112-223` |
| `forked` | the process exists, `job.cmd` does not point to it yet, 225 |
| `announce` | `process <- job.cmd.Process`, 229-231 |
| `select` | waiting for the process or the context, 243-277 |
| `term` | context done, SIGTERM sent, waiting for exit or timer, 279-289 |
| `ret` | `startOnce` has returned, `job_common.go:73-125` decides |
| `sleep` | `crashLoopSleep` |
| `report` | returned an error that `startJob` sends on `errChan` |
| `returned` | about to call `waitGroup.Done()` |

`waiter[r]` and `awaited[r]` are the wait goroutine of the slot's last `startOnce`; it
reads `job.cmd` when it is first scheduled, not when it is spawned, and the model keeps
that gap. `announcer[r]` is the goroutine that ranges over the process channel; the
phase it sets may come at any time later. `result[r]` is `errChan` and later the error
`startOnce` returns. `phase`, `restart`, `stop` and `cmd` are the fields of the job. `os`
is the kernel's process table: `free`, `alive`, or a zombie with status `ok` or `error`.
`terms` and `kills` are the live processes that were sent SIGTERM or SIGKILL.

One action is one stretch of code between two accesses to shared state, so the
interleavings of the model are those of the goroutines.

### `Runner`: the runner and the API around it

`runner` is the position of `Runner.Run`: `boot` (not entered yet, the HTTP server already
answers), `startPhase` and `startInit` (inside `startJob`, whose `SetPhase` and whose check of
the phase are separate), `select`, `watchMark`, `watchSignal` and `scan` (`tick`), `drain`
(`waitForJobsToShutDown`) and `done`. `drained` is the channel of `waitGroupToChannel`, which
once closed stays closed. `api[q]` is the position of handler `q`. `ReqPanics` is a
request that arrives before `Run` has made `r.waitGroup`: the handler panics in
`Add`, after `Init` has cleared the flags, and `net/http` recovers. (A request that
signals in that state panics at `job.interrupt` or does nothing else, which
leaves the same state as `ReqSignals`.)

`StartPhases` is the one assumption about clients: in which phases they send
a start. All phases is a client that does not look; `{}` is a client that never
starts a job that is not running; `{"stopped", "failed", "completed"}` is a client that
asks for the status first.

### `Lifecycle`: what the runner promises

Three variables: the `process` of the job, whether the job is `down` for good, and whether
mittnite is `over`. A process starts only where there is none, and never after the job is
down; mittnite ends only when there is no process. `Runner` maps its state to them: `process` is the
process that has not been sent SIGKILL, `down` says that the stop flag is set, no process is left
and no goroutine is on its way from the check of the flag to a fork, and `over` that `Run` has returned, unless by the timeout of the shutdown.
`ImplementsLifecycle` then says of every step, whichever goroutine takes it, that it is a step of
`Lifecycle` or changes none of the three.

### `JobTable`: the slice of jobs

`arr` and `len` are the backing array and the length of `r.jobs`. `removeJob` writes a nil into the array,
and a handler that is in the middle of its `range` goes on with the length it began
with, so it may look at that nil, at a job twice, or not at all (`Looks`, `Takes`). Handlers make a
new object for a name they do not find in the slice: objects are pairs of a configured entry
and its maker. `runner` is the position of the goroutine of `Run` between `exec`, the two halves of
`tick` (`select` collects, then `remove`, `add` and `start` for each job), and `todo` what it still
has to start, in the order of the slice (`Ascending`: the increasing enumeration of a set of
indices, stated by what it is rather than computed). A job is `up` or not, without the details of `CommonJob`; `failing` are the goroutines that
block on `errChan`. With `Overlap = FALSE` handlers do not search the slice during a tick.

### `Output`: from the process to the log

Call `k` is the k-th `startOnce` of a job, call 0 a watch command, which uses the same forwarders for
mittnite's own streams. `pc[k]` is `pipes` (files are open), `run`, `drain` (the deferred wait for the forwarders),
`close` (the deferred `closeStdFiles`) and `done`. `field` are `job.stdout` and `job.stderr`, which keep their
values from call to call, `open` the handles that are open, `target[p]` what the forwarder of
pipe `p` has captured. `procs[k]` are the processes that hold the write ends: the main
process, and a child that may outlive it. `sent`, `got` and `out` count chunks on their way; `out` also says
with what a chunk is decorated. `Init` chooses the configuration: files that are absent, shared or
separate, and how the options of the job and the global defaults combine (`ApplyJobLogDefaults`).

### `LogStream`: `mittnitectl job logs`

`hpc` is the handler `apiV1JobLogs`, `spc` the streamer that executes `readStdFile` for one file after the other,
`canceled` the context that the goroutine waiting in `conn.ReadMessage` cancels. Sends on `outChan` and `errChan` are
unbuffered: send and receive are one action, or block. `scan` is the position of the
`bufio.Scanner` in the file and in its buffer: what `scanner.Bytes()` returns is a cell of the buffer, which
`AfterScan` overwrites when the scanner refills it, also in the list of `seekTail` (`buffered`) and in the hand of the
handler (`held`). A slice carries the line it was made for and whose `text` it holds by now. `wire` is the connection,
`printed` what the client has shown. `writeErr` says that the close frame has been sent, or that it has not got through
within its second (`SendsClose`): the handler ignores the error, and goes on. From `serve` to `wait` the handler is
between the spawning of the streamer and its `select`, so that the first offers of lines may already be dropped. `Scan` may
fail at any refill (`ScanFails`, and in `seekTail`, which does not ask for the error, `TailScanned`), be it because the file
cannot be read, or because a line is longer than any buffer: the scanner has then read over all of its buffer in use (`Overrun`).
When the handler is `done`, its channels are closed, and a send panics (`Panics`), which ends mittnite.

The buffer is measured in lines, and the job appends whole lines; that a real buffer begins with 4096 bytes and grows to
64 KB, and that a token may be a part of a line which is still being written, is left out.

### `Startup`: from the first signal handler to the exit

`main` is where the main goroutine is: `wait` and `probing` (the two halves of `Handler.Wait`'s
loop), `ready`, `boot` and `drain` (the two selects of `Runner.Boot`), `run` and `exited`. `full` holds
which of the four signal channels, each with a buffer of one, is full; `fanout` is the
goroutine that copies a signal into three of them one after the other, and blocks while one
is full. `server` and `canceller` are the receivers of two of them; the third is only received
during the wait. `boot[b]` and `proc[b]` are the goroutine and the process of a boot job: `send`
is a goroutine whose `bootErrs <- err` has not been received.

`log.Fatal` calls `ExitFunc`, which panics and recovers from its own panic. So it
returns, and the code after it is executed: after a failed boot the command goes on to
`Run`, and a missing path ends the wait for all probes. (`Fatal` in the goroutines of the probe
server and of the API is followed by nothing.) `Runner.Run` appears as two steps, `RunStarts` and
`RunReturns`; that it returns after a cancellation is `ShutdownCompletes` of `Runner`.

### `LazyJob`: connections, a process, a cool-down

`pos[l]` is the accept loop of a listener, including the call of `AssertStarted`: `assert`
(the first look at `job.process`), `lock` (waiting for `lazyStartLock`) and `starting` (waiting for the
process or the error, with the lock). `conn[c]` is the handler of a connection; `dial` to
`closed` is where `activeConnections` counts it. `starter[s]` is the goroutine that executes
`startOnce` and then clears `job.process`, which takes the lock (`clear`). `watcher` is the cool-down
watcher, with one step for each of its three unlocked reads and one for the locked stop.

The lock is implicit: only a listener in `starting` keeps it over several steps
(`Unlocked`), every other critical section is one action. `idle` stands for the comparison of
`lastConnectionClosed` with the cool-down; it starts as TRUE, since the zero time is long
past. `stopExpected` and the error of a process only decide what is logged here. The
signals of `Watch` are covered by processes that end by themselves.

With two listeners and a failed start a second process is possible: the starter of the
failed start clears `job.process` later, when another listener may have started a process. The
listener that got the error makes the runner return soon. `AtMostOneProcess` and
`ProcessIsKnown` therefore exclude the states after a listener has failed.

### `Reaper`: who waits for which child

`os` and `owner` are the kernel's process table: the state of a pid, and the call of
`startOnce` whose child it is, or that it is an orphan. `managed` is the registry.
`job[j]` is a call between `cmd.Start` (`started`), `registerManagedPid` (`waiting`), the return of
`cmd.Wait` (`reaped`) and `unregisterManagedPid`. `reaper` goes from `select` to `peek`, to `lookup` with the
pid `seen`, and to `wait4` or back. `ExitsEarly` names the calls whose process may end before it
is registered, `ReusesEarly` says whether the kernel may give a pid away while a goroutine
still refers to it. `waitid` may report any zombie: the kernel's order depends on the thread that
forked. No call that is not modelled, such as a probe, has children.

### `PidFile`: one system call per action

`pc[p]` is the life of mittnite with pid `p`, `file` the inode at the path, named by the life that
created it, and `written` the inodes that are not empty. `seen[p]` is what `os.ReadFile` returned. Pids
are used again, by mittnite and by `others`. `Concurrent` allows overlapping acquisitions, and
`Foreign` holds pids that mittnite may not signal. `Init` allows an outdated file.

### Abstractions common to the modules

* Time: a timer may fire whenever its `select` is entered. Thereby the length of
  back-offs, and the wake-up of a back-off by `interrupt`, are covered but not measured.
* One job in `Runner` and in `LazyJob`: what several have in common is in `JobTable`.
* A process group is its main process (but see `Output`, where a child outlives it).
* A pid is not reused while a goroutine or `job.cmd` refers to it (but see `Reaper`).
* The reaper does not interfere with the processes of `CommonJob`, `Startup` and `LazyJob`.
* With `maxAttempts = -1` the counter is left at 0, since nothing reads it.

## 4. What is checked

| Run | Configuration | Shows |
|---|---|---|
| `managed` | `--keep-running`, `CanFail`, restarting watch, stop and restart requests | `TypeOK`, `SupervisesItsOwn`, `EndedMeansEnded`, `ExitLeavesNothing`, `ZombiesAreReaped`, and that `RunnerInv` holds (it is inductive, contains `Supervision` and implies `AtMostOneProcess`: see the proofs) |
| `careful` | no `--keep-running`, a one-time job, all three requests, starts only in a final phase | `AtMostOneProcess`, `EndedMeansEnded`: a client that looks first is safe, with one handler |
| `plain` | no `--keep-running`, stop and restart, job may not fail, fair | liveness `ShutdownCompletes` and `EndOfJobsEndsRun`; the refinement `ImplementsLifecycle` |
| `job_table` | four entries: one that can be controlled, a one-time one that cannot, a lazy one and a second one of its name that must not fail; one handler; fair | `TableIsComplete`, `ActsOnNamedJob`; liveness `FailedIsRestarted` |
| `output_calls` | two calls or a watch command, every configuration of files and decoration, every failure; fair | `NothingLost`, `FilesAreClosed`, `ReaderOutlivesWriters`, `Decorated`; liveness `OutputEnds` |
| `log_stream` | one or two growing files, missing or not, with and without `--follow` and `--tail`, a slow client that may go away, a scanner that overwrites its slices and may fail; fair | `LinesInOrder`, `TailIsLastLines`, `IntactInSmallLogs`; liveness `StreamEnds` and `LogsEnd` |
| `startup_boot` | two probes, one for a path; a boot job with a timeout and one that may fail; fair | `ReadyBeforeBoot`, `BootOkMeansBooted`, `CanceledBootIsClean`, `BootSupervision`; liveness `SignalEndsUp` |
| `lazy_listeners` | two listeners, two connections; opening, accepting and starting may fail | `OneStartAtATime`, `AtMostOneProcess`, `ProcessIsKnown` |
| `lazy_cooldown` | one listener, a client that connects again and again, starts may fail, fair | liveness `IdleProcessEnds` and `HeldIsPassedOn` |
| `reaper_orphans` | two calls, one of which may exit early, three pids, fair | `StatusIsKept`, `Reaping`; liveness `OrphansAreReaped` |
| `pidfile_restarts` | three pids, acquisitions one after the other, crashes anywhere; fair | `AtMostOneHolder`, `HolderIsNamed`; liveness `OutdatedYields` |

Each module has one type invariant, `TypeOK`, and each is proved: by a theorem `TypeCorrect`, in
`JobTableProofs` as a part of `JobTableInv`. The inductive invariants `OutputInv`, `LazyInv`, `JobTableInv`,
`WaitInv`, `StreamInv` and `TextInv` stand beside their proofs; TLC confirms each on the instance of the run that checks what
follows from it (run the proof module, with the constants of that run and the invariant in the configuration).
`MCRunner_storm.cfg` is one more instance that passes: a client that starts a one-time job again and again in any
phase. The wait group need never be seen at zero then, and `ShutdownCompletes` rests on the timer of the shutdown.

### Bounds

*Runner.* Two process ids and one concurrent handler unless noted. Two slots let
a new goroutine overlap one old one, which every known or conceivable overlap needs
first; a third one could only be spawned by the same steps from a state that
already violates the properties. Two pids allow one process to be replaced by
another, or to live beside it. `MaxAttempts` 2 is the least that distinguishes a retry
from the last attempt, and 1 the case without retries. A handler returns to
`idle`, so that one handler issues any number of requests one after the other, and
races with the tick, which uses the same `startJob`.

*JobTable.* Four entries make every branch of `Init`, of the lookup and of `tick` reachable, and two jobs
may fail before one tick, which is what rotates the slice. `Room` 5 is an array that never has to grow.

*Output.* Two calls let a forwarder outlive the first one beside the second. Two chunks per stream
are a line that is longer than the read buffer; `MaxSent` 2 bounds what all write together, so that both streams, or both calls, or one
line in two parts are in transit. One option stands for both, which only differ in what they write.

*LogStream.* Three lines and a tail of two: something is left out, and something is appended
while it is sent. `MaxWire` 1 makes the handler block. With `Buffer` 2 the scanner refills its buffer in
the middle of a file, reuses it from its begin, and overwrites slices in the list and in the hand of the handler; a file
of two lines is still small in the sense of `IntactInSmallLogs`, one of three is not.

*Startup.* Two boot jobs are what an error of one beside the success of the other needs, with
each attribute on one of them. Signals are unbounded: a third one is what blocks the fan-out.

*LazyJob.* Two listeners and two connections are the least for the double-checked lock;
two slots for starters let a new one overlap the one that still has to clear
`job.process`, and two pids let both have a process. `lazy_cooldown` has one listener, because with
two `IdleProcessEnds` does not hold (`MCLazyJob_open_fails`), and one connection: the properties are
about its coming and going, and the watcher's reads do not tell two from one.

*Reaper.* Two calls and a third pid for an orphan, so that all kinds of zombies wait at once.

*PidFile.* A holder, an instance that acquires, and an outdated or foreign pid.

The symmetry of slots, pids, handlers, listeners and connections is used in the runs
without temporal properties only. Deadlock is checked everywhere: mittnite that has
exited is a state that repeats.

### Fairness

The Go scheduler is assumed to run every runnable goroutine (weak fairness of each
goroutine's step). A `select` with several ready cases picks at random, so a case that
is ready again and again is picked in the end (strong fairness of the cases of
`Runner.Run` and of the wait for the probes; the ticker, one of the competing cases, only
fires every few seconds). `sync.Mutex` hands over to a goroutine that has waited
for more than a millisecond (strong fairness where `LazyJob` needs the lock).

*Runner.* Strong fairness of `RunnerStarts` makes up for the bound on the slots, since a `go`
statement never waits. A process that was sent SIGKILL ends. Nothing is assumed of
requests, of the cancellation, of processes that were not killed, nor, in `FairSpec`,
of the shutdown's timeout: `plain` shows that the safety net is not what makes
the shutdown end. `TimedSpec` adds that the timer fires, which `MCRunner_storm.cfg` needs. `ObedientSpec`
adds processes that honour SIGTERM; it makes the counterexample of `MCRunner_stop_lost.cfg`
meaningful, since with a process that ignores SIGTERM a stop is ineffective by design.

*JobTable.* The tick competes with `errChan` in one select (strong fairness). Where handlers do not
overlap with a tick, its removal waits for them, which is the model's way to keep them apart (strong fairness too).

*Output.* The goroutines, and the timer of the drain. Processes need not end, nor write.

*LogStream.* The goroutines of mittnite, and a client that reads what has arrived. The user
need not interrupt it, and the job need not write. The disconnect is seen although `conn.ReadMessage`
waits in a goroutine of its own.

*PidFile.* An instance that acquires the file takes its next step, unless it is killed. Nobody has to start.

*Startup.* The goroutines, including the timer of the escalation, and that `Run` returns
when it is cancelled. The timeout of Boot's shutdown is not relied on, nor that a boot
job ends by itself, nor that the probe server can shut down.

*LazyJob.* In addition time passes, and a process that was sent SIGTERM ends: the cool-down
sends nothing else.

*Reaper.* The ticker fires. Each orphan is reported in the end as long as no managed zombie is
there, because orphans come to one list of the kernel, in order. `OrphansAreReaped` says what
remains: the zombies of jobs may come first again and again.

### Where the code does not keep a promise

Each of these configurations checks one property and ends with a counterexample. `start_in_backoff`
is a run of `PROJECT.json` too, with the promise quoted.

| Configuration | What happens |
|---|---|
| `MCRunner_start_in_backoff` | A start during the back-off of a crash loop. No process runs, so the handler calls `startJob`, which overwrites the phase `crashLooping` before it looks at it: a second goroutine is spawned, and both start a process. |
| `MCRunner_stop_lost` | A stop between the loop's check of `job.stop` and `job.cmd = cmd`. The signal goes to nobody (or to the previous process), and the new process runs on although `stop` is set. |
| `MCRunner_late_announcer` | A one-time job that ends at once. `Run` sets `completed`, then the announcer sets `started`. |
| `MCRunner_stopped_restarted` | With `--keep-running`. A stop while the last attempt to start fails: the phase becomes `failed`, and the next tick starts the job and clears `stop`. |
| `MCRunner_early_exit` | Without `--keep-running`. The job ends, a start is accepted, then `Run` sees the channel that was closed before, and returns while the new process is alive. |
| `MCRunner_stop_in_backoff` | A stop during the back-off ends the loop without a phase: the job is shown as crash-looping for ever. |
| `MCJobTable_twins` | A handler searches the slice while a tick has taken the job out of it, makes a second object of the same name and starts it: two processes. |
| `MCJobTable_abandoned` | A job that must not fail fails, and `Run` returns while another job is up, without a signal to it. |
| `LogStream_tail` | `seekTail` collects slices of its scanner's buffer. When the scanner refills it, the slices for the last lines hold the text of others (`job_logs.go:18`: "output last n lines"). |
| `LogStream_slow` | The client reads so slowly that the close frame does not get through within its second (`runner_api_v1.go:181`). The error is ignored, no other frame follows, and the client waits for ever although it did not ask to follow the log, as do the handler and its goroutine. |
| `LogStream_stderr` | With two log files and without `--follow` the end of the first one closes the connection: stderr is never shown. |
| `LogStream_panic` | The client goes away while a line, or the end of the file, is being sent. The handler closes the channels (`runner_api_v1.go:163`: "handle client disconnects"), the send panics, and mittnite dies. |
| `Startup_fatal_returns` | A boot job fails, `log.Fatal` returns, and the regular jobs are started. |
| `Startup_missing_path` | A probe finds its path missing, `log.Fatal` returns, and the wait for all probes is over. |
| `Startup_kill_is_success` | A boot job that ignores the SIGTERM of its timeout is killed, and counts as a success. |
| `Startup_boot_abandoned` | One boot job fails; mittnite goes on, and a later shutdown does not wait for another boot job that still runs. |
| `MCLazyJob_stale_cooldown` | The watcher decides to stop the idle process, a connection is opened, and its process is stopped. |
| `MCLazyJob_dying_process` | A connection that is opened while the process is ending is passed on to it, and closed after `spinUpTimeout`. |
| `MCLazyJob_abandoned` | After a cancellation `LazyJob.Run` returns while its process has not ended. |
| `MCLazyJob_open_fails` | One of two listeners cannot be opened: the other one works on, without a cool-down. |
| `Reaper_registration_gap` | A process ends between `cmd.Start` and `registerManagedPid`: the reaper takes its exit status. |
| `Reaper_pid_reuse` | The same when a pid is reused between `cmd.Wait` and `unregisterManagedPid`, which deletes the entry of the new process. |
| `PidFile_concurrent` | Two instances start on an outdated file, and the second removes the file of the first. |
| `PidFile_foreign` | A probe that is not permitted is taken for a process that does not exist. |
| `PidFile_outdated` | An outdated file that is empty, or names the pid of the new instance itself (as pid 1 does in a container), keeps it from starting for ever. |

They also say why the passing runs restrict their clients and their environment: the
properties hold exactly as long as these cannot happen.

Two behaviours are in no configuration. With `--keep-running` and a job that may not fail, a tick
may restart the failed job before `Run` receives the error of its first life; `Run` then returns
that error while the new process is alive. It needs the same step of the code
(`runner.go:130`) as `MCJobTable_abandoned`. And a configuration with the deprecated `max_attempts` has no
effect: `GenerateFromConfigDir` assigns it to a copy of the job (`ignitionconfig.go:37`).

## 5. What is proved

### `RunnerProofs`

For every set of slots, pids and handlers, every `MaxAttempts` and every
setting of the flags; the assumptions are `JobAssumption` and `RunnerAssumption`, which
only give the constants their types.

* `TypeCorrect`: `Spec => []TypeOK`.
* `SupervisionCorrect`: `Spec => []Supervision`, assuming `NobodyStarts`: clients
  do not start a job that is not running (`start_in_backoff` shows that something must be
  assumed). Stop requests, restarts of a running job, the watch and the restarts by
  the tick are all allowed.
* `OneProcessCorrect` and `SupervisesItsOwnCorrect`: the two invariants that follow.
* `RunnerInvCorrect`: `Spec => []RunnerInv`, with the same hypothesis, where `RunnerInv` is
  `Supervision /\ Ending /\ Waiting /\ Draining`; from it `EndedMeansEndedCorrect` and
  `ZombiesAreReapedCorrect`.
* `ExitLeavesNothingCorrect`, assuming also `CanFail \/ ~KeepRunning`: a tick restarts a failed job
  before `Run` receives its error (`runner.go:130`), if the job may not fail and is kept running.
* `StopIsFinalCorrect` and `LifecycleImplemented`, assuming also `~KeepRunning`: the tick clears
  the stop flag of a stopped job that has failed (`MCRunner_stopped_restarted`).

*One process.* `AtMostOneProcess` is not inductive: a fork is harmless only if no
process is alive, which needs to know who could own one. `Supervision` has three parts,
each leaning on the one before. `OneGoroutine`: at most one goroutine is inside `Run`;
the runner spawns one only from `startInit`, which it reaches from `boot`, or from a tick
that saw `failed`, or `completed` for a job that is not one-time. `failed` is set on the way out of
the loop, and a job that is not one-time never becomes `completed`; so no goroutine is inside
then. `OneProcess`: a live process belongs to the goroutine in `startOnce`, unless
the shutdown gave up on it, after which the loop's head lets nothing start.
`SupervisesItsOwn`: from `announce` on `job.cmd` is the goroutine's process, because only
another goroutine in `forked` could change it; so the late read of the wait goroutine and
the signals reach the right process, and a result in `errChan` means that it is gone,
which is what `OneProcess` needs for the next fork.

*The end of a job.* `EndedMeansEnded` needs more: a goroutine that sets `stopped` or `completed` is
the last one, and while the runner is between the two halves of `startJob` the phase, which the first half
has reset, can only have been changed by an announcer that comes late (`Ending`). `startOnce` leaves
a live process behind only after it has sent SIGKILL. A zombie has exactly the wait goroutine that
was spawned for it, and the hard case is the gap before that goroutine reads `job.cmd`: `Waiting` says that
a wait goroutine that is left over from an earlier `startOnce` exists only after a cancellation, when
nothing is started any more, so that `job.cmd` still is its process. `Draining` ties
the position of `Run` to the wait group: that it has been found empty once means nothing if a goroutine may
enter it later, which without `--keep-running` nobody does.

*The refinement.* `LifecycleStep` takes the actions one by one. The process that `Lifecycle` sees
changes in three of them only (`WatchedStep`): a fork is `Starts`, the end of a process and
SIGKILL are `Ends`. `DownStep` shows that no step takes the job up again, and `ExitLeavesNothing'` that
`Run` returns only when there is no such process.

### `StartupProofs`

For every set of boot jobs and probes; `StartupAssumption` gives the constants their types.
`TypeCorrect`, `BootSupervisionCorrect`, and the invariants `BootOkMeansBooted` and
`CanceledBootIsClean` that follow; `WaitInvCorrect` and `ReadyBeforeBootCorrect`. What could go wrong is that Boot sees all goroutines ended
although one of them has an error: the two are ready in the same select. `BootOkMeansBooted`
does not say where the error is meanwhile; `BootSupervision` does. A goroutine with an error
stays in `send` until Boot has received it, and is not `done` before (`BootJobs`); Boot returns
nil, or the context's error, only when all are `done` (`BootPhase`). For the wait: a round of
probes starts with all of them to be executed, and one that still has to be has not succeeded in
this round (`OneRound`). So a round that ends without a failure is one in which every probe succeeded.

### `ReaperProofs`

For every set of calls and pids, assuming that pids are not reused while mittnite refers to
them (`~ReusesEarly`): `TypeCorrect`, `ReapingCorrect` and `StatusIsKeptCorrect`. The lookup in the
registry and `wait4` are two steps, so that `StatusIsKept` needs to know that what was looked
up as an orphan still is one: `ReaperIsRight`. A zombie that is not registered is an orphan
because a call registers its process while it is alive (`CallsOwn`), and what is not an
orphan is the process of a call that still waits (`ProcessesAreOwned`).

### `PidFileProofs`

For every set of pids, assuming `Orderly`: acquisitions do not overlap and no process
is foreign. `TypeCorrect`, `OneInstanceCorrect`, and the invariants `AtMostOneHolder` and `HolderIsNamed` that
follow. An instance removes a file only when there is no holder: it has read the file
of the holder, if there is one (`FileHasOwner`), and finds its process alive. `OneInstance`, the inductive invariant, is this and
that acquisitions do not overlap.

### `OutputProofs`

For every number of calls, chunks and pipes, without a hypothesis: `TypeCorrect`, `OutputInvCorrect`, and the four
invariants `NothingLost`, `FilesAreClosed`, `ReaderOutlivesWriters` and `Decorated`. `NothingLost` looks at a call that has
returned, while its forwarders, its files and the fields that later calls share with it are still changing.
The inductive invariant ties each of them to one call: the calls follow each other (`Sequential`); every open log file
is that of the call in progress and in its field, so that `closeStdFiles` closes all and only those (`Files`); a forwarder
whose call the timer has not cut short copies to an open target, and only discards what a target has refused, or what comes
after its call has closed the file (`Forwarding`).

### `LazyJobProofs`

For every set of listeners, connections, starters and pids, without a hypothesis: `TypeCorrect`, `LazyInvCorrect`,
and `OneStartAtATime`, `AtMostOneProcess` and `ProcessIsKnown`. `Handshake`: a listener that holds the lock over several steps has exactly
one starter that owes it an answer. `Supervised`: at most one starter is not idle, and `job.process` is its process from the
answer until it is cleared. This fails once a listener has failed, since the starter of the failed start clears
`job.process` when the lock is free again, and the second and the third property say so themselves. `FailedForGood` shows that the
exception is permanent, hence the invariant may rest on it.

### `JobTableProofs`

For every configuration, number of handlers and capacity, assuming `~Overlap` (no handler searches the slice
during a tick; `MCJobTable_twins` needs exactly that): `JobTableInvCorrect`, `TableIsCompleteCorrect` and
`ActsOnNamedJobCorrect`. `Slice` says what the slice holds while `tick` removes and adds: the first entry of each name
once, but for the one in its hand; that `removeJob` moves the last element into the gap, and leaves
a nil behind it, cannot hide a job then. `Knows` is what a handler has established between two of its steps, for instance that
no element before the present one has the name. Counting the slice takes cardinalities (`FirstFacts`,
`SliceFacts`), and that every name has a first entry takes `LeastNatural`, from well-founded induction.

### `LogStreamProofs`

For files, tails, connections and buffers of any size, with and without `--follow`, and without a hypothesis: `TypeCorrect`,
`StreamInvCorrect`, `LinesInOrderCorrect`, `TailIsLastLinesCorrect` and `IntactInSmallLogsCorrect`. The order of the slices and
the texts they hold are two matters: the order never depends on what the scanner does to its buffer, and is proved
for every file; the texts do, and are proved to be right exactly as far as they are, for files that fit into half of the buffer.

*Order.* A line on its way is in one of four places: a cell of the scanner's buffer, the list of `seekTail`, the hand
of the handler, or the connection. `Count` and `Message` read what is printed, what is on the wire and what the handler
holds as one sequence, and `Chain` says that this sequence is in order, and without gaps if
nothing is followed. Each action then keeps it, cuts it from the end (the client goes away), or extends it by one line
(`ChainKept`, `ChainCut`, `ChainExtended`), and the last case is the only one where the scanner matters: `Progress` ties the
end of the sequence to the scanner's position, across the tail that is sent first and the polls of `--follow`, and `Tailing`
follows the tail of the first file until the client has seen it.

*Texts.* `TextInv` says of each slice in the list (`ListText`), in the hand of the handler (`HeldText`) and already sent (`SentText`)
that its text is not that of a later line, or the file is `Large`. A refill reaches a cell in use only when more than half of the buffer
has been consumed and a line is left to be read. That a new poll takes a new scanner is needed too: the slice in the hand may be
older than the scanner.

### Only model-checked

* The liveness properties `ShutdownCompletes`, `EndOfJobsEndsRun`, `SignalEndsUp`, `IdleProcessEnds`, `HeldIsPassedOn`,
  `OrphansAreReaped`, `FailedIsRestarted`, `OutputEnds`, `StreamEnds`, `LogsEnd` and `OutdatedYields`: they rest on
  fairness, hence on ENABLED, which TLAPS cannot reason about.
* `AtMostOneProcess` and `EndedMeansEnded` for the clients of `careful`, which start a job that has ended: the theorems
  assume `NobodyStarts`. With two handlers that do so neither holds.

## 6. What is not modelled

The remaining items of the plan, each listed in `PROJECT.json` with its reason: `HandleStatus`, the
lengths of back-offs, the bookkeeping of watched files (in `Runner` a watch may report a change at any
tick), and the reading of the configuration. `HandleStatus` shares nothing but the probes with the rest: what it
gets wrong is that its timer fires once, so that two probes that hang keep it from answering (`server.go:87`).
`Output` leaves out the layouts of timestamps, and what two forwarders with one target do to each
other's lines. In `JobTable` starting a job that is up changes nothing: what two goroutines of one job do to each other is
in `Runner`.

For good: the concrete probes (one connection attempt each, an input of the probe server), template
rendering, the rendering of the command line client, and the HTTP library.
