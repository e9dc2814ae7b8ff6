-------------------------------- MODULE Runner --------------------------------
(***************************************************************************)
(* The Runner of pkg/proc supervising one controllable CommonJob: the      *)
(* goroutine of Runner.Run with its select loop, the HTTP handlers that    *)
(* start, restart and stop the job, the wait group and the error channel   *)
(* between them, and the cancellation of mittnite's context.               *)
(*                                                                         *)
(* The HTTP server is up before Runner.Run is entered (cmd/up.go), so a    *)
(* request may arrive while runner = "boot", when r.waitGroup and          *)
(* job.interrupt still are nil: the handler then panics where it first     *)
(* uses them and net/http recovers, which leaves its earlier writes.       *)
(*                                                                         *)
(* With one job, replacing it in r.jobs changes nothing: the slice belongs *)
(* to another module.  A tick runs the job's only watch at most once.      *)
(***************************************************************************)
EXTENDS CommonJob

CONSTANTS
  Reqs,         \* HTTP handlers that may run concurrently
  KeepRunning,  \* the flag --keep-running
  ApiOps,       \* which of "start", "restart" and "stop" clients request
  StartPhases,  \* the phases in which clients start a job that is not running
  Watch         \* "off", or the job has a watch that does "signal" / "restart"

ASSUME RunnerAssumption ==
  /\ KeepRunning \in BOOLEAN
  /\ ApiOps \subseteq {"start", "restart", "stop"}
  /\ StartPhases \subseteq Phases
  /\ Watch \in {"off", "signal", "restart"}

VARIABLES
  runner,   \* where the goroutine of Runner.Run is
  exit,     \* how Run returned
  drained,  \* the goroutine of waitGroupToChannel has closed its channel
  api       \* where each HTTP handler is

runnerVars == <<runner, exit, drained, api>>
vars == <<jobVars, osVars, runVars, ctxDone, runnerVars>>

-----------------------------------------------------------------------------
RunnerState == {"boot", "startPhase", "startInit", "select", "watchMark",
                "watchSignal", "scan", "drain", "done"}

TypeOK ==
  /\ CommonJobTypeOK
  /\ runner \in RunnerState
  /\ exit \in {"none", "finished", "failed", "canceled", "timedOut"}
  /\ drained \in BOOLEAN
  /\ api \in [Reqs -> {"idle", "startPhase", "startInit", "signal"}]

Init ==
  /\ CommonJobInit
  /\ runner = "boot"
  /\ exit = "none"
  /\ drained = FALSE
  /\ api = [q \in Reqs |-> "idle"]

-----------------------------------------------------------------------------
(* Runner.startJob, shared by the Run goroutine and the handlers.           *)

\* job.SetPhase(JobPhaseReasonUnknown)
ForgetPhase ==
  /\ phase' = "unknown"
  /\ UNCHANGED <<restart, stop, cmd>>

\* The phases in which startJob does not start the job.  It has itself set
\* the phase to unknown a moment ago, so that only what another goroutine has
\* written in between can make it refuse.
RefusesStart == phase \in {"stopped", "failed", "crashLooping"}

\* job.Init()
ResetFlags ==
  /\ restart' = FALSE
  /\ stop' = FALSE
  /\ UNCHANGED <<phase, cmd>>

\* The rest of startJob: nothing if the phase forbids it, otherwise Init and
\* a goroutine that enters Run.
InitAndSpawn ==
  \/ RefusesStart /\ UNCHANGED <<jobVars, runVars>>
  \/ ~RefusesStart /\ ResetFlags /\ \E r \in Runs : Spawn(r)

-----------------------------------------------------------------------------
(* The goroutine of Runner.Run.                                             *)

RunnerGoto(from, to) ==
  /\ runner = from
  /\ runner' = to
  /\ UNCHANGED <<exit, api>>

\* The wait group's counter is zero.
AllIdle == \A r \in Runs : pc[r] = "idle"

\* Run is entered and exec begins to start the job.
Exec ==
  /\ RunnerGoto("boot", "startPhase")
  /\ UNCHANGED <<jobVars, osVars, runVars, ctxDone, drained>>

RunnerForgets ==
  /\ RunnerGoto("startPhase", "startInit")
  /\ ForgetPhase
  /\ UNCHANGED <<osVars, runVars, ctxDone, drained>>

RunnerStarts ==
  /\ RunnerGoto("startInit", "select")
  /\ InitAndSpawn
  /\ drained' = (drained \/ (~KeepRunning /\ AllIdle'))
  /\ UNCHANGED <<osVars, ctxDone>>

\* The ticker fires and Watch finds a changed file: the phase is reset.
TickChanged ==
  /\ Watch # "off"
  /\ RunnerGoto("select", "watchMark")
  /\ phase' = NoPhase
  /\ UNCHANGED <<restart, stop, cmd, osVars, runVars, ctxDone, drained>>

WatchMarks ==
  /\ RunnerGoto("watchMark", "watchSignal")
  /\ restart' = (restart \/ Watch = "restart")
  /\ UNCHANGED <<phase, stop, cmd, osVars, runVars, ctxDone, drained>>

\* The configured signal may be one that asks the process to end, or not.
WatchSignals ==
  /\ RunnerGoto("watchSignal", "scan")
  /\ terms' \in {terms, terms \cup Signalled}
  /\ UNCHANGED <<jobVars, os, kills, runVars, ctxDone, drained>>

\* The ticker fires and no watched file has changed.
TickQuiet ==
  /\ RunnerGoto("select", "scan")
  /\ UNCHANGED <<jobVars, osVars, runVars, ctxDone, drained>>

\* Mutant: crash-looping jobs are started again as well.
RestartableCrashLooping == phase \in {"failed", "crashLooping"}

\* The phases in which tick starts the job again.
Restartable == phase = "failed" \/ (phase = "completed" /\ ~OneTime)

Scan ==
  /\ RunnerGoto("scan", IF KeepRunning /\ Restartable THEN "startPhase"
                        ELSE "select")
  /\ UNCHANGED <<jobVars, osVars, runVars, ctxDone, drained>>

\* Mutant: nobody waits for the jobs to shut down.
ShutdownBeginAtOnce ==
  /\ ctxDone
  /\ RunnerGoto("select", "drain")
  /\ drained' = TRUE
  /\ UNCHANGED <<jobVars, osVars, runVars, ctxDone>>

\* ctx.Done fired: a second waitGroupToChannel waits for the jobs.
ShutdownBegin ==
  /\ ctxDone
  /\ RunnerGoto("select", "drain")
  /\ drained' = AllIdle
  /\ UNCHANGED <<jobVars, osVars, runVars, ctxDone>>

Return(why) ==
  /\ runner' = "done"
  /\ exit' = why
  /\ UNCHANGED <<jobVars, osVars, ctxDone, drained, api>>

\* wgChan fired; with --keep-running it stays nil.
AllDone ==
  /\ runner = "select" /\ ~KeepRunning /\ drained
  /\ Return("finished")
  /\ UNCHANGED runVars

\* The goroutine in slot r hands its error over and leaves the wait group.
TakeError(r) ==
  /\ pc[r] = "report"
  /\ pc' = [pc EXCEPT ![r] = "returned"]
  /\ UNCHANGED <<mine, waiter, awaited, result, attempts, announcer>>

JobError ==
  /\ runner = "select"
  /\ \E r \in Runs : TakeError(r)
  /\ Return("failed")

DrainDone ==
  /\ runner = "drain" /\ drained
  /\ Return("canceled")
  /\ UNCHANGED runVars

\* Mutant: errors are not received during shutdown.
DrainErrorIgnored == FALSE

DrainError ==
  /\ RunnerGoto("drain", "drain")
  /\ \E r \in Runs : TakeError(r)
  /\ UNCHANGED <<jobVars, osVars, ctxDone, drained>>

DrainTimeout ==
  /\ runner = "drain"
  /\ Return("timedOut")
  /\ UNCHANGED runVars

\* Mutant: the runner never waits for the end of the jobs.
HasWaiterInDrain == runner = "drain"

\* A goroutine is in Wait on the wait group: without --keep-running from the
\* end of exec on, and in any case while Run waits for the jobs to shut down.
HasWaiter == \/ runner = "drain"
             \/ ~KeepRunning /\ runner \notin {"boot", "startPhase", "startInit"}

\* r.waitGroup.Done(): the last one releases the waiting goroutine.  Its
\* channel stays closed when a later start raises the counter again.
Done(r) ==
  /\ pc[r] = "returned"
  /\ pc' = [pc EXCEPT ![r] = "idle"]
  /\ drained' = (drained \/ (HasWaiter /\ AllIdle'))
  /\ UNCHANGED <<jobVars, osVars, mine, waiter, awaited, result, attempts,
                 announcer, ctxDone, runner, exit, api>>

-----------------------------------------------------------------------------
(* The HTTP handlers.                                                       *)

ApiGoto(q, from, to) ==
  /\ api[q] = from
  /\ api' = [api EXCEPT ![q] = to]
  /\ UNCHANGED <<runner, exit, drained>>

\* POST .../start, and .../restart of a job that is not running; a start of a
\* running job is a no-op.  StartPhases is the clients' discipline: they ask
\* for the status first and start the job only when it shows such a phase.
ReqStart(q) ==
  /\ ApiOps \cap {"start", "restart"} # {}
  /\ phase \in StartPhases
  /\ ~IsRunning
  /\ ApiGoto(q, "idle", "startPhase")
  /\ UNCHANGED <<jobVars, osVars, runVars, ctxDone>>

\* POST .../restart of a running job marks it first and signals it then.
ReqRestart(q) ==
  /\ "restart" \in ApiOps
  /\ IsRunning
  /\ ApiGoto(q, "idle", "signal")
  /\ restart' = TRUE
  /\ UNCHANGED <<phase, stop, cmd, osVars, runVars, ctxDone>>

\* POST .../stop marks the job whether it runs or not, and signals it then.
ReqStop(q) ==
  /\ "stop" \in ApiOps
  /\ ApiGoto(q, "idle", "signal")
  /\ stop' = TRUE
  /\ UNCHANGED <<phase, restart, cmd, osVars, runVars, ctxDone>>

ReqForgets(q) ==
  /\ ApiGoto(q, "startPhase", "startInit")
  /\ ForgetPhase
  /\ UNCHANGED <<osVars, runVars, ctxDone>>

ReqStarts(q) ==
  /\ runner # "boot"
  /\ ApiGoto(q, "startInit", "idle")
  /\ InitAndSpawn
  /\ UNCHANGED <<osVars, ctxDone>>

\* r.waitGroup is still nil: Init has been called when Add panics.
ReqPanics(q) ==
  /\ runner = "boot"
  /\ ApiGoto(q, "startInit", "idle")
  /\ IF RefusesStart THEN UNCHANGED jobVars ELSE ResetFlags
  /\ UNCHANGED <<osVars, runVars, ctxDone>>

\* SignalAll(SIGTERM) and interrupt.
ReqSignals(q) ==
  /\ ApiGoto(q, "signal", "idle")
  /\ terms' = terms \cup Signalled
  /\ UNCHANGED <<jobVars, os, kills, runVars, ctxDone>>

-----------------------------------------------------------------------------
\* cancel(), after a SIGTERM or SIGINT to mittnite.
Cancel ==
  /\ ~ctxDone
  /\ ctxDone' = TRUE
  /\ UNCHANGED <<jobVars, osVars, runVars, runnerVars>>

Request(q) == ReqStart(q) \/ ReqRestart(q) \/ ReqStop(q)

Handle(q) == ReqForgets(q) \/ ReqStarts(q) \/ ReqPanics(q) \/ ReqSignals(q)

RunnerStep ==
  \/ Exec \/ RunnerForgets \/ RunnerStarts
  \/ TickChanged \/ WatchMarks \/ WatchSignals \/ TickQuiet \/ Scan
  \/ ShutdownBegin \/ AllDone \/ JobError
  \/ DrainDone \/ DrainError \/ DrainTimeout

\* Once Run has returned mittnite exits, and everything in it stops.
Next ==
  \/ /\ runner # "done"
     /\ \/ JobStep /\ UNCHANGED runnerVars
        \/ \E r \in Runs : Done(r)
        \/ RunnerStep
        \/ \E q \in Reqs : Request(q) \/ Handle(q)
        \/ Cancel
  \/ runner = "done" /\ UNCHANGED vars

Spec == Init /\ [][Next]_vars

-----------------------------------------------------------------------------
(* Fairness.  The Go scheduler runs every runnable goroutine (WF).  A select *)
(* whose case stays ready, or becomes ready again and again, takes it        *)
(* eventually, because select chooses uniformly among the ready cases (SF);  *)
(* the ticker, which competes with them, fires every five seconds.  SF of    *)
(* RunnerStarts makes up for the bound on the slots: the go statement itself *)
(* never waits.  A process that was sent SIGKILL ends.  Requests, Cancel,    *)
(* and the exit of a process nobody killed are left to chance, and so is     *)
(* the timeout of the shutdown, which exists for goroutines that hang.       *)

Alive(A) == runner # "done" /\ A

JobFairness ==
  /\ \A r \in Runs :
       /\ WF_vars(Alive(RunStep(r) /\ UNCHANGED runnerVars))
       /\ WF_vars(Alive(WaiterStep(r) /\ UNCHANGED runnerVars))
       /\ WF_vars(Alive(AnnounceDone(r) /\ UNCHANGED runnerVars))
       /\ WF_vars(Alive(Done(r)))
  /\ \A p \in Pids :
       WF_vars(Alive(p \in kills /\ Exit(p) /\ UNCHANGED runnerVars))

RunnerFairness ==
  /\ WF_vars(Exec) /\ WF_vars(RunnerForgets) /\ SF_vars(RunnerStarts)
  /\ WF_vars(TickQuiet \/ TickChanged)
  /\ WF_vars(WatchMarks) /\ WF_vars(WatchSignals) /\ WF_vars(Scan)
  /\ SF_vars(ShutdownBegin) /\ SF_vars(AllDone) /\ SF_vars(JobError)
  /\ WF_vars(DrainDone) /\ WF_vars(DrainError)
  /\ \A q \in Reqs : WF_vars(Alive(Handle(q)))

FairSpec == Spec /\ JobFairness /\ RunnerFairness

\* The safety net of waitForJobsToShutDown does fire, if it is waited for.
TimedSpec == FairSpec /\ WF_vars(DrainTimeout)

\* In addition every process honours SIGTERM.
ObedientSpec ==
  /\ FairSpec
  /\ \A p \in Pids :
       WF_vars(Alive(p \in terms /\ Exit(p) /\ UNCHANGED runnerVars))

-----------------------------------------------------------------------------
(* Properties.                                                              *)

LivePids == {p \in Pids : os[p] = "alive"}

\* The goroutines that have entered Run and not left its loop yet.
Active == {r \in Runs : pc[r] \notin {"idle", "report", "returned"}}

\* A job never has two live processes, whatever order crashes, restarts by
\* the watch, ticks of the runner and stop requests come in: the restart of a
\* failed job by Runner.tick never overlaps the goroutine that failed.
AtMostOneProcess == \A p, q \in LivePids : p = q

\* While startOnce supervises a process, job.cmd is that process: SIGTERM and
\* SIGKILL of the shutdown and the signals of a stop reach the right one, and
\* the wait goroutine, which reads job.cmd late, waits for the right one.
SupervisesItsOwn ==
  \A r \in Runs :
    /\ pc[r] \in {"announce", "select", "term"} => cmd = mine[r]
    /\ pc[r] \in {"select", "term"} /\ waiter[r] = "waiting"
         => awaited[r] = mine[r]

\* A phase that reports the end of a job is only seen when no goroutine still
\* runs it and no process of it is alive, except one that shutdown gave up on
\* and killed.  Runner.tick and careful clients rely on it when they start
\* the job again.
EndedMeansEnded ==
  phase \in {"failed", "stopped", "completed"} =>
    Active = {} /\ LivePids \subseteq kills

\* Runner.Run never returns, except by its safety-net timeout, while a process
\* of the job is alive that has not at least been sent SIGKILL.
ExitLeavesNothing ==
  exit \in {"finished", "failed", "canceled"} => LivePids \subseteq kills

\* A process that has exited stays a zombie only as long as some goroutine
\* is on its way to wait for it.
ZombiesAreReaped ==
  \A p \in Pids : os[p] \in {"ok", "error"} =>
    \E r \in Runs :
      \/ awaited[r] = p
      \/ mine[r] = p /\ pc[r] \in {"forked", "announce"}
      \/ waiter[r] = "spawned" /\ cmd = p

\* Nothing of a job that has run and was stopped is alive, and nothing is
\* between the check of job.stop and the start of a process.
Down ==
  /\ stop /\ cmd # Nil
  /\ LivePids = {}
  /\ \A r \in Runs : pc[r] # "start"

\* Once a job was stopped and is down it stays down, crash loop or not: as
\* long as nobody starts it through the API.
StopIsFinal == [][Down => Down']_vars

\* The job as others see it.  A process that was sent SIGKILL no longer counts,
\* and neither does a Run that its safety-net timeout has ended.
Watched == LivePids \ kills

TheProcess == IF Watched = {} THEN Nil ELSE CHOOSE p \in Watched : TRUE

Life == INSTANCE Lifecycle WITH
  None <- Nil,
  process <- TheProcess,
  down <- Down,
  over <- exit \in {"finished", "failed", "canceled"}

\* One process at a time, no start after a stop that has taken effect, and no
\* end of Run before that of the process: all of it in every single step.
ImplementsLifecycle == Life!LifecycleSpec

\* Run returns some time after mittnite's context was cancelled, and not only
\* because the safety-net timeout of waitForJobsToShutDown fires.
ShutdownCompletes == ctxDone ~> runner = "done"

\* Without --keep-running, Run returns once the job is over, be it that it
\* completed, was stopped, or failed and reports its error.
EndOfJobsEndsRun ==
  (runner = "select" /\ Active = {}) ~> runner = "done"

\* job_actions.go documents the stop command: "This command can be used to
\* stop a managed job."  With processes that honour SIGTERM, a stop request
\* takes the job down.
StopTakesEffect ==
  (stop /\ runner = "select") ~> (LivePids = {} \/ ~stop \/ runner = "done")

\* TestTickDoesNotRestartCompletedOneTimeJob: "completed one-time job must stay
\* completed".  Only a start, which forgets the phase, takes it back.
CompletedStaysCompleted ==
  [][phase = "completed" => phase' \in {"completed", "unknown"}]_vars

\* TestTickDoesNotRestartStoppedJob: "Simulate a job that was explicitly
\* stopped", by setting the phase to stopped.  A job whose goroutine has ended
\* because of a stop request is not left with the phase of a crash loop.
StoppedIsNotCrashLooping ==
  stop /\ AllIdle => phase # "crashLooping"

-----------------------------------------------------------------------------
(* The inductive invariant behind AtMostOneProcess and SupervisesItsOwn, for *)
(* clients that never start a job that is not running.  RunnerProofs proves  *)
(* it; each part is what an action of the next part relies on.               *)

NobodyStarts == StartPhases = {} \/ ApiOps \cap {"start", "restart"} = {}

\* The goroutines whose startOnce has a process.
Owners == {r \in Runs : pc[r] \in {"forked", "announce", "select", "term"}}

\* Only the runner starts goroutines, and only when the last one has ended.
OneGoroutine ==
  /\ \A r, s \in Active : r = s
  /\ phase = "failed" => Active = {}
  /\ phase = "completed" => OneTime
  /\ runner \in {"boot", "startPhase", "startInit"} => Active = {}
  /\ \A q \in Reqs : api[q] \notin {"startPhase", "startInit"}

\* A live process is that of the goroutine in startOnce, or shutdown has
\* given up on it; none is left behind when the next one is about to start.
OneProcess ==
  /\ \A p, q \in LivePids : p = q
  /\ \A r \in Owners : LivePids \subseteq {mine[r]}
  /\ LivePids # {} => ctxDone \/ Owners # {}
  /\ \A r \in Runs :
       /\ pc[r] = "term" => ctxDone
       /\ pc[r] = "start" => LivePids = {}
       /\ pc[r] \in {"select", "term"} /\ result[r] # "none" => LivePids = {}

Supervision == OneGoroutine /\ OneProcess /\ SupervisesItsOwn

(* What EndedMeansEnded, ExitLeavesNothing, ZombiesAreReaped and the         *)
(* refinement of Lifecycle need beyond Supervision; all of it together is    *)
(* inductive for the same clients.                                           *)

\* A goroutine that sets a final phase is the last one, startOnce never leaves
\* a live process behind that it has not killed, and startJob, which forgets
\* the phase, cannot find that of a completed run again.
Ending ==
  /\ phase \in {"stopped", "completed"} => Active = {}
  /\ runner = "startInit" => phase \in {"unknown", "started"}
  /\ Owners = {} => LivePids \subseteq kills
  /\ kills \subseteq LivePids

\* What a wait goroutine is for: it is spawned once per process, and outlives
\* startOnce only after the shutdown has given up on the process.  No later
\* process takes its place in job.cmd before a wait goroutine has read it.
Waiting ==
  /\ \A p \in Pids : os[p] # "free" =>
       \E r \in Runs :
         \/ awaited[r] = p
         \/ mine[r] = p /\ pc[r] \in {"forked", "announce"}
         \/ waiter[r] = "spawned" /\ cmd = p
  /\ \A r \in Runs :
       /\ r \in Owners => mine[r] \in Pids
       /\ waiter[r] # "waiting" => awaited[r] = Nil
       /\ waiter[r] # "off" /\ pc[r] \in {"select", "term"} => result[r] = "none"
       /\ waiter[r] # "off" /\ pc[r] \notin {"select", "term"} =>
            /\ ctxDone
            /\ pc[r] \in {"ret", "returned", "idle"}
            /\ \A s \in Runs : pc[s] \notin {"start", "forked", "announce"}

\* Without --keep-running the job is run once, and nobody starts it after the
\* wait group has been found empty; with it, Run only waits once it drains.
Draining ==
  /\ exit # "none" => runner = "done"
  /\ runner = "done" => exit # "none"
  /\ drained => AllIdle /\ runner \in {"drain", "done"} \cup
       (IF KeepRunning THEN {}
        ELSE {"select", "watchMark", "watchSignal", "scan"})
  /\ ~KeepRunning =>
       /\ \A r, s \in Runs : pc[r] # "idle" /\ pc[s] # "idle" => r = s
       /\ runner \in {"boot", "startPhase", "startInit"} => AllIdle /\ cmd = Nil
  /\ CanFail => \A r \in Runs : pc[r] # "report"

RunnerInv == Supervision /\ Ending /\ Waiting /\ Draining
=============================================================================
