------------------------------- MODULE Startup -------------------------------
(***************************************************************************)
(* The life of mittnite as the command "up" runs it: the wait for the      *)
(* probes, the boot jobs, the regular jobs, and the way of a SIGTERM or    *)
(* SIGINT through the goroutine that hands it to three channels.           *)
(*                                                                         *)
(* logrus' Fatal calls ExitFunc, which cmd/up.go replaces by a function    *)
(* that recovers from its own panic.  Fatal therefore returns, and the     *)
(* code after it is executed: this model follows the code.                 *)
(*                                                                         *)
(* Runner.Run is abstract here: it starts the regular jobs, and returns    *)
(* when they are over or because of a cancellation.  Runner models it.     *)
(* Every program that ends does so with all goroutines, but not with the   *)
(* processes of the boot jobs.  Time is abstract: a timer may fire         *)
(* whenever somebody waits for it.                                         *)
(***************************************************************************)
EXTENDS FiniteSets

CONSTANTS
  Boots,        \* the boot jobs
  MayFail,      \* those with canFail
  Timed,        \* those whose timeout is not 0
  WaitProbes,   \* the probes with wait = true
  FileProbes    \* those among them that look for a path

ASSUME StartupAssumption ==
  /\ MayFail \subseteq Boots
  /\ Timed \subseteq Boots
  /\ FileProbes \subseteq WaitProbes

VARIABLES
  main,       \* where the main goroutine is
  todo,       \* probes Wait has not executed yet in the current round
  passed,     \* probes that succeeded in the current round
  full,       \* which of the buffered signal channels hold a signal
  fanout,     \* what the goroutine that distributes signals does next
  server,     \* what the signal goroutine of the probe server does
  canceller,  \* the goroutine that waits for procSignals
  ctxDone,    \* the context has been cancelled
  boot,       \* where the goroutine of each boot job is
  proc,       \* the process of each boot job
  terms,      \* boot jobs whose process was sent SIGTERM on cancellation
  kills,      \* boot jobs whose process was sent SIGKILL
  booted,     \* what Boot returned
  regular     \* the regular jobs have been started

waitVars   == <<todo, passed>>
signalVars == <<full, fanout, server, canceller, ctxDone>>
bootVars   == <<boot, proc, terms, kills>>
vars == <<main, waitVars, signalVars, bootVars, booted, regular>>

Channels == {"signals", "readiness", "probe", "proc"}

TypeOK ==
  /\ main \in {"wait", "probing", "ready", "boot", "drain", "run", "exited"}
  /\ todo \subseteq WaitProbes
  /\ passed \subseteq WaitProbes
  /\ full \subseteq Channels
  /\ fanout \in {"recv", "readiness", "probe", "proc"}
  /\ server \in {"recv", "shutdown"}
  /\ canceller \in {"none", "waiting", "ended"}
  /\ ctxDone \in BOOLEAN
  /\ boot \in [Boots -> {"none", "start", "select", "term", "send", "done"}]
  /\ proc \in [Boots -> {"none", "alive", "ok", "error"}]
  /\ terms \subseteq Boots
  /\ kills \subseteq Boots
  /\ booted \in {"none", "ok", "error", "canceled", "timedOut"}
  /\ regular \in BOOLEAN

\* The signal handlers are installed and the probe server is being started.
Init ==
  /\ main = "wait"
  /\ todo = {}
  /\ passed = {}
  /\ full = {}
  /\ fanout = "recv"
  /\ server = "recv"
  /\ canceller = "none"
  /\ ctxDone = FALSE
  /\ boot = [b \in Boots |-> "none"]
  /\ proc = [b \in Boots |-> "none"]
  /\ terms = {}
  /\ kills = {}
  /\ booted = "none"
  /\ regular = FALSE

-----------------------------------------------------------------------------
(* Handler.Wait.                                                            *)

\* The ticker fires: a round over all probes begins.
WaitTick ==
  /\ main = "wait"
  /\ main' = "probing"
  /\ todo' = WaitProbes
  /\ passed' = {}
  /\ UNCHANGED <<signalVars, bootVars, booted, regular>>

\* A probe is executed and succeeds.
ProbePasses ==
  /\ main = "probing"
  /\ \E p \in todo : todo' = todo \ {p} /\ passed' = passed \cup {p}
  /\ UNCHANGED <<main, signalVars, bootVars, booted, regular>>

\* It fails with an error that is not about a path.
ProbeFails ==
  /\ main = "probing"
  /\ \E p \in todo \ FileProbes : todo' = todo \ {p}
  /\ UNCHANGED <<main, passed, signalVars, bootVars, booted, regular>>

\* It fails because of a path: Fatal returns, and then Wait returns nil.
PathMissing ==
  /\ main = "probing"
  /\ \E p \in todo \cap FileProbes : todo' = todo \ {p}
  /\ main' = "ready"
  /\ UNCHANGED <<passed, signalVars, bootVars, booted, regular>>

\* Mutant: a failing probe is forgotten when a later one succeeds.
RoundEndsWithAny ==
  /\ main = "probing" /\ todo = {}
  /\ main' = IF WaitProbes = {} \/ passed # {} THEN "ready" ELSE "wait"
  /\ UNCHANGED <<waitVars, signalVars, bootVars, booted, regular>>

\* All probes have been executed; the next tick begins again if one failed.
RoundEnds ==
  /\ main = "probing" /\ todo = {}
  /\ main' = IF passed = WaitProbes THEN "ready" ELSE "wait"
  /\ UNCHANGED <<waitVars, signalVars, bootVars, booted, regular>>

\* A signal interrupts the wait: the command returns an error.
WaitInterrupted ==
  /\ main = "wait" /\ "readiness" \in full
  /\ main' = "exited"
  /\ full' = full \ {"readiness"}
  /\ UNCHANGED <<waitVars, fanout, server, canceller, ctxDone, bootVars,
                 booted, regular>>

-----------------------------------------------------------------------------
(* Signals.                                                                 *)

\* The kernel delivers a signal: it is dropped if the channel is full.
Signal ==
  /\ full' = full \cup {"signals"}
  /\ UNCHANGED <<main, waitVars, fanout, server, canceller, ctxDone, bootVars,
                 booted, regular>>

FanOutReceives ==
  /\ fanout = "recv" /\ "signals" \in full
  /\ full' = full \ {"signals"}
  /\ fanout' = "readiness"
  /\ UNCHANGED <<main, waitVars, server, canceller, ctxDone, bootVars, booted,
                 regular>>

\* A send to one channel after the other, each waiting while it is full.
FanOutSends(channel, next) ==
  /\ fanout = channel /\ channel \notin full
  /\ full' = full \cup {channel}
  /\ fanout' = next
  /\ UNCHANGED <<main, waitVars, server, canceller, ctxDone, bootVars, booted,
                 regular>>

FanOut ==
  \/ FanOutReceives
  \/ FanOutSends("readiness", "probe")
  \/ FanOutSends("probe", "proc")
  \/ FanOutSends("proc", "recv")

\* The probe server is told to shut down, which takes as long as requests to
\* it are active, for ever if need be.
ServerStops ==
  /\ server = "recv" /\ "probe" \in full
  /\ full' = full \ {"probe"}
  /\ server' = "shutdown"
  /\ UNCHANGED <<main, waitVars, fanout, canceller, ctxDone, bootVars, booted,
                 regular>>

ServerStopped ==
  /\ server = "shutdown"
  /\ server' = "recv"
  /\ UNCHANGED <<main, waitVars, full, fanout, canceller, ctxDone, bootVars,
                 booted, regular>>

\* <-procSignals; cancel()
Cancel ==
  /\ canceller = "waiting" /\ "proc" \in full
  /\ full' = full \ {"proc"}
  /\ canceller' = "ended"
  /\ ctxDone' = TRUE
  /\ UNCHANGED <<main, waitVars, fanout, server, bootVars, booted, regular>>

-----------------------------------------------------------------------------
(* The goroutine of one boot job: BootJob.Run around startOnce.             *)

\* BootJob.Run returns, with an error or not; an error goes to bootErrs.
BootGoto(b, from, to) ==
  /\ boot[b] = from
  /\ boot' = [boot EXCEPT ![b] = to]
  /\ UNCHANGED <<main, waitVars, signalVars, booted, regular>>

\* Where the goroutine goes when startOnce returns.
After(b, failed) == IF failed /\ b \notin MayFail THEN "send" ELSE "done"

BootStarts(b) ==
  /\ BootGoto(b, "start", "select")
  /\ proc' = [proc EXCEPT ![b] = "alive"]
  /\ UNCHANGED <<terms, kills>>

BootStartFails(b) ==
  /\ BootGoto(b, "start", After(b, TRUE))
  /\ UNCHANGED <<proc, terms, kills>>

BootExits(b) ==
  /\ proc[b] \in {"ok", "error"}
  /\ BootGoto(b, "select", After(b, proc[b] = "error"))
  /\ UNCHANGED <<proc, terms, kills>>

\* The context of the job is done: cancelled, or its timeout is over.
BootInterrupted(b) ==
  /\ ctxDone \/ b \in Timed
  /\ BootGoto(b, "select", "term")
  /\ terms' = terms \cup {b}
  /\ UNCHANGED <<proc, kills>>

BootTerminates(b) ==
  /\ proc[b] \in {"ok", "error"}
  /\ BootGoto(b, "term", After(b, proc[b] = "error"))
  /\ UNCHANGED <<proc, terms, kills>>

\* Mutant: the SIGKILL is missing.
BootGivesUp(b) ==
  /\ BootGoto(b, "term", "done")
  /\ UNCHANGED <<proc, terms, kills>>

\* SIGTERM had no effect for ten seconds: SIGKILL, and startOnce returns nil.
BootKilled(b) ==
  /\ BootGoto(b, "term", "done")
  /\ kills' = kills \cup {b}
  /\ UNCHANGED <<proc, terms>>

BootStep(b) ==
  \/ BootStarts(b)
  \/ BootStartFails(b)
  \/ BootExits(b)
  \/ BootInterrupted(b)
  \/ BootTerminates(b)
  \/ BootKilled(b)

\* A process ends; one that was sent SIGKILL never with status 0.
Exit(b) ==
  /\ proc[b] = "alive"
  /\ \E status \in IF b \in kills THEN {"error"} ELSE {"ok", "error"} :
       proc' = [proc EXCEPT ![b] = status]
  /\ UNCHANGED <<main, waitVars, signalVars, boot, terms, kills, booted,
                 regular>>

-----------------------------------------------------------------------------
(* Runner.Boot and what the command makes of its result.                    *)

\* The probes are ready: the goroutine that cancels the context is spawned,
\* and Boot spawns one for each boot job.
BootBegins ==
  /\ main = "ready"
  /\ main' = "boot"
  /\ canceller' = "waiting"
  /\ boot' = [b \in Boots |-> "start"]
  /\ UNCHANGED <<waitVars, full, fanout, server, ctxDone, proc, terms, kills,
                 booted, regular>>

\* A boot job has a timeout that cannot be parsed: Boot returns an error
\* before it starts any, and Fatal returns.
BootConfigFails ==
  /\ main = "ready" /\ Boots # {}
  /\ main' = "run"
  /\ canceller' = "waiting"
  /\ booted' = "error"
  /\ UNCHANGED <<waitVars, full, fanout, server, ctxDone, bootVars, regular>>

\* Boot returns.
BootReturns(result, next) ==
  /\ main' = next
  /\ booted' = result
  /\ UNCHANGED <<waitVars, signalVars, proc, terms, kills, regular>>

\* Mutant: a goroutine that is about to report its error counts as done.
AllDoneOrFailed == \A b \in Boots : boot[b] \in {"send", "done"}

AllDone == \A b \in Boots : boot[b] = "done"

BootDone ==
  /\ main = "boot" /\ AllDone
  /\ BootReturns("ok", "run")
  /\ UNCHANGED boot

\* Some goroutine's bootErrs <- err is received.
TakeError ==
  \E b \in Boots : boot[b] = "send" /\ boot' = [boot EXCEPT ![b] = "done"]

\* Boot returns the first error; the command logs it with Fatal and goes on.
BootFails ==
  /\ main = "boot"
  /\ TakeError
  /\ BootReturns("error", "run")

BootCanceled ==
  /\ main = "boot" /\ ctxDone
  /\ main' = "drain"
  /\ UNCHANGED <<waitVars, signalVars, bootVars, booted, regular>>

DrainDone ==
  /\ main = "drain" /\ AllDone
  /\ BootReturns("canceled", "exited")
  /\ UNCHANGED boot

\* Mutant: errors are not received during shutdown.
DrainErrorIgnored == FALSE

DrainError ==
  /\ main = "drain"
  /\ TakeError
  /\ UNCHANGED <<main, waitVars, signalVars, proc, terms, kills, booted,
                 regular>>

DrainTimeout ==
  /\ main = "drain"
  /\ BootReturns("timedOut", "exited")
  /\ UNCHANGED boot

-----------------------------------------------------------------------------
(* Runner.Run, seen from outside.                                           *)

\* Regular jobs are started unless the context is done already.
RunStarts ==
  /\ main = "run" /\ ~regular /\ ~ctxDone
  /\ regular' = TRUE
  /\ UNCHANGED <<main, waitVars, signalVars, bootVars, booted>>

RunReturns ==
  /\ main = "run" /\ (regular \/ ctxDone)
  /\ main' = "exited"
  /\ UNCHANGED <<waitVars, signalVars, bootVars, booted, regular>>

-----------------------------------------------------------------------------
MainStep ==
  \/ WaitTick \/ ProbePasses \/ ProbeFails \/ PathMissing \/ RoundEnds
  \/ WaitInterrupted
  \/ BootBegins \/ BootConfigFails
  \/ BootDone \/ BootFails \/ BootCanceled
  \/ DrainDone \/ DrainError \/ DrainTimeout
  \/ RunStarts \/ RunReturns

Next ==
  \/ /\ main # "exited"
     /\ \/ MainStep
        \/ Signal \/ FanOut \/ ServerStops \/ ServerStopped \/ Cancel
        \/ \E b \in Boots : BootStep(b)
  \/ \E b \in Boots : Exit(b)
  \/ main = "exited" /\ UNCHANGED vars

Spec == Init /\ [][Next]_vars

\* Every goroutine that can take a step does so in the end, a select does not
\* ignore a case that stays ready or is ready again and again, and Run returns
\* once the context is done (ShutdownCompletes of Runner).  The timeout of
\* Boot's shutdown is not relied on, nor that any process ends by itself.
Running(A) == main # "exited" /\ A

FairSpec ==
  /\ Spec
  /\ WF_vars(WaitTick) /\ WF_vars(ProbePasses \/ ProbeFails \/ PathMissing)
  /\ WF_vars(RoundEnds) /\ SF_vars(WaitInterrupted)
  /\ WF_vars(BootBegins \/ BootConfigFails)
  /\ WF_vars(BootDone) /\ WF_vars(BootFails) /\ WF_vars(BootCanceled)
  /\ WF_vars(DrainDone) /\ WF_vars(DrainError)
  /\ WF_vars(ctxDone /\ RunReturns)
  /\ WF_vars(Running(FanOut)) /\ WF_vars(Running(ServerStops))
  /\ WF_vars(Running(Cancel))
  /\ \A b \in Boots : WF_vars(Running(BootStep(b)))

-----------------------------------------------------------------------------
(* Properties.                                                              *)

Alive == {b \in Boots : proc[b] = "alive"}

\* When Boot returns without an error, every boot job has run: it succeeded,
\* or may fail, or was killed, and its process is gone or was killed.  An
\* error that a goroutine has not handed over yet is never overlooked.
BootOkMeansBooted ==
  booted = "ok" =>
    /\ Alive \subseteq kills
    /\ \A b \in Boots \ (MayFail \cup kills) : proc[b] = "ok"

\* A cancellation during boot lets mittnite exit only after the escalation of
\* every boot job, unless the safety-net timeout fires.
CanceledBootIsClean == booted = "canceled" => Alive \subseteq kills

\* A SIGTERM or SIGINT makes mittnite exit, whatever it does at the moment and
\* however many signals are sent, provided that Run returns when cancelled.
SignalEndsUp == "signals" \in full ~> main = "exited"

\* Nothing is started before a round of the wait in which all probes succeeded,
\* unless one that looks for a path did not.
ReadyBeforeBoot ==
  main \in {"ready", "boot", "drain", "run"} /\ FileProbes \subseteq passed =>
    passed = WaitProbes

\* README.md: "Wait until required services are up before starting processes
\* (currently supporting filesystem mounts, ...)", whatever the probe is.
PathBeforeBoot ==
  main \in {"ready", "boot", "drain", "run"} => FileProbes \subseteq passed

\* README.md: "Boot jobs are required to run to completion before any regular
\* jobs are started."  A regular job runs only if all boot jobs succeeded that
\* may not fail.
BootBeforeRegular ==
  regular => \A b \in Boots \ MayFail : proc[b] = "ok"

\* The same line of the README, of a Boot that reports success: without a
\* cancellation it must not hide that a job was not run to completion.
BootOkMeansCompleted ==
  booted = "ok" /\ ~ctxDone => \A b \in Boots \ MayFail : b \notin kills

\* cmd/up.go on the shutdown path: "the runner has already waited for the
\* jobs' SIGTERM -> SIGKILL escalation".  After a cancellation no process of a
\* boot job is left that was not killed, unless the timeout fired.
ShutdownWaitsForBoot ==
  main = "exited" /\ ctxDone /\ booted # "timedOut" => Alive \subseteq kills

-----------------------------------------------------------------------------
(* The inductive invariant behind BootOkMeansBooted and CanceledBootIsClean. *)

\* Boot has returned exactly when the main goroutine is past it, and it only
\* returns nil or the context's error when all goroutines have ended.
BootPhase ==
  /\ main \in {"wait", "probing", "ready"} => \A b \in Boots : boot[b] = "none"
  /\ main \in {"wait", "probing", "ready", "boot", "drain"} => booted = "none"
  /\ booted \in {"ok", "canceled"} => AllDone

\* What the position of a boot job's goroutine says about its process.
BootJobs ==
  \A b \in Boots :
    /\ boot[b] \in {"none", "start"} => proc[b] = "none"
    /\ boot[b] \in {"send", "done"} /\ proc[b] = "alive" => b \in kills
    /\ /\ boot[b] = "done" /\ b \notin MayFail \cup kills
       /\ main = "boot" \/ booted = "ok"
       => proc[b] = "ok"

BootSupervision == BootPhase /\ BootJobs
=============================================================================
