------------------------------ MODULE CommonJob ------------------------------
(***************************************************************************)
(* One CommonJob object of pkg/proc: the goroutines that execute its Run   *)
(* method, the operating-system processes they start through startOnce,    *)
(* and the fields all of them share without a common lock.                 *)
(*                                                                         *)
(* A Run goroutine occupies a slot of Runs.  The code never limits how     *)
(* many Run goroutines one job has; the number of slots is this model's    *)
(* bound on how many may overlap.  Inside startOnce two more goroutines    *)
(* belong to the slot: the wait goroutine, which reaps the process and     *)
(* fills errChan, and the announcer, which receives the started process    *)
(* and then sets the phase to "started".                                   *)
(*                                                                         *)
(* Time is abstracted: a timer may fire whenever its select is entered.    *)
(* The wake-up of a back-off sleep through job.interrupt is therefore not  *)
(* distinguished from its timer, and job.ctx is not a variable.  Process   *)
(* groups are represented by their main process; log files and output      *)
(* forwarding are not part of this module.                                 *)
(***************************************************************************)
EXTENDS Integers, FiniteSets

CONSTANTS
  Runs,         \* slots for overlapping Run goroutines of the job
  Pids,         \* process ids; an id is not reused while anybody refers to it
  Nil,          \* a nil *exec.Cmd
  MaxAttempts,  \* Config.GetMaxAttempts(): -1 stands for "forever"
  OneTime,      \* Config.OneTime
  CanFail       \* Config.CanFail

ASSUME JobAssumption ==
  /\ Nil \notin Pids
  /\ MaxAttempts \in Nat \cup {-1}
  /\ OneTime \in BOOLEAN
  /\ CanFail \in BOOLEAN

VARIABLES
  phase,      \* job.phase.Reason
  restart,    \* job.restart
  stop,       \* job.stop
  cmd,        \* job.cmd, as the pid of the process it started last
  os,         \* the kernel's view of each pid
  terms,      \* live processes that were sent SIGTERM
  kills,      \* live processes that were sent SIGKILL
  ctxDone,    \* mittnite's context has been cancelled
  pc,         \* where each Run goroutine is
  mine,       \* the local cmd of the startOnce call each goroutine is in
  waiter,     \* the wait goroutine startOnce spawned
  awaited,    \* the process that goroutine found in job.cmd and waits for
  result,     \* errChan, and then the error startOnce returns
  attempts,   \* the local attempts counter
  announcer   \* the goroutine that ranges over the process channel

jobVars == <<phase, restart, stop, cmd>>
osVars  == <<os, terms, kills>>
runVars == <<pc, mine, waiter, awaited, result, attempts, announcer>>

-----------------------------------------------------------------------------
(* The types of the variables. *)

NoPhase == "none"   \* the zero JobPhase that Reset stores

Phases == {NoPhase, "awaitingReadiness", "unknown", "started", "stopped",
           "completed", "failed", "crashLooping"}

PidState == {"free", "alive", "ok", "error"}

RunState == {"idle", "enter", "loop", "start", "forked", "announce",
             "select", "term", "ret", "sleep", "report", "returned"}

JobVarsOK ==
  /\ phase \in Phases
  /\ restart \in BOOLEAN
  /\ stop \in BOOLEAN
  /\ cmd \in Pids \cup {Nil}

OsVarsOK ==
  /\ os \in [Pids -> PidState]
  /\ terms \subseteq Pids
  /\ kills \subseteq Pids

RunVarsOK ==
  /\ pc \in [Runs -> RunState]
  /\ mine \in [Runs -> Pids \cup {Nil}]
  /\ waiter \in [Runs -> {"off", "spawned", "waiting"}]
  /\ awaited \in [Runs -> Pids \cup {Nil}]
  /\ result \in [Runs -> {"none", "ok", "error", "restart", "stop"}]
  /\ attempts \in [Runs -> {0} \cup 0 .. MaxAttempts - 1]
  /\ announcer \in [Runs -> {"ready", "pending"}]

CommonJobTypeOK ==
  /\ JobVarsOK
  /\ OsVarsOK
  /\ RunVarsOK
  /\ ctxDone \in BOOLEAN

CommonJobInit ==
  /\ phase = "awaitingReadiness"
  /\ restart = FALSE
  /\ stop = FALSE
  /\ cmd = Nil
  /\ os = [p \in Pids |-> "free"]
  /\ terms = {}
  /\ kills = {}
  /\ ctxDone = FALSE
  /\ pc = [r \in Runs |-> "idle"]
  /\ mine = [r \in Runs |-> Nil]
  /\ waiter = [r \in Runs |-> "off"]
  /\ awaited = [r \in Runs |-> Nil]
  /\ result = [r \in Runs |-> "none"]
  /\ attempts = [r \in Runs |-> 0]
  /\ announcer = [r \in Runs |-> "ready"]

-----------------------------------------------------------------------------
(* Helpers. *)

\* The live process a signal to job.cmd reaches, if there is one.
Signalled == {p \in Pids : p = cmd /\ os[p] = "alive"}

\* kill(pid, 0) succeeds for a process that has not been reaped yet.
IsRunning == \E p \in Pids : p = cmd /\ os[p] # "free"

\* Pids the kernel may hand out: nobody still refers to them.
Unused == {p \in Pids : /\ os[p] = "free"
                        /\ p # cmd
                        /\ \A r \in Runs : mine[r] # p /\ awaited[r] # p}

\* go job.Run(...), the part of Runner.startJob that concerns the slot.
Spawn(r) ==
  /\ pc[r] = "idle" /\ announcer[r] = "ready" /\ waiter[r] = "off"
  /\ pc' = [pc EXCEPT ![r] = "enter"]
  /\ attempts' = [attempts EXCEPT ![r] = 0]
  /\ UNCHANGED <<mine, waiter, awaited, result, announcer>>

\* A step of the goroutine in slot r that only moves it from one place to
\* another.
Goto(r, from, to) ==
  /\ pc[r] = from
  /\ pc' = [pc EXCEPT ![r] = to]
  /\ UNCHANGED <<mine, waiter, awaited, attempts, announcer>>

-----------------------------------------------------------------------------
(* CommonJob.Run up to the call of startOnce. *)

\* Run has been entered: a job that was stopped meanwhile is not run.
Enter(r) ==
  /\ Goto(r, "enter", IF stop THEN "returned" ELSE "loop")
  /\ UNCHANGED <<jobVars, osVars, result, ctxDone>>

\* Mutant: the loop does not look at job.stop.
LoopTopIgnoresStop(r) ==
  /\ Goto(r, "loop", IF ctxDone THEN "returned" ELSE "start")
  /\ UNCHANGED <<jobVars, osVars, result, ctxDone>>

\* The head of the restart loop, and a new job.ctx.
LoopTop(r) ==
  /\ Goto(r, "loop", IF stop \/ ctxDone THEN "returned" ELSE "start")
  /\ UNCHANGED <<jobVars, osVars, result, ctxDone>>

-----------------------------------------------------------------------------
(* baseJob.startOnce. *)

\* A log file or a pipe cannot be opened, or cmd.Start fails: no process.
StartFails(r) ==
  /\ Goto(r, "start", "ret")
  /\ result' = [result EXCEPT ![r] = "error"]
  /\ UNCHANGED <<jobVars, osVars, ctxDone>>

\* cmd.Start succeeds.  job.cmd still is the previous command.
Fork(r) ==
  /\ pc[r] = "start"
  /\ \E p \in Unused :
       /\ os' = [os EXCEPT ![p] = "alive"]
       /\ mine' = [mine EXCEPT ![r] = p]
  /\ pc' = [pc EXCEPT ![r] = "forked"]
  /\ UNCHANGED <<jobVars, terms, kills, waiter, awaited, result, attempts,
                 announcer, ctxDone>>

\* Mutant: job.cmd is only assigned the first time.
SetCmdOnce(r) ==
  /\ Goto(r, "forked", "announce")
  /\ cmd' = IF cmd = Nil THEN mine[r] ELSE cmd
  /\ UNCHANGED <<phase, restart, stop, osVars, result, ctxDone>>

\* Mutant: startOnce returns early when the context is done by now.
SetCmdChecksContext(r) ==
  /\ Goto(r, "forked", IF ctxDone THEN "ret" ELSE "announce")
  /\ cmd' = mine[r]
  /\ UNCHANGED <<phase, restart, stop, osVars, result, ctxDone>>

\* job.cmd = cmd
SetCmd(r) ==
  /\ Goto(r, "forked", "announce")
  /\ cmd' = mine[r]
  /\ UNCHANGED <<phase, restart, stop, osVars, result, ctxDone>>

\* process <- job.cmd.Process is taken by the announcer, a fresh errChan is
\* made and the wait goroutine is spawned.
Announce(r) ==
  /\ pc[r] = "announce"
  /\ announcer[r] = "ready"
  /\ announcer' = [announcer EXCEPT ![r] = "pending"]
  /\ waiter' = [waiter EXCEPT ![r] = "spawned"]
  /\ result' = [result EXCEPT ![r] = "none"]
  /\ pc' = [pc EXCEPT ![r] = "select"]
  /\ UNCHANGED <<jobVars, osVars, mine, awaited, attempts, ctxDone>>

\* errChan fired: the process group gets a SIGTERM, then the flags decide
\* what the exit means; a restart request is consumed, and wins over a stop.
SelectExit(r) ==
  /\ pc[r] = "select"
  /\ result[r] # "none"
  /\ terms' = terms \cup Signalled
  /\ result' = [result EXCEPT ![r] = IF restart THEN "restart"
                                     ELSE IF stop THEN "stop" ELSE @]
  /\ restart' = FALSE
  /\ mine' = [mine EXCEPT ![r] = Nil]
  /\ pc' = [pc EXCEPT ![r] = "ret"]
  /\ UNCHANGED <<phase, stop, cmd, os, kills, waiter, awaited, attempts,
                 announcer, ctxDone>>

\* ctx.Done fired: SIGTERM, then wait for the exit or for the shutdown timer.
SelectCancel(r) ==
  /\ ctxDone
  /\ Goto(r, "select", "term")
  /\ terms' = terms \cup Signalled
  /\ UNCHANGED <<jobVars, os, kills, result, ctxDone>>

\* The process exited within ShutdownWaitingTimeSeconds.
TermExit(r) ==
  /\ pc[r] = "term"
  /\ result[r] # "none"
  /\ mine' = [mine EXCEPT ![r] = Nil]
  /\ pc' = [pc EXCEPT ![r] = "ret"]
  /\ UNCHANGED <<jobVars, osVars, waiter, awaited, result, attempts,
                 announcer, ctxDone>>

\* Mutant: the timer ends the wait, but the SIGKILL is missing.
TermTimeoutWithoutKill(r) ==
  /\ pc[r] = "term"
  /\ mine' = [mine EXCEPT ![r] = Nil]
  /\ result' = [result EXCEPT ![r] = "ok"]
  /\ pc' = [pc EXCEPT ![r] = "ret"]
  /\ UNCHANGED <<jobVars, osVars, waiter, awaited, attempts, announcer,
                 ctxDone>>

\* It did not: SIGKILL, and startOnce returns nil without reading errChan.
TermTimeout(r) ==
  /\ pc[r] = "term"
  /\ kills' = kills \cup Signalled
  /\ mine' = [mine EXCEPT ![r] = Nil]
  /\ result' = [result EXCEPT ![r] = "ok"]
  /\ pc' = [pc EXCEPT ![r] = "ret"]
  /\ UNCHANGED <<jobVars, os, terms, waiter, awaited, attempts, announcer,
                 ctxDone>>

\* The wait goroutine evaluates job.cmd when it is first scheduled.
WaiterReads(r) ==
  /\ waiter[r] = "spawned"
  /\ waiter' = [waiter EXCEPT ![r] = "waiting"]
  /\ awaited' = [awaited EXCEPT ![r] = cmd]
  /\ UNCHANGED <<jobVars, osVars, pc, mine, result, attempts, announcer,
                 ctxDone>>

\* cmd.Wait returns: the process is reaped and its status sent.  When another
\* goroutine has reaped it already, Wait reports an error.  Nobody reads
\* errChan any more once startOnce has left its select.
WaiterDone(r) ==
  /\ waiter[r] = "waiting"
  /\ \E p \in Pids :
       /\ p = awaited[r]
       /\ os[p] # "alive"
       /\ os' = [os EXCEPT ![p] = "free"]
       /\ result' = IF pc[r] \in {"select", "term"}
                    THEN [result EXCEPT ![r] = IF os[p] = "ok" THEN "ok"
                                               ELSE "error"]
                    ELSE result
  /\ waiter' = [waiter EXCEPT ![r] = "off"]
  /\ awaited' = [awaited EXCEPT ![r] = Nil]
  /\ UNCHANGED <<jobVars, terms, kills, pc, mine, attempts, announcer,
                 ctxDone>>

-----------------------------------------------------------------------------
(* CommonJob.Run after startOnce has returned. *)

\* mittnite is shutting down.
RetShutdown(r) ==
  /\ ctxDone
  /\ Goto(r, "ret", "returned")
  /\ phase' = "stopped"
  /\ UNCHANGED <<restart, stop, cmd, osVars, result, ctxDone>>

\* A one-time job ended without an error.
RetCompleted(r) ==
  /\ ~ctxDone /\ OneTime /\ result[r] = "ok"
  /\ Goto(r, "ret", "returned")
  /\ phase' = "completed"
  /\ UNCHANGED <<restart, stop, cmd, osVars, result, ctxDone>>

\* Mutant: a restart passes through the phase of a stopped job.
RetRestartStops(r) ==
  /\ ~ctxDone /\ result[r] = "restart"
  /\ Goto(r, "ret", "loop")
  /\ phase' = "stopped"
  /\ UNCHANGED <<restart, stop, cmd, osVars, result, ctxDone>>

\* ProcessWillBeRestartedError
RetRestart(r) ==
  /\ ~ctxDone /\ result[r] = "restart"
  /\ Goto(r, "ret", "loop")
  /\ UNCHANGED <<jobVars, osVars, result, ctxDone>>

\* ProcessWillBeStoppedError
RetStopped(r) ==
  /\ ~ctxDone /\ result[r] = "stop"
  /\ Goto(r, "ret", "returned")
  /\ phase' = "stopped"
  /\ UNCHANGED <<restart, stop, cmd, osVars, result, ctxDone>>

\* An exit that counts as an attempt: an error, or success of a job that is
\* meant to keep running.
Attempted(r) ==
  /\ pc[r] = "ret" /\ ~ctxDone
  /\ result[r] = "error" \/ (result[r] = "ok" /\ ~OneTime)

\* The value of attempts after this one; it starts over when the process ran
\* longer than the current back-off.
UsedAttempts(r, ranLong) == IF ranLong THEN 1 ELSE attempts[r] + 1

\* Mutant: one attempt too many.
MayRetryInclusive(used) == MaxAttempts = -1 \/ used <= MaxAttempts

MayRetry(used) == MaxAttempts = -1 \/ used < MaxAttempts

\* Mutant: a job that is about to be retried is shown as failed.
RetBackOffFailed(r) ==
  /\ Attempted(r)
  /\ \E ranLong \in BOOLEAN :
       /\ MayRetry(UsedAttempts(r, ranLong))
       /\ attempts' = [attempts EXCEPT ![r] =
                         IF MaxAttempts = -1 THEN 0
                         ELSE UsedAttempts(r, ranLong)]
  /\ pc' = [pc EXCEPT ![r] = "sleep"]
  /\ phase' = "failed"
  /\ UNCHANGED <<restart, stop, cmd, osVars, mine, waiter, awaited, result,
                 announcer, ctxDone>>

\* Attempts are left: sleep for the back-off.  With maxAttempts -1 the counter
\* is never looked at, and this model leaves it at 0.
RetBackOff(r) ==
  /\ Attempted(r)
  /\ \E ranLong \in BOOLEAN :
       /\ MayRetry(UsedAttempts(r, ranLong))
       /\ attempts' = [attempts EXCEPT ![r] =
                         IF MaxAttempts = -1 THEN 0
                         ELSE UsedAttempts(r, ranLong)]
  /\ pc' = [pc EXCEPT ![r] = "sleep"]
  /\ phase' = "crashLooping"
  /\ UNCHANGED <<restart, stop, cmd, osVars, mine, waiter, awaited, result,
                 announcer, ctxDone>>

\* No attempts are left: a job that may not fail reports to the runner.
RetFailed(r) ==
  /\ Attempted(r)
  /\ \E ranLong \in BOOLEAN : ~MayRetry(UsedAttempts(r, ranLong))
  /\ Goto(r, "ret", IF CanFail THEN "returned" ELSE "report")
  /\ phase' = "failed"
  /\ UNCHANGED <<restart, stop, cmd, osVars, result, ctxDone>>

\* crashLoopSleep ends: back-off elapsed, job interrupted, or shutdown.
Wake(r) ==
  /\ Goto(r, "sleep", "loop")
  /\ UNCHANGED <<jobVars, osVars, result, ctxDone>>

\* The announcer sets the phase some time after it received the process.
AnnounceDone(r) ==
  /\ announcer[r] = "pending"
  /\ announcer' = [announcer EXCEPT ![r] = "ready"]
  /\ phase' = "started"
  /\ UNCHANGED <<restart, stop, cmd, osVars, pc, mine, waiter, awaited,
                 result, attempts, ctxDone>>

-----------------------------------------------------------------------------
(* The environment: a job's process ends, by itself or because of a signal; *)
(* only SIGKILL forces it to, and then never with status 0.                 *)

Exit(p) ==
  /\ os[p] = "alive"
  /\ \E status \in IF p \in kills THEN {"error"} ELSE {"ok", "error"} :
       os' = [os EXCEPT ![p] = status]
  /\ terms' = terms \ {p}
  /\ kills' = kills \ {p}
  /\ UNCHANGED <<jobVars, runVars, ctxDone>>

-----------------------------------------------------------------------------
\* What the goroutine in slot r does by itself; reporting a failure and
\* leaving the wait group are steps of the Runner.
RunStep(r) ==
  \/ Enter(r)
  \/ LoopTop(r)
  \/ StartFails(r)
  \/ Fork(r)
  \/ SetCmd(r)
  \/ Announce(r)
  \/ SelectExit(r)
  \/ SelectCancel(r)
  \/ TermExit(r)
  \/ TermTimeout(r)
  \/ RetShutdown(r)
  \/ RetCompleted(r)
  \/ RetRestart(r)
  \/ RetStopped(r)
  \/ RetBackOff(r)
  \/ RetFailed(r)
  \/ Wake(r)

WaiterStep(r) ==
  \/ WaiterReads(r)
  \/ WaiterDone(r)

JobStep ==
  \/ \E r \in Runs : RunStep(r) \/ WaiterStep(r) \/ AnnounceDone(r)
  \/ \E p \in Pids : Exit(p)
=============================================================================
