------------------------------- MODULE LazyJob -------------------------------
(***************************************************************************)
(* A lazy job of pkg/proc: its listeners accept connections, start the     *)
(* process when there is none, and forward each connection to it; a        *)
(* watcher stops the process after a time without connections.             *)
(*                                                                         *)
(* job.process is read with and without job.lazyStartLock.  The lock is    *)
(* not a variable: only a listener in "starting" keeps it over several     *)
(* steps, every other critical section is one action.  A starter is the    *)
(* goroutine that executes startOnce; the number of its slots bounds how   *)
(* many may overlap.  Its gap between cmd.Start and job.cmd = cmd is       *)
(* inside the critical section and therefore not visible.                  *)
(*                                                                         *)
(* Time is abstract: idle stands for the comparison of the time since      *)
(* lastConnectionClosed, at first the zero time, with the cool-down.       *)
(* stopExpected and the error of a process that was handed over only       *)
(* decide what is logged, and Watch sends a signal a process may get       *)
(* anyway: they are left out.                                              *)
(***************************************************************************)
EXTENDS Integers, FiniteSets

CONSTANTS
  Listeners,  \* Config.Listeners
  Conns,      \* connections of clients that may be open at the same time
  Starts,     \* slots for overlapping calls of startOnce
  Pids,       \* process ids
  Nil,        \* no process, no connection
  Failures    \* system calls that may fail: "open" a listener, "accept", "start"

ASSUME LazyAssumption ==
  /\ Nil \notin Pids \cup Conns
  /\ Failures \subseteq {"open", "accept", "start"}

VARIABLES
  run,      \* LazyJob.Run: opening the listeners, listening, or failed
  pos,      \* where the goroutine of each listener is
  held,     \* the connection it has accepted and not passed on yet
  conn,     \* where the handler of each connection is
  starter,  \* where each starter is
  mine,     \* the process it supervises
  process,  \* job.process
  cmd,      \* job.cmd
  os,       \* the kernel's view of each pid
  terms,    \* live processes that were sent SIGTERM
  kills,    \* live processes that were sent SIGKILL
  idle,     \* the last connection was closed longer ago than the cool-down
  watcher,  \* where the cool-down watcher is
  ctxDone,  \* the context has been cancelled
  up        \* mittnite runs

connVars  == <<held, conn, idle>>
osVars    == <<os, terms, kills>>
startVars == <<starter, mine, process, cmd>>
vars == <<run, pos, connVars, startVars, osVars, watcher, ctxDone, up>>

ListenersOK ==
  /\ run \in {"opening", "open", "failed"}
  /\ pos \in [Listeners -> {"none", "accept", "assert", "lock", "starting",
                            "failed", "ended"}]

ConnsOK ==
  /\ held \in [Listeners -> Conns \cup {Nil}]
  /\ conn \in [Conns -> {"idle", "held", "accepted", "dial", "forward",
                         "closing", "closed"}]
  /\ idle \in BOOLEAN

StartersOK ==
  /\ starter \in [Starts -> {"idle", "start", "send", "failed", "select",
                             "term", "clear"}]
  /\ mine \in [Starts -> Pids \cup {Nil}]
  /\ process \in Pids \cup {Nil}
  /\ cmd \in Pids \cup {Nil}

ProcessesOK ==
  /\ os \in [Pids -> {"free", "alive", "zombie"}]
  /\ terms \subseteq Pids
  /\ kills \subseteq Pids

TypeOK ==
  /\ ListenersOK /\ ConnsOK /\ StartersOK /\ ProcessesOK
  /\ watcher \in {"off", "tick", "idle", "process", "lock"}
  /\ ctxDone \in BOOLEAN
  /\ up \in BOOLEAN

Init ==
  /\ run = "opening"
  /\ pos = [l \in Listeners |-> "none"]
  /\ held = [l \in Listeners |-> Nil]
  /\ conn = [c \in Conns |-> "idle"]
  /\ starter = [s \in Starts |-> "idle"]
  /\ mine = [s \in Starts |-> Nil]
  /\ process = Nil
  /\ cmd = Nil
  /\ os = [p \in Pids |-> "free"]
  /\ terms = {}
  /\ kills = {}
  /\ idle = TRUE
  /\ watcher = "off"
  /\ ctxDone = FALSE
  /\ up = TRUE

-----------------------------------------------------------------------------
LivePids == {p \in Pids : os[p] = "alive"}

\* The live process a signal to job.cmd reaches, if there is one.
Signalled == {cmd} \cap LivePids

\* Nobody holds lazyStartLock.
Unlocked == \A l \in Listeners : pos[l] # "starting"

\* job.activeConnections, as the set of connections it counts.
Active == {c \in Conns : conn[c] \in {"dial", "forward", "closing", "closed"}}

-----------------------------------------------------------------------------
(* LazyJob.Run.                                                             *)

Opens(l) ==
  /\ run = "opening" /\ pos[l] = "none"
  /\ pos' = [pos EXCEPT ![l] = "accept"]
  /\ UNCHANGED <<run, connVars, startVars, osVars, watcher, ctxDone, up>>

\* NewListener fails: Run returns the error, but not before the deferred Wait
\* for the listeners that are open; the watcher is not started.
OpenFails ==
  /\ "open" \in Failures
  /\ run = "opening" /\ \E l \in Listeners : pos[l] = "none"
  /\ run' = "failed"
  /\ UNCHANGED <<pos, connVars, startVars, osVars, watcher, ctxDone, up>>

\* All listeners are open: the watcher is started, and Run too waits for them.
AllOpen ==
  /\ run = "opening" /\ \A l \in Listeners : pos[l] # "none"
  /\ run' = "open"
  /\ watcher' = "tick"
  /\ UNCHANGED <<pos, connVars, startVars, osVars, ctxDone, up>>

-----------------------------------------------------------------------------
(* Listener.run and, called by it, LazyJob.AssertStarted.                   *)

\* A client connects, and the listener accepts.
Accepts(l, c) ==
  /\ pos[l] = "accept" /\ conn[c] = "idle"
  /\ pos' = [pos EXCEPT ![l] = "assert"]
  /\ held' = [held EXCEPT ![l] = c]
  /\ conn' = [conn EXCEPT ![c] = "held"]
  /\ UNCHANGED <<run, startVars, osVars, idle, watcher, ctxDone, up>>

AcceptFails(l) ==
  /\ "accept" \in Failures
  /\ pos[l] = "accept"
  /\ pos' = [pos EXCEPT ![l] = "failed"]
  /\ UNCHANGED <<run, connVars, startVars, osVars, watcher, ctxDone, up>>

\* ctx.Done fired in the select of the accept loop.
Closes(l) ==
  /\ ctxDone /\ pos[l] = "accept"
  /\ pos' = [pos EXCEPT ![l] = "ended"]
  /\ UNCHANGED <<run, connVars, startVars, osVars, watcher, ctxDone, up>>

\* AssertStarted has returned nil: a handler is spawned, the loop goes on.
PassesOn(l) ==
  /\ pos' = [pos EXCEPT ![l] = "accept"]
  /\ conn' = [conn EXCEPT ![held[l]] = "accepted"]
  /\ held' = [held EXCEPT ![l] = Nil]
  /\ UNCHANGED <<run, idle, osVars, watcher, ctxDone, up>>

\* The first look at job.process, without the lock.
SeesProcess(l) ==
  /\ pos[l] = "assert" /\ process # Nil
  /\ PassesOn(l)
  /\ UNCHANGED startVars

SeesNone(l) ==
  /\ pos[l] = "assert" /\ process = Nil
  /\ pos' = [pos EXCEPT ![l] = "lock"]
  /\ UNCHANGED <<run, connVars, startVars, osVars, watcher, ctxDone, up>>

\* The second look, with the lock: another listener has been faster.
LockSeesProcess(l) ==
  /\ pos[l] = "lock" /\ Unlocked /\ process # Nil
  /\ PassesOn(l)
  /\ UNCHANGED startVars

\* A starter is spawned, and the listener waits for it with the lock held.
Spawns(l) ==
  /\ pos' = [pos EXCEPT ![l] = "starting"]
  /\ \E s \in Starts : /\ starter[s] = "idle"
                       /\ starter' = [starter EXCEPT ![s] = "start"]
  /\ UNCHANGED <<run, connVars, mine, process, cmd, osVars, watcher, ctxDone,
                 up>>

\* Mutant: job.process is not looked at again.
LockLooksOnce(l) ==
  /\ pos[l] = "lock" /\ Unlocked
  /\ Spawns(l)

LockSeesNone(l) ==
  /\ pos[l] = "lock" /\ Unlocked /\ process = Nil
  /\ Spawns(l)

\* job.process = <-p, and the lock is released.
Receives(l) ==
  /\ pos[l] = "starting"
  /\ \E s \in Starts :
       /\ starter[s] = "send"
       /\ starter' = [starter EXCEPT ![s] = "select"]
       /\ process' = mine[s]
  /\ PassesOn(l)
  /\ UNCHANGED <<mine, cmd>>

\* The error of a failed start: the listener ends, its connection stays open.
ReceivesError(l) ==
  /\ pos[l] = "starting"
  /\ \E s \in Starts : /\ starter[s] = "failed"
                       /\ starter' = [starter EXCEPT ![s] = "clear"]
  /\ pos' = [pos EXCEPT ![l] = "failed"]
  /\ UNCHANGED <<run, connVars, mine, process, cmd, osVars, watcher, ctxDone,
                 up>>

ListenerStep(l) ==
  \/ SeesProcess(l)
  \/ SeesNone(l)
  \/ LockSeesProcess(l)
  \/ LockSeesNone(l)
  \/ Receives(l)
  \/ ReceivesError(l)

-----------------------------------------------------------------------------
(* The starter: startOnce, and job.process = nil when it has returned.      *)

StartUnchanged == UNCHANGED <<run, pos, connVars, watcher, ctxDone, up>>

Started(s) ==
  /\ starter[s] = "start"
  /\ \E p \in Pids :
       /\ os[p] = "free" /\ p \notin {cmd, process} \cup {mine[t] : t \in Starts}
       /\ os' = [os EXCEPT ![p] = "alive"]
       /\ mine' = [mine EXCEPT ![s] = p]
       /\ cmd' = p
  /\ starter' = [starter EXCEPT ![s] = "send"]
  /\ UNCHANGED <<process, terms, kills>>
  /\ StartUnchanged

\* Mutant: the error channel has no buffer, and the error is dropped.
StartFailsSilently(s) ==
  /\ "start" \in Failures
  /\ starter[s] = "start"
  /\ starter' = [starter EXCEPT ![s] = "clear"]
  /\ UNCHANGED <<mine, process, cmd, osVars>>
  /\ StartUnchanged

StartFails(s) ==
  /\ "start" \in Failures
  /\ starter[s] = "start"
  /\ starter' = [starter EXCEPT ![s] = "failed"]
  /\ UNCHANGED <<mine, process, cmd, osVars>>
  /\ StartUnchanged

\* The process has ended; a last SIGTERM goes to what is left of its group.
\* It is reaped here, and startOnce returns when its output has been read.
Ends(s, from) ==
  /\ starter[s] = from
  /\ \E p \in Pids : /\ p = mine[s] /\ os[p] = "zombie"
                     /\ os' = [os EXCEPT ![p] = "free"]
  /\ starter' = [starter EXCEPT ![s] = "clear"]
  /\ terms' = IF from = "select" THEN terms \cup Signalled ELSE terms
  /\ UNCHANGED <<mine, process, cmd, kills>>
  /\ StartUnchanged

Interrupted(s) ==
  /\ ctxDone /\ starter[s] = "select"
  /\ starter' = [starter EXCEPT ![s] = "term"]
  /\ terms' = terms \cup Signalled
  /\ UNCHANGED <<mine, process, cmd, os, kills>>
  /\ StartUnchanged

\* The shutdown timer fires: SIGKILL, and nobody waits any longer.
Kills(s) ==
  /\ starter[s] = "term"
  /\ starter' = [starter EXCEPT ![s] = "clear"]
  /\ kills' = kills \cup Signalled
  /\ UNCHANGED <<mine, process, cmd, os, terms>>
  /\ StartUnchanged

\* Mutant: job.process is cleared before the process has ended.
ClearEarly(s) ==
  /\ starter[s] \in {"select", "clear"} /\ Unlocked
  /\ starter' = [starter EXCEPT ![s] = IF @ = "clear" THEN "idle" ELSE @]
  /\ mine' = [mine EXCEPT ![s] = IF starter[s] = "clear" THEN Nil ELSE @]
  /\ process' = Nil
  /\ UNCHANGED <<cmd, osVars>>
  /\ StartUnchanged

Clears(s) ==
  /\ starter[s] = "clear" /\ Unlocked
  /\ starter' = [starter EXCEPT ![s] = "idle"]
  /\ mine' = [mine EXCEPT ![s] = Nil]
  /\ process' = Nil
  /\ UNCHANGED <<cmd, osVars>>
  /\ StartUnchanged

StarterStep(s) ==
  \/ Started(s)
  \/ StartFails(s)
  \/ Ends(s, "select")
  \/ Ends(s, "term")
  \/ Interrupted(s)
  \/ Kills(s)
  \/ Clears(s)

-----------------------------------------------------------------------------
(* The handler of one connection.                                           *)

ConnGoto(c, from, to) ==
  /\ conn[c] = from
  /\ conn' = [conn EXCEPT ![c] = to]
  /\ UNCHANGED <<run, pos, held, startVars, osVars, watcher, ctxDone, up>>

\* activeConnections is incremented by the new goroutine, not by the listener.
Counts(c) ==
  /\ ConnGoto(c, "accepted", "dial")
  /\ UNCHANGED idle

\* Dialling succeeds as soon as a process listens.
Dials(c) ==
  /\ LivePids # {}
  /\ ConnGoto(c, "dial", "forward")
  /\ UNCHANGED idle

DialTimesOut(c) ==
  /\ ConnGoto(c, "dial", "closing")
  /\ UNCHANGED idle

\* Both directions have been copied to their end.
Forwarded(c) ==
  /\ ConnGoto(c, "forward", "closing")
  /\ UNCHANGED idle

\* lastConnectionClosed = now, and then the counter is decremented.
NotesTime(c) ==
  /\ ConnGoto(c, "closing", "closed")
  /\ idle' = FALSE

Discounts(c) ==
  /\ ConnGoto(c, "closed", "idle")
  /\ UNCHANGED idle

HandlerStep(c) ==
  \/ Counts(c)
  \/ Dials(c)
  \/ DialTimesOut(c)
  \/ NotesTime(c)
  \/ Discounts(c)

-----------------------------------------------------------------------------
(* The cool-down watcher: three reads without the lock, then the stop.      *)

WatcherGoto(from, to) ==
  /\ watcher = from
  /\ watcher' = to
  /\ UNCHANGED <<run, pos, connVars, startVars, os, kills, ctxDone, up>>

WatchActive ==
  /\ Active = {}
  /\ WatcherGoto("tick", "idle")
  /\ UNCHANGED terms

WatchIdle ==
  /\ WatcherGoto("idle", IF idle THEN "process" ELSE "tick")
  /\ UNCHANGED terms

WatchProcess ==
  /\ WatcherGoto("process", IF process # Nil THEN "lock" ELSE "tick")
  /\ UNCHANGED terms

\* Mutant: the watcher returns after it has stopped the process once.
WatchStopsOnce ==
  /\ Unlocked
  /\ WatcherGoto("lock", "off")
  /\ terms' = terms \cup Signalled

WatchStops ==
  /\ Unlocked
  /\ WatcherGoto("lock", "tick")
  /\ terms' = terms \cup Signalled

WatchEnds ==
  /\ ctxDone
  /\ WatcherGoto("tick", "off")
  /\ UNCHANGED terms

WatcherStep ==
  WatchActive \/ WatchIdle \/ WatchProcess \/ WatchStops \/ WatchEnds

-----------------------------------------------------------------------------
(* mittnite as a whole, and the processes.                                  *)

Cancel ==
  /\ ~ctxDone
  /\ ctxDone' = TRUE
  /\ UNCHANGED <<run, pos, connVars, startVars, osVars, watcher, up>>

\* Runner.Run returns: Listener.Run, and with it LazyJob.Run, returns as soon
\* as the context is done; or the runner receives the error of a listener, or
\* that of Run when no listener has been opened.
Returns ==
  /\ \/ ctxDone
     \/ \E l \in Listeners : pos[l] = "failed"
     \/ run = "failed" /\ \A l \in Listeners : pos[l] = "none"
  /\ up' = FALSE
  /\ UNCHANGED <<run, pos, connVars, startVars, osVars, watcher, ctxDone>>

Elapses ==
  /\ ~idle
  /\ idle' = TRUE
  /\ UNCHANGED <<run, pos, held, conn, startVars, osVars, watcher, ctxDone, up>>

Exit(p) ==
  /\ os[p] = "alive"
  /\ os' = [os EXCEPT ![p] = "zombie"]
  /\ terms' = terms \ {p}
  /\ kills' = kills \ {p}
  /\ UNCHANGED <<run, pos, connVars, startVars, watcher, ctxDone, up>>

-----------------------------------------------------------------------------
Next ==
  \/ /\ up
     /\ \/ \E l \in Listeners :
             \/ Opens(l) \/ Closes(l) \/ AcceptFails(l) \/ ListenerStep(l)
             \/ \E c \in Conns : Accepts(l, c)
        \/ OpenFails \/ AllOpen
        \/ \E s \in Starts : StarterStep(s)
        \/ \E c \in Conns : HandlerStep(c) \/ Forwarded(c)
        \/ WatcherStep
        \/ Cancel \/ Returns \/ Elapses
        \/ \E p \in Pids : Exit(p)
  \/ ~up /\ UNCHANGED vars

Spec == Init /\ [][Next]_vars

\* Every goroutine that can take a step does so in the end, and sync.Mutex
\* lets nobody wait for ever (SF where the lock is needed).  Time passes, and
\* the process honours SIGTERM and SIGKILL.  Clients, the cancellation and
\* processes that nobody signalled are left to chance.
Up(A) == up /\ A

FairSpec ==
  /\ Spec
  /\ \A l \in Listeners : SF_vars(Up(ListenerStep(l)))
  /\ \A l \in Listeners : WF_vars(Up(Opens(l)))
  /\ WF_vars(Up(AllOpen)) /\ WF_vars(Up(Returns)) /\ WF_vars(Up(Elapses))
  /\ \A s \in Starts : SF_vars(Up(StarterStep(s)))
  /\ \A c \in Conns : WF_vars(Up(HandlerStep(c)))
  /\ WF_vars(Up(WatchActive \/ WatchIdle \/ WatchProcess)) /\ SF_vars(Up(WatchStops))
  /\ \A p \in Pids : WF_vars(Up(p \in terms \cup kills /\ Exit(p)))

-----------------------------------------------------------------------------
(* Properties.                                                              *)

Starting == {l \in Listeners : pos[l] = "starting"}

\* The starters that have not sent a process or an error yet.
Due == {s \in Starts : starter[s] \in {"start", "send", "failed"}}

\* As long as no listener has failed, a lazy job has at most one process that
\* was not killed, whichever listeners accept connections at the same time,
\* and while the previous process is ending.
AtMostOneProcess ==
  \/ \E l \in Listeners : pos[l] = "failed"
  \/ \A p, q \in LivePids \ kills : p = q

\* Then job.process is the live process, except while the lock is held to
\* start it: neither can the next connection miss it, nor the watcher.
ProcessIsKnown ==
  \/ \E l \in Listeners : pos[l] = "failed"
  \/ ~Unlocked
  \/ LivePids \ kills \subseteq {process}

\* The double-checked lock: at most one listener is starting the process, and
\* it waits for exactly one starter, which will send a process or an error.
OneStartAtATime ==
  /\ Cardinality(Starting) <= 1
  /\ Cardinality(Due) = Cardinality(Starting)

\* A connection that was accepted reaches a handler: its listener does not
\* wait for ever for the lock or for a process.
HeldIsPassedOn ==
  \A l \in Listeners : (held[l] # Nil) ~> (held[l] = Nil \/ ~up)

\* README.md: "When no connections have been active for a duration of at least
\* .lazy.coolDownTimeout, mittnite will terminate the process again."  When
\* there are no connections any more, in the end there is no process.
IdleProcessEnds ==
  <>[](up /\ ~ctxDone /\ \A c \in Conns : conn[c] = "idle") => <>[](LivePids = {})

\* The same sentence of README.md read the other way round: a process that
\* is forwarded to is not told to stop by the cool-down.
CoolDownSparesActive ==
  [][watcher = "lock" /\ watcher' = "tick" /\ terms' # terms
       => \A c \in Conns : conn[c] # "forward"]_vars

\* README.md on a connection to a process that is not up: it "will be held for
\* that time (the client will not notice any of this ...)".  A connection for
\* which no process is started because there is one finds it alive.
FoundAlive ==
  [][\A c \in Conns : process # Nil /\ conn[c] = "held" /\ conn'[c] = "accepted"
       => LivePids # {}]_vars

\* runner.go on the shutdown: it "lets the job goroutines finish their SIGTERM
\* -> SIGKILL escalation (see startOnce) before the runner returns".  After a
\* cancellation no live process is left that was not killed.
ExitLeavesNothing == ~up /\ ctxDone => LivePids \subseteq kills
=============================================================================
