-------------------------------- MODULE Reaper --------------------------------
(***************************************************************************)
(* The zombie reaper of pkg/proc beside the calls of startOnce: both look  *)
(* for ended children of mittnite, and the registry of managed pids is to  *)
(* keep the reaper from those that a job waits for.                        *)
(*                                                                         *)
(* The order in which waitid reports the zombies is left open; the log     *)
(* entry with the process group of an orphan is left out.  Time is         *)
(* abstract: the ticker may fire whenever the reaper waits for it.         *)
(***************************************************************************)
EXTENDS Naturals

CONSTANTS
  Jobs,        \* slots for calls of startOnce, with their wait goroutines
  Pids,        \* process ids
  ExitsEarly,  \* those whose process may end before it is registered
  ReusesEarly  \* a pid may be given away while a goroutine still refers to it

ASSUME ReaperAssumption ==
  /\ ExitsEarly \subseteq Jobs /\ ReusesEarly \in BOOLEAN
  /\ Jobs \cap {"none", "orphan"} = {}
  /\ "none" \notin Pids

VARIABLES
  os,       \* the kernel's view of each pid
  owner,    \* the call that started the process, or that it is an orphan
  managed,  \* managedPids
  job,      \* where each call is
  pid,      \* the process it has started
  status,   \* what its cmd.Wait returned: the own status, or it was lost
  reaper,   \* where the reaper is
  seen,     \* the pid that peekZombie returned
  sigchld   \* the channel of the reaper holds a signal

osVars     == <<os, owner>>
jobVars    == <<job, pid, status>>
reaperVars == <<reaper, seen>>
vars == <<osVars, managed, jobVars, reaperVars, sigchld>>

TypeOK ==
  /\ os \in [Pids -> {"free", "alive", "zombie"}]
  /\ owner \in [Pids -> Jobs \cup {"none", "orphan"}]
  /\ managed \subseteq Pids
  /\ job \in [Jobs -> {"idle", "started", "waiting", "reaped"}]
  /\ pid \in [Jobs -> Pids \cup {"none"}]
  /\ \A j \in Jobs : job[j] = "idle" \/ pid[j] \in Pids
  /\ status \in [Jobs -> {"none", "own", "lost"}]
  /\ reaper \in {"select", "peek", "lookup", "wait4"}
  /\ seen \in Pids \cup {"none"}
  /\ sigchld \in BOOLEAN

Init ==
  /\ os = [p \in Pids |-> "free"]
  /\ owner = [p \in Pids |-> "none"]
  /\ managed = {}
  /\ job = [j \in Jobs |-> "idle"]
  /\ pid = [j \in Jobs |-> "none"]
  /\ status = [j \in Jobs |-> "none"]
  /\ reaper = "select"
  /\ seen = "none"
  /\ sigchld = FALSE

-----------------------------------------------------------------------------
(* The kernel.                                                              *)

\* Some goroutine of mittnite still acts on the pid.
InUse == {pid[j] : j \in {k \in Jobs : job[k] # "idle"}} \cup {seen}

Available(p) == os[p] = "free" /\ (ReusesEarly \/ p \notin InUse)

\* A descendant of a job loses its parent and becomes a child of mittnite.
Orphaned(p) ==
  /\ Available(p)
  /\ os' = [os EXCEPT ![p] = "alive"]
  /\ owner' = [owner EXCEPT ![p] = "orphan"]
  /\ UNCHANGED <<managed, jobVars, reaperVars, sigchld>>

\* A child ends: SIGCHLD is dropped if the last one has not been received.
Exit(p) ==
  /\ os[p] = "alive"
  /\ \A j \in Jobs \ ExitsEarly : job[j] = "started" => pid[j] # p
  /\ os' = [os EXCEPT ![p] = "zombie"]
  /\ sigchld' = TRUE
  /\ UNCHANGED <<owner, managed, jobVars, reaperVars>>

\* The zombie is waited for, and its status is handed out for the only time.
Collect(p) ==
  /\ os[p] = "zombie"
  /\ os' = [os EXCEPT ![p] = "free"]
  /\ owner' = [owner EXCEPT ![p] = "none"]

-----------------------------------------------------------------------------
(* startOnce, as far as the registry is concerned.                          *)

JobGoto(j, from, to) ==
  /\ job[j] = from
  /\ job' = [job EXCEPT ![j] = to]

\* cmd.Start
Start(j) ==
  /\ JobGoto(j, "idle", "started")
  /\ \E p \in Pids :
       /\ Available(p)
       /\ os' = [os EXCEPT ![p] = "alive"]
       /\ owner' = [owner EXCEPT ![p] = j]
       /\ pid' = [pid EXCEPT ![j] = p]
  /\ status' = [status EXCEPT ![j] = "none"]
  /\ UNCHANGED <<managed, reaperVars, sigchld>>

\* Mutant: the pid is not registered.
RegistersNothing(j) ==
  /\ JobGoto(j, "started", "waiting")
  /\ UNCHANGED <<osVars, managed, pid, status, reaperVars, sigchld>>

\* registerManagedPid; then the wait goroutine is spawned.
Register(j) ==
  /\ JobGoto(j, "started", "waiting")
  /\ managed' = managed \cup {pid[j]}
  /\ UNCHANGED <<osVars, pid, status, reaperVars, sigchld>>

\* cmd.Wait returns the status of the process.
WaitReturns(j) ==
  /\ JobGoto(j, "waiting", "reaped")
  /\ \E p \in Pids : p = pid[j] /\ owner[p] = j /\ Collect(p)
  /\ status' = [status EXCEPT ![j] = "own"]
  /\ UNCHANGED <<managed, pid, reaperVars, sigchld>>

\* The process has been reaped by somebody else: "no child processes".
WaitFails(j) ==
  /\ JobGoto(j, "waiting", "reaped")
  /\ \A p \in Pids : p = pid[j] => owner[p] # j
  /\ status' = [status EXCEPT ![j] = "lost"]
  /\ UNCHANGED <<osVars, managed, pid, reaperVars, sigchld>>

\* Mutant: the pid stays registered.
StaysRegistered(j) ==
  /\ JobGoto(j, "reaped", "idle")
  /\ UNCHANGED <<osVars, managed, pid, status, reaperVars, sigchld>>

\* unregisterManagedPid, and startOnce goes on with the result.
Unregister(j) ==
  /\ JobGoto(j, "reaped", "idle")
  /\ managed' = managed \ {pid[j]}
  /\ UNCHANGED <<osVars, pid, status, reaperVars, sigchld>>

JobStep(j) ==
  \/ Register(j) \/ WaitReturns(j) \/ WaitFails(j) \/ Unregister(j)

-----------------------------------------------------------------------------
(* ReapZombies, reapZombies and peekZombie.                                 *)

ReaperGoto(from, to) ==
  /\ reaper = from
  /\ reaper' = to
  /\ UNCHANGED <<managed, jobVars>>

Signalled ==
  /\ sigchld
  /\ ReaperGoto("select", "peek")
  /\ sigchld' = FALSE
  /\ UNCHANGED <<osVars, seen>>

Ticks ==
  /\ ReaperGoto("select", "peek")
  /\ UNCHANGED <<osVars, seen, sigchld>>

Peek(p) ==
  /\ os[p] = "zombie"
  /\ ReaperGoto("peek", "lookup")
  /\ seen' = p
  /\ UNCHANGED <<osVars, sigchld>>

PeekNone ==
  /\ \A p \in Pids : os[p] # "zombie"
  /\ ReaperGoto("peek", "select")
  /\ UNCHANGED <<osVars, seen, sigchld>>

\* The zombie belongs to a job: the pass ends here, whatever else is waiting.
LeavesManaged ==
  /\ seen \in managed
  /\ ReaperGoto("lookup", "select")
  /\ seen' = "none"
  /\ UNCHANGED <<osVars, sigchld>>

\* Mutant: the registry is not looked up.
TakesAny ==
  /\ ReaperGoto("lookup", "wait4")
  /\ UNCHANGED <<osVars, seen, sigchld>>

TakesOrphan ==
  /\ seen \notin managed
  /\ ReaperGoto("lookup", "wait4")
  /\ UNCHANGED <<osVars, seen, sigchld>>

Reaps ==
  /\ ReaperGoto("wait4", "peek")
  /\ \E p \in Pids : p = seen /\ Collect(p)
  /\ seen' = "none"
  /\ UNCHANGED sigchld

\* wait4 with WNOHANG finds no such zombie: the loop goes on.
ReapsNothing ==
  /\ ReaperGoto("wait4", "peek")
  /\ \A p \in Pids : p = seen => os[p] # "zombie"
  /\ seen' = "none"
  /\ UNCHANGED <<osVars, sigchld>>

-----------------------------------------------------------------------------
Next ==
  \/ \E p \in Pids : Orphaned(p) \/ Exit(p) \/ Peek(p)
  \/ \E j \in Jobs : Start(j) \/ JobStep(j)
  \/ Signalled \/ Ticks \/ PeekNone
  \/ LeavesManaged \/ TakesOrphan \/ Reaps \/ ReapsNothing

Spec == Init /\ [][Next]_vars

ManagedZombie == \E j \in Jobs : job[j] = "waiting" /\ \E p \in Pids :
                   p = pid[j] /\ owner[p] = j /\ os[p] = "zombie"

\* Goroutines that can take a step do so in the end.  The kernel lists the
\* orphans in the order in which mittnite inherited them, so that each is
\* reported in the end, if only the zombies of jobs, which are elsewhere in
\* its list, do not come first again and again.  Nothing is assumed of
\* SIGCHLD, nor of when jobs are started and processes end.
FairSpec ==
  /\ Spec
  /\ \A j \in Jobs : WF_vars(JobStep(j))
  /\ WF_vars(Ticks \/ Signalled) /\ WF_vars(PeekNone)
  /\ WF_vars(LeavesManaged \/ TakesOrphan) /\ WF_vars(Reaps \/ ReapsNothing)
  /\ WF_vars(\E p \in Pids : Peek(p))
  /\ \A p \in Pids : SF_vars(~ManagedZombie /\ Peek(p))

-----------------------------------------------------------------------------
(* Properties.                                                              *)

\* The comment of ReapZombies: "Processes that belong to a managed job are
\* deliberately left alone, so that their exit status stays available to the
\* job supervisor's cmd.Wait()."  No job loses a status to the reaper.
EveryStatusIsKept == \A j \in Jobs : status[j] # "lost"

\* The same for the jobs whose processes live until they are registered, even
\* beside others whose processes do not.
StatusIsKept == \A j \in Jobs \ ExitsEarly : status[j] # "lost"

\* The same comment: ReapZombies "reaps orphaned child processes that get
\* re-parented to mittnite".  No orphan stays a zombie for ever, neither
\* because its SIGCHLD was dropped nor because a job's process was reported
\* before it, unless the zombies of jobs never cease.
OrphansAreReaped ==
  \A p \in Pids :
    \/ []<>ManagedZombie
    \/ (os[p] = "zombie" /\ owner[p] = "orphan") ~> os[p] # "zombie"

-----------------------------------------------------------------------------
(* The inductive invariant behind StatusIsKept, for pids that are not reused *)
(* at once.                                                                  *)

\* A call between Start and Wait has a pid of its own.  Its process is still
\* there, and registered while it is waited for, if it did not exit early.
CallsOwn ==
  \A j \in Jobs :
    /\ job[j] \in {"started", "waiting"} /\ j \notin ExitsEarly => owner[pid[j]] = j
    /\ job[j] = "started" /\ j \notin ExitsEarly => os[pid[j]] = "alive"
    /\ job[j] = "waiting" => pid[j] \in managed
    /\ \A k \in Jobs \ {j} : job[j] # "idle" /\ job[k] # "idle" => pid[j] # pid[k]

\* A process that is not an orphan is that of such a call.
ProcessesAreOwned ==
  \A p \in Pids :
    /\ os[p] = "free" <=> owner[p] = "none"
    /\ owner[p] \in Jobs =>
         job[owner[p]] \in {"started", "waiting"} /\ pid[owner[p]] = p

\* The reaper sets out to take an orphan, or what exited too early.
ReaperIsRight ==
  /\ reaper \in {"lookup", "wait4"} => seen \in Pids /\ os[seen] # "alive"
  /\ reaper = "wait4" => owner[seen] \in {"none", "orphan"} \cup ExitsEarly

Reaping == CallsOwn /\ ProcessesAreOwned /\ ReaperIsRight /\ StatusIsKept
=============================================================================
