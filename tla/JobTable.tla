------------------------------ MODULE JobTable -------------------------------
(***************************************************************************)
(* The slice r.jobs of the Runner, which nothing locks: tick takes jobs    *)
(* out of it and puts them back to start them again, while the handlers of *)
(* the API search it, and add a new object for a job they do not find.     *)
(* The runner is started with --keep-running.                              *)
(*                                                                         *)
(* Config is the list of configured jobs.  An object <<e, m>> was made for *)
(* entry e by m: by Runner.Init or by a handler.  Here an object only is   *)
(* up, or has ended in some phase; Runner models what happens in between.  *)
(* A lazy job is in the slice, but has no phase that tick looks at.        *)
(*                                                                         *)
(* The slice is a header (len) and a backing array that Init has made, and *)
(* that has room for what handlers may add.                                *)
(***************************************************************************)
EXTENDS Integers, Sequences, FiniteSets

CONSTANTS
  Config,    \* the configured jobs: their name and their options
  Reqs,      \* HTTP handlers that may run concurrently
  Room,      \* the capacity of the backing array
  Overlap,   \* a handler may search the slice while tick changes it
  Ops,       \* what clients request: "start", "stop", "status"
  Nil        \* no object

Entries == DOMAIN Config
Names   == {Config[e].name : e \in Entries}
Objects == Entries \X ({"init"} \cup Reqs)

ASSUME JobTableAssumption ==
  /\ Config \in Seq([name : STRING, lazy : BOOLEAN, controllable : BOOLEAN,
                     canFail : BOOLEAN, oneTime : BOOLEAN])
  /\ Room \in Nat /\ Room >= Len(Config)
  /\ Overlap \in BOOLEAN
  /\ Ops \subseteq {"start", "stop", "status"}
  /\ Nil \notin Objects

VARIABLES
  arr,     \* the backing array
  len,     \* the length of r.jobs
  phase,   \* the phase of each object
  up,      \* the objects that have a goroutine in Run
  failing, \* those of them that are handing over their error
  runner,  \* where the goroutine of Runner.Run is
  todo,    \* the objects it still has to start
  over,    \* Run has returned the error of a job
  api      \* each handler: where it is, what for, and what it has found

tableVars == <<arr, len>>
jobVars   == <<phase, up, failing>>
vars == <<tableVars, jobVars, runner, todo, over, api>>

NameOf(o) == Config[o[1]].name
IsLazy(o) == Config[o[1]].lazy

\* The elements of the slice, as a set.
InTable == {arr[i] : i \in 1 .. len}

Free == [pc |-> "idle", op |-> "status", name |-> "", n |-> 0, i |-> 0,
         job |-> Nil]

SliceOK ==
  /\ arr \in [1 .. Room -> Objects \cup {Nil}]
  /\ len \in 0 .. Room

JobsOK ==
  /\ phase \in [Objects -> {"awaitingReadiness", "unknown", "failed",
                            "completed", "stopped"}]
  /\ up \subseteq Objects /\ failing \subseteq up

RunnerOK ==
  /\ runner \in {"boot", "exec", "select", "remove", "add", "start"}
  /\ todo \in Seq(Objects)
  /\ over \in BOOLEAN

Handlers == [pc : {"idle", "look", "take", "make", "check", "add", "serve"},
             op : Ops \cup {"status"}, name : Names \cup {""},
             n : 0 .. Room, i : 0 .. Room + 1, job : Objects \cup {Nil}]

TypeOK == SliceOK /\ JobsOK /\ RunnerOK /\ api \in [Reqs -> Handlers]

\* Runner.Init: of several jobs of one name only the first is added.
First == {e \in Entries : \A d \in 1 .. e - 1 : Config[d].name # Config[e].name}

\* The list of the numbers in S in ascending order, which is the only member.
Ascending(S) ==
  {f \in [1 .. Cardinality(S) -> S] : \A i, j \in DOMAIN f : i < j => f[i] < f[j]}

Init ==
  /\ len = Cardinality(First)
  /\ \E kept \in Ascending(First) :
       arr = [i \in 1 .. Room |-> IF i <= len THEN <<kept[i], "init">> ELSE Nil]
  /\ phase = [o \in Objects |-> "awaitingReadiness"]
  /\ up = {} /\ failing = {}
  /\ runner = "boot" /\ todo = <<>> /\ over = FALSE
  /\ api = [q \in Reqs |-> Free]

-----------------------------------------------------------------------------
(* The jobs.                                                                *)

\* startJob
StartJob(o) ==
  /\ phase' = [phase EXCEPT ![o] = "unknown"]
  /\ up' = IF IsLazy(o) THEN up ELSE up \cup {o}
  /\ UNCHANGED failing

\* The goroutine of a job leaves Run, or goes on to report its error first.
Ends(o) ==
  /\ o \in up \ failing
  /\ \/ /\ phase' = [phase EXCEPT ![o] = "failed"]
        /\ IF Config[o[1]].canFail THEN up' = up \ {o} /\ UNCHANGED failing
           ELSE failing' = failing \cup {o} /\ UNCHANGED up
     \/ /\ Config[o[1]].oneTime
        /\ phase' = [phase EXCEPT ![o] = "completed"]
        /\ up' = up \ {o}
        /\ UNCHANGED failing
  /\ UNCHANGED <<tableVars, runner, todo, over, api>>

-----------------------------------------------------------------------------
(* The goroutine of Runner.Run: exec, tick and the error of a job.          *)

\* The elements of the slice.
Jobs == [i \in 1 .. len |-> arr[i]]

\* exec begins: startJob is called for one job after the other.
Exec ==
  /\ runner = "boot"
  /\ todo' = Jobs
  /\ runner' = IF todo' = <<>> THEN "select" ELSE "exec"
  /\ UNCHANGED <<tableVars, jobVars, over, api>>

ExecStarts ==
  /\ runner = "exec"
  /\ StartJob(Head(todo))
  /\ todo' = Tail(todo)
  /\ runner' = IF todo' = <<>> THEN "select" ELSE "exec"
  /\ UNCHANGED <<tableVars, over, api>>

Restartable(o) ==
  /\ o # Nil /\ ~IsLazy(o)
  /\ phase[o] = "failed" \/ (phase[o] = "completed" /\ ~Config[o[1]].oneTime)

\* tick collects the jobs it is going to start again.
Tick ==
  /\ runner = "select"
  /\ \E at \in Ascending({i \in 1 .. len : Restartable(arr[i])}) :
       todo' = [j \in DOMAIN at |-> arr[at[j]]]
  /\ runner' = IF todo' = <<>> THEN "select" ELSE "remove"
  /\ UNCHANGED <<tableVars, jobVars, over, api>>

\* Nobody is searching the slice, unless that may happen.
Undisturbed == Overlap \/ \A q \in Reqs : api[q].pc \in {"idle", "serve"}

\* The indices of the jobs of one name.
Named(name) == {i \in 1 .. len : arr[i] # Nil /\ NameOf(arr[i]) = name}

\* Mutant: the last job is dropped instead of the one that was asked for.
RemovesLast ==
  /\ runner = "remove" /\ runner' = "add" /\ Undisturbed
  /\ arr' = [arr EXCEPT ![len] = Nil]
  /\ len' = len - 1
  /\ UNCHANGED <<jobVars, todo, over, api>>

\* removeJob: the last job takes the place of the first of the name.
Removes ==
  /\ runner = "remove" /\ runner' = "add" /\ Undisturbed
  /\ LET at == Named(NameOf(Head(todo))) IN
       IF at = {} THEN UNCHANGED tableVars
       ELSE LET i == CHOOSE i \in at : \A j \in at : i <= j IN
            /\ arr' = [[arr EXCEPT ![i] = arr[len]] EXCEPT ![len] = Nil]
            /\ len' = len - 1
  /\ UNCHANGED <<jobVars, todo, over, api>>

\* addJobIfNotExists
AddIfNotExists(o) ==
  IF Named(NameOf(o)) # {} THEN UNCHANGED tableVars
  ELSE /\ len' = len + 1
       /\ arr' = [arr EXCEPT ![len + 1] = o]

\* Mutant: the job is started, but not put back.
AddsNothing ==
  /\ runner = "add" /\ runner' = "start"
  /\ UNCHANGED <<tableVars, jobVars, todo, over, api>>

Adds ==
  /\ runner = "add" /\ runner' = "start"
  /\ AddIfNotExists(Head(todo))
  /\ UNCHANGED <<jobVars, todo, over, api>>

Starts ==
  /\ runner = "start"
  /\ StartJob(Head(todo))
  /\ todo' = Tail(todo)
  /\ runner' = IF todo' = <<>> THEN "select" ELSE "remove"
  /\ UNCHANGED <<tableVars, over, api>>

\* An error is received from errChan, and Run returns it.  Jobs that are up
\* are left to themselves.
JobError ==
  /\ runner = "select"
  /\ \E o \in failing : failing' = failing \ {o} /\ up' = up \ {o}
  /\ over' = TRUE
  /\ UNCHANGED <<tableVars, phase, runner, todo, api>>

RunnerStep == Exec \/ ExecStarts \/ Tick \/ Removes \/ Adds \/ Starts \/ JobError

-----------------------------------------------------------------------------
(* The handlers: apiV1JobMiddleware, and the operation behind it.           *)

\* The object has been made, and is still referred to.
Made(o) == o \in InTable \cup up \/ phase[o] # "awaitingReadiness"

\* The handler in slot q changes nothing but itself.
Moves(q, change) ==
  /\ api' = [api EXCEPT ![q] = change]
  /\ UNCHANGED <<tableVars, jobVars, runner, todo, over>>

\* A request for a job arrives: findCommonJobByName begins.  A slot makes an
\* object for an entry only once.
Asks(q) ==
  /\ api[q].pc = "idle"
  /\ Overlap \/ runner \notin {"remove", "add"}
  /\ \E name \in Names, op \in Ops :
       /\ \A e \in Entries : Config[e].name = name => ~Made(<<e, q>>)
       /\ Moves(q, [Free EXCEPT !.pc = "look", !.op = op, !.name = name,
                                !.n = len, !.i = 1])

\* The next element is looked at.  The method of a nil element panics, and
\* net/http ends the request.
Looks(q) ==
  /\ api[q].pc = "look"
  /\ LET h == api[q] IN
       Moves(q, IF h.i > h.n THEN [h EXCEPT !.pc = "make"]
                ELSE IF arr[h.i] = Nil THEN Free
                ELSE IF NameOf(arr[h.i]) = h.name THEN [h EXCEPT !.pc = "take"]
                ELSE [h EXCEPT !.i = @ + 1])

\* Mutant: the last job that was looked at is taken.
TakesPrevious(q) ==
  /\ api[q].pc = "take"
  /\ LET h == api[q] IN
       Moves(q, IF h.i > len THEN Free
                ELSE IF IsLazy(arr[h.i]) THEN [h EXCEPT !.pc = "make"]
                ELSE [h EXCEPT !.pc = "check", !.job = arr[IF h.i > 1 THEN h.i - 1 ELSE 1]])

\* r.jobs[i] is read again, and panics when the slice has become too short.  A
\* lazy job is not found.
Takes(q) ==
  /\ api[q].pc = "take"
  /\ LET h == api[q] IN
       Moves(q, IF h.i > len THEN Free
                ELSE IF IsLazy(arr[h.i]) THEN [h EXCEPT !.pc = "make"]
                ELSE [h EXCEPT !.pc = "check", !.job = arr[h.i]])

\* The entries that findCommonIgnitionJobByName chooses from.
Ignitions(name) == {e \in Entries : Config[e].name = name /\ ~Config[e].lazy}

\* A new object is made, or the request refused.
Makes(q) ==
  /\ api[q].pc = "make"
  /\ LET h == api[q]
         es == Ignitions(h.name)
         e == CHOOSE e \in es : \A d \in es : e <= d
     IN Moves(q, IF es = {} THEN Free
                 ELSE [h EXCEPT !.pc = "check", !.job = <<e, q>>])

\* Jobs that are not controllable are not found either.
Checks(q) ==
  /\ api[q].pc = "check"
  /\ Moves(q, IF Config[api[q].job[1]].controllable
              THEN [api[q] EXCEPT !.pc = "add"] ELSE Free)

HandlerAdds(q) ==
  /\ api[q].pc = "add"
  /\ AddIfNotExists(api[q].job)
  /\ api' = [api EXCEPT ![q].pc = "serve"]
  /\ UNCHANGED <<jobVars, runner, todo, over>>

\* The operation.  A start of a job that is up is a no-op here, and so is a stop
\* of one that is not; what either does to the goroutine of the job, and what
\* becomes of a request before exec is over, is in Runner.
Serves(q) ==
  /\ api[q].pc = "serve" /\ runner \notin {"boot", "exec"}
  /\ LET o == api[q].job IN
       CASE api[q].op = "start" /\ o \notin up -> StartJob(o)
         [] api[q].op = "stop" /\ o \in up \ failing ->
              /\ up' = up \ {o}
              /\ phase' = [phase EXCEPT ![o] = "stopped"]
              /\ UNCHANGED failing
         [] OTHER -> UNCHANGED jobVars
  /\ api' = [api EXCEPT ![q] = Free]
  /\ UNCHANGED <<tableVars, runner, todo, over>>

HandlerStep(q) ==
  Looks(q) \/ Takes(q) \/ Makes(q) \/ Checks(q) \/ HandlerAdds(q) \/ Serves(q)

-----------------------------------------------------------------------------
Next ==
  \/ /\ ~over
     /\ \/ \E o \in Objects : Ends(o)
        \/ RunnerStep
        \/ \E q \in Reqs : Asks(q) \/ HandlerStep(q)
  \/ over /\ UNCHANGED vars    \* mittnite ends

Spec == Init /\ [][Next]_vars

\* Nobody has to send a request, and no job has to end.  The ticker competes
\* with errChan, and a removal waits for handlers only where Overlap is FALSE.
FairSpec ==
  /\ Spec
  /\ WF_vars(~over /\ (Exec \/ ExecStarts \/ Adds \/ Starts))
  /\ SF_vars(~over /\ Tick) /\ SF_vars(~over /\ Removes)
  /\ \A q \in Reqs : WF_vars(~over /\ HandlerStep(q))

-----------------------------------------------------------------------------
(* Properties.                                                              *)

\* Between two ticks the slice has every configured name exactly once and no
\* hole, whatever order the jobs that failed together were moved around in.
TableIsComplete ==
  runner \in {"boot", "exec", "select"} =>
    /\ Nil \notin InTable
    /\ {NameOf(o) : o \in InTable} = Names
    /\ len = Cardinality(First)

\* A request acts on a job of the name it was sent for, and if that job is the
\* only one of its name, on the object that the runner supervises.
ActsOnNamedJob ==
  \A q \in Reqs : api[q].pc = "serve" =>
    LET o == api[q].job IN
    /\ NameOf(o) = api[q].name
    /\ Ignitions(NameOf(o)) = {o[1]} /\ o[1] \in First => o[2] = "init"

\* Every job that has failed, or has completed although it should run on, is
\* started again, however many fail at the same time, unless the failure of one
\* ends the run.
FailedIsRestarted ==
  \A e \in First :
    LET o == <<e, "init">> IN Restartable(o) ~> ~Restartable(o) \/ over

\* A job has one process.  (Not so when requests meet a tick.)
OneProcessPerName ==
  \A o, p \in up : NameOf(o) = NameOf(p) => o = p

\* When Run has returned, no job is left without a signal.  (Several are.)
NoJobIsAbandoned == over => up = {}
===============================================================================
