-------------------------------- MODULE Output --------------------------------
(***************************************************************************)
(* The way of a job's output: the log files that startOnce opens and       *)
(* closes, the pipes it makes when the output is decorated, and the        *)
(* forwarder goroutines that copy from a pipe to its target.               *)
(*                                                                         *)
(* A call is one execution of startOnce; call 0 is a watch command, which  *)
(* runCommandWithJobDecoration runs beside the job.  A forwarder may       *)
(* outlive its call, and then works beside the next one.                   *)
(*                                                                         *)
(* What a process writes to a stream is a sequence of chunks, numbered     *)
(* from 1.  A chunk is a whole line, or a part of a line that exceeds the  *)
(* read buffer.  A handle <<k, s>> is the *os.File that call k opened for  *)
(* stream s; <<0, s>> is mittnite's own stream.  Time is abstract: the     *)
(* timer that limits the drain may fire whenever it is waited for.         *)
(***************************************************************************)
EXTENDS Integers, FiniteSets

CONSTANTS
  MaxStarts,  \* bound on the executions of startOnce
  MaxChunks,  \* bound on the chunks a call writes to one stream
  MaxSent,    \* bound on the chunks all calls write
  Options,    \* what may decorate a line: "timestamp", "name"
  Failures    \* what may fail: "open", "pipe", "start", "write"

ASSUME OutputAssumption ==
  /\ MaxStarts \in Nat /\ MaxChunks \in Nat /\ MaxSent \in Nat
  /\ Failures \subseteq {"open", "pipe", "start", "write"}

Streams == {"stdout", "stderr"}
Starts  == 1 .. MaxStarts
Calls   == 0 .. MaxStarts
Pipes   == Calls \X Streams      \* also the handles
Std     == {0} \X Streams

VARIABLES
  path,         \* Config.Stdout and Config.Stderr; "" is not configured
  decoration,   \* what a line of output starts with
  overlong,     \* the first line of each output has two chunks
  field,        \* job.stdout and job.stderr
  open,         \* the handles that are open
  pc,           \* where each call is
  late,         \* calls whose drain timed out
  procs,        \* the live processes of each call that hold its write ends
  held,         \* calls whose write ends mittnite itself still holds
  target,       \* the handle each pipe is forwarded to
  sent,         \* the number of chunks written
  got,          \* the number of chunks its forwarder has read
  fwd,          \* where each forwarder is
  continued,    \* the forwarder's variable continuation
  discards,     \* forwarders that have replaced their target by io.Discard
  out,          \* the chunks that reached their target, and what they begin with
  failed        \* the chunks a broken target has refused

confVars == <<path, decoration, overlong>>
fileVars == <<field, open>>
callVars == <<pc, late, procs, held, target>>
pipeVars == <<sent, got, fwd, continued, discards, out, failed>>
vars == <<confVars, fileVars, callVars, pipeVars>>

ConfOK ==
  /\ path \in [Streams -> {"", "a", "b"}]
  /\ decoration \subseteq Options
  /\ overlong \in BOOLEAN

FileOK ==
  /\ field \in [Streams -> Pipes]
  /\ open \subseteq Pipes

CallOK ==
  /\ pc \in [Calls -> {"idle", "pipes", "run", "drain", "close", "done"}]
  /\ late \subseteq Calls
  /\ procs \in [Calls -> SUBSET {"main", "child"}]
  /\ held \subseteq Calls
  /\ target \in [Pipes -> Pipes]

PipeOK ==
  /\ sent \in [Pipes -> 0 .. MaxChunks]
  /\ got \in [Pipes -> 0 .. MaxChunks]
  /\ fwd \in [Pipes -> {"none", "copy", "done"}]
  /\ continued \subseteq Pipes
  /\ discards \subseteq Pipes
  /\ out \subseteq Pipes \X (1 .. MaxChunks) \X SUBSET Options
  /\ failed \subseteq Pipes \X (1 .. MaxChunks)

TypeOK == ConfOK /\ FileOK /\ CallOK /\ PipeOK

-----------------------------------------------------------------------------
(* The configuration.                                                       *)

\* ApplyJobLogDefaults: an option that is not set takes the global default.
Materialized(option, default) ==
  IF option = "unset" THEN (IF default THEN "on" ELSE "off") ELSE option

\* TimestampsEnabled, NamePrefixEnabled
Enabled(option) == option = "on"

Init ==
  /\ path \in [Streams -> {"", "a", "b"}]
  /\ path["stdout"] # "b" /\ (path["stderr"] = "b" => path["stdout"] = "a")
  /\ \E option \in [Options -> {"unset", "on", "off"}],
        default \in [Options -> BOOLEAN] :
       decoration = {o \in Options : Enabled(Materialized(option[o], default[o]))}
  /\ overlong \in BOOLEAN
  /\ field = [s \in Streams |-> <<0, s>>]
  /\ open = Std
  /\ pc = [k \in Calls |-> "idle"]
  /\ late = {}
  /\ procs = [k \in Calls |-> {}]
  /\ held = {}
  /\ target = [p \in Pipes |-> <<0, p[2]>>]
  /\ sent = [p \in Pipes |-> 0]
  /\ got = [p \in Pipes |-> 0]
  /\ fwd = [p \in Pipes |-> "none"]
  /\ continued = {}
  /\ discards = {}
  /\ out = {}
  /\ failed = {}

\* The output goes through pipes and forwarders.
Piped == decoration # {}

\* Both streams are configured to go to one file, which is opened once.
Shared == path["stdout"] # "" /\ path["stdout"] = path["stderr"]

-----------------------------------------------------------------------------
(* startOnce, and runCommandWithJobDecoration.                              *)

Goto(k, from, to) ==
  /\ pc[k] = from
  /\ pc' = [pc EXCEPT ![k] = to]

\* A watched file has changed: the command writes to mittnite's own streams.
\* Nothing else is shared with the calls, so it is explored without them.
CommandBegins ==
  /\ \A k \in Starts : pc[k] = "idle"
  /\ Goto(0, "idle", "pipes")
  /\ UNCHANGED <<confVars, fileVars, late, procs, held, target, pipeVars>>

\* The streams that CreateAndOpenStdFile opens a file for.
Opened == {s \in Streams : path[s] # "" /\ (s = "stderr" => ~Shared)}

\* Run calls startOnce again only when the last call has returned.
MayStart(k) == k \in Starts /\ pc[0] = "idle" /\ (k > 1 => pc[k - 1] = "done")

\* startOnce begins with CreateAndOpenStdFile.
Opens(k) ==
  /\ MayStart(k)
  /\ Goto(k, "idle", "pipes")
  /\ open' = open \cup {<<k, s>> : s \in Opened}
  /\ field' = [s \in Streams |->
                 IF s \in Opened THEN <<k, s>>
                 ELSE IF Shared THEN <<k, "stdout">> ELSE field[s]]
  /\ UNCHANGED <<confVars, late, procs, held, target, pipeVars>>

\* One file cannot be opened: the one before it stays in its field.
OpenFails(k) ==
  /\ "open" \in Failures /\ MayStart(k)
  /\ Goto(k, "idle", "close")
  /\ \E s \in Opened :
       LET before == (Opened \cap {"stdout"}) \ {s} IN
       /\ open' = open \cup {<<k, b>> : b \in before}
       /\ field' = [b \in Streams |-> IF b \in before THEN <<k, b>> ELSE field[b]]
  /\ UNCHANGED <<confVars, late, procs, held, target, pipeVars>>

\* Where the output of call k goes: the fields are read once.
Targets(k) ==
  [p \in Pipes |-> IF p[1] # k THEN target[p]
                   ELSE IF k = 0 THEN <<0, p[2]>> ELSE field[p[2]]]

\* The pipes are made and the forwarders spawned, or the process will inherit
\* the targets themselves.  A forwarder has nothing to do before cmd.Start.
Connects(k) ==
  /\ target' = Targets(k)
  /\ fwd' = [p \in Pipes |-> IF p[1] = k /\ Piped THEN "copy" ELSE fwd[p]]
  /\ UNCHANGED <<confVars, fileVars, late, sent, got, continued, discards, out,
                 failed>>

\* A pipe cannot be made.  A job is not started then, a command is run with
\* mittnite's streams.
PipeFails(k) ==
  /\ "pipe" \in Failures /\ Piped
  /\ IF k = 0
     THEN Goto(k, "pipes", "run") /\ procs' = [procs EXCEPT ![k] = {"main"}]
     ELSE Goto(k, "pipes", "close") /\ UNCHANGED procs
  /\ UNCHANGED <<confVars, fileVars, late, held, target, pipeVars>>

\* cmd.Start succeeds, and mittnite closes its own write ends.  The process may
\* have a child that inherits them.
Forks(k) ==
  /\ Goto(k, "pipes", "run")
  /\ Connects(k)
  /\ \E inherits \in SUBSET {"child"} :
       procs' = [procs EXCEPT ![k] = {"main"} \cup inherits]
  /\ UNCHANGED held

\* Mutant: the write ends are kept when the process could not be started.
ForkFailsHolding(k) ==
  /\ "start" \in Failures
  /\ Goto(k, "pipes", "drain")
  /\ Connects(k)
  /\ held' = IF Piped THEN held \cup {k} ELSE held
  /\ UNCHANGED procs

\* cmd.Start fails: the write ends are closed all the same.
ForkFails(k) ==
  /\ "start" \in Failures
  /\ Goto(k, "pipes", "drain")
  /\ Connects(k)
  /\ UNCHANGED <<procs, held>>

\* The main process has ended.  One that startOnce kills and does not wait for
\* counts as ended, too.
Waited(k) ==
  /\ "main" \notin procs[k]
  /\ Goto(k, "run", "drain")
  /\ UNCHANGED <<confVars, fileVars, late, procs, held, target, pipeVars>>

AfterDrain(k) == IF k = 0 THEN "done" ELSE "close"

\* Mutant: the call does not wait for its forwarders.
DrainedAtOnce(k) ==
  /\ Goto(k, "drain", AfterDrain(k))
  /\ UNCHANGED <<confVars, fileVars, late, procs, held, target, pipeVars>>

\* The forwarders of the call have ended, or there are none.
Drained(k) ==
  /\ \A s \in Streams : fwd[<<k, s>>] \in {"none", "done"}
  /\ Goto(k, "drain", AfterDrain(k))
  /\ UNCHANGED <<confVars, fileVars, late, procs, held, target, pipeVars>>

DrainTimesOut(k) ==
  /\ \E s \in Streams : fwd[<<k, s>>] \notin {"none", "done"}
  /\ Goto(k, "drain", AfterDrain(k))
  /\ late' = late \cup {k}
  /\ UNCHANGED <<confVars, fileVars, procs, held, target, pipeVars>>

\* Mutant: whatever the fields hold is closed.
ClosesFields(k) ==
  /\ Goto(k, "close", "done")
  /\ open' = open \ {field[s] : s \in Opened}
  /\ UNCHANGED <<confVars, field, late, procs, held, target, pipeVars>>

\* closeStdFiles.  A field may still hold mittnite's stream, or a handle of an
\* earlier call that is closed already.
Closes(k) ==
  /\ Goto(k, "close", "done")
  /\ open' = open \ ({field[s] : s \in Opened} \ Std)
  /\ UNCHANGED <<confVars, field, late, procs, held, target, pipeVars>>

CallStep(k) ==
  \/ Opens(k) \/ OpenFails(k) \/ Closes(k)
  \/ k = 0 /\ CommandBegins
  \/ PipeFails(k) \/ Forks(k) \/ ForkFails(k)
  \/ Waited(k) \/ Drained(k) \/ DrainTimesOut(k)

-----------------------------------------------------------------------------
(* The processes.                                                           *)

\* The chunk is not the end of its line.
IsPrefix(n) == overlong /\ n = 1

\* The chunk begins a line.
BeginsLine(n) == n = 1 \/ ~IsPrefix(n - 1)

Written == {c \in Pipes \X (1 .. MaxChunks) : c[2] <= sent[c[1]]}

\* A process writes a chunk: into the pipe, or straight to the target.
Writes(p) ==
  /\ procs[p[1]] # {}
  /\ sent[p] < MaxChunks /\ Cardinality(Written) < MaxSent
  /\ sent' = [sent EXCEPT ![p] = @ + 1]
  /\ out' = IF fwd[p] = "none" THEN out \cup {<<p, sent'[p], {}>>} ELSE out
  /\ UNCHANGED <<confVars, fileVars, callVars, got, fwd, continued, discards,
                 failed>>

Exits(k) ==
  /\ \E process \in procs[k] : procs' = [procs EXCEPT ![k] = @ \ {process}]
  /\ UNCHANGED <<confVars, fileVars, pc, late, held, target, pipeVars>>

-----------------------------------------------------------------------------
(* forwardOutput.                                                           *)

\* reader.ReadLine returns a chunk, which is dealt with, and the variable
\* continuation becomes isPrefix.  Nobody sees the forwarder between the two.
TakesChunk(p) ==
  /\ fwd[p] = "copy" /\ got[p] < sent[p]
  /\ got' = [got EXCEPT ![p] = @ + 1]
  /\ continued' = IF IsPrefix(got'[p]) THEN continued \cup {p} ELSE continued \ {p}
  /\ UNCHANGED <<confVars, fileVars, callVars, sent, fwd>>

\* The chunk is written, with what a line begins with unless it continues one.
Delivers(p) ==
  /\ p \notin discards /\ target[p] \in open
  /\ TakesChunk(p)
  /\ out' = out \cup {<<p, got'[p], IF p \in continued THEN {} ELSE decoration>>}
  /\ UNCHANGED <<discards, failed>>

\* Mutant: the forwarder returns, and closes the read end of the pipe.
StopsAtClosed(p) ==
  /\ p \notin discards /\ target[p] \notin open
  /\ fwd[p] = "copy" /\ got[p] < sent[p]
  /\ fwd' = [fwd EXCEPT ![p] = "done"]
  /\ UNCHANGED <<confVars, fileVars, callVars, sent, got, continued, discards,
                 out, failed>>

\* os.ErrClosed: from now on the output is discarded, but the pipe drained.
FindsClosed(p) ==
  /\ p \notin discards /\ target[p] \notin open
  /\ TakesChunk(p)
  /\ discards' = discards \cup {p}
  /\ UNCHANGED <<out, failed>>

Discards(p) ==
  /\ p \in discards
  /\ TakesChunk(p)
  /\ UNCHANGED <<discards, out, failed>>

\* Mutant: a chunk that could not be written is not the begin of a line.
WriteFailsEarly(p) ==
  /\ "write" \in Failures
  /\ p \notin discards /\ target[p] \in open
  /\ fwd[p] = "copy" /\ got[p] < sent[p]
  /\ got' = [got EXCEPT ![p] = @ + 1]
  /\ failed' = failed \cup {<<p, got'[p]>>}
  /\ UNCHANGED <<confVars, fileVars, callVars, sent, fwd, continued, discards, out>>

\* The target is broken, for now or for ever: the chunk is lost.
WriteFails(p) ==
  /\ "write" \in Failures
  /\ p \notin discards /\ target[p] \in open
  /\ TakesChunk(p)
  /\ failed' = failed \cup {<<p, got'[p]>>}
  /\ UNCHANGED <<discards, out>>

\* All write ends are gone: the forwarder closes the read end and returns.
ReadsEOF(p) ==
  /\ fwd[p] = "copy" /\ got[p] = sent[p]
  /\ procs[p[1]] = {} /\ p[1] \notin held
  /\ fwd' = [fwd EXCEPT ![p] = "done"]
  /\ UNCHANGED <<confVars, fileVars, callVars, sent, got, continued, discards,
                 out, failed>>

Forward(p) ==
  \/ Delivers(p) \/ FindsClosed(p) \/ Discards(p) \/ WriteFails(p)
  \/ ReadsEOF(p)

-----------------------------------------------------------------------------
Idle == \A k \in Calls : pc[k] \in {"idle", "done"} /\ procs[k] = {}

Next ==
  \/ \E k \in Calls : CallStep(k) \/ Exits(k)
  \/ \E p \in Pipes : Writes(p) \/ Forward(p)
  \/ Idle /\ UNCHANGED vars    \* mittnite goes on without the job

Spec == Init /\ [][Next]_vars

\* Every goroutine takes its steps, and the timer of the drain fires.  No
\* process has to end.
FairSpec ==
  /\ Spec
  /\ \A k \in Calls :
       /\ WF_vars(Drained(k) \/ DrainTimesOut(k) \/ Closes(k))
       /\ WF_vars(\E s \in Streams : Forward(<<k, s>>))

-----------------------------------------------------------------------------
(* Properties.                                                              *)

Reached(p, n) == \E c \in out : c[1] = p /\ c[2] = n

\* What a forwarder has read is at its target, refused by it, or late.
ChunksArrive ==
  \A p \in Pipes : \A n \in 1 .. got[p] :
    \/ Reached(p, n) \/ <<p, n>> \in failed
    \/ p[1] \in late /\ target[p] \notin Std

DrainsAll ==
  \A p \in Pipes :
    pc[p[1]] = "done" /\ p[1] \notin late /\ fwd[p] # "none" => got[p] = sent[p]

\* A call that was not cut short by the timer returns after all output is at
\* its target; later output of a child that outlives it is discarded only when
\* it goes to a log file, which the return has closed.  Nothing else is lost
\* except what a broken target refuses.
NothingLost == ChunksArrive /\ DrainsAll

\* Between two calls all log files are closed, whatever failed half-way, and
\* mittnite's own streams never are, although the fields may hold them.
FilesAreClosed ==
  /\ Std \subseteq open
  /\ (\A k \in Starts : pc[k] \in {"idle", "done"}) => open = Std

\* A forwarder closes the read end of its pipe only when no process can write to
\* it any more: none is killed by SIGPIPE, however long it outlives its call.
ReaderOutlivesWriters ==
  \A p \in Pipes : fwd[p] = "done" => procs[p[1]] = {} /\ got[p] = sent[p]

\* In what reaches a target exactly the begins of lines are decorated, also
\* after chunks were refused, and the output of an undecorated job is left alone.
Decorated ==
  \A c \in out : c[3] = IF fwd[c[1]] # "none" /\ BeginsLine(c[2])
                        THEN decoration ELSE {}

\* When the processes of a call have ended, or none was started, the call returns
\* and its forwarders end, however many calls follow.
OutputEnds ==
  \A k \in Calls :
    pc[k] \in {"drain", "close", "done"} /\ procs[k] = {} ~>
      pc[k] = "done" /\ \A s \in Streams : fwd[<<k, s>>] \in {"none", "done"}
===============================================================================
