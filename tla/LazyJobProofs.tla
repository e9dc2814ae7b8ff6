----------------------------- MODULE LazyJobProofs ----------------------------
(* Theorems about LazyJob, for every number of listeners, connections,       *)
(* starters and process ids.                                                 *)
EXTENDS LazyJob, FiniteSetTheorems, TLAPS

-----------------------------------------------------------------------------
(* The inductive invariant behind the three invariants of the runs.          *)

\* The listener that holds the lock and the starter it waits for.
Handshake ==
  /\ \A k, l \in Starting : k = l
  /\ \A s, t \in Due : s = t
  /\ Starting = {} <=> Due = {}

\* One goroutine at a time executes startOnce, and job.process is non-nil from
\* the end of the handshake until that goroutine is done.
Supervised ==
  /\ \A s, t \in Starts : starter[s] # "idle" /\ starter[t] # "idle" => s = t
  /\ \A s \in Starts :
       /\ starter[s] \in {"idle", "start", "failed"} => mine[s] = Nil
       /\ starter[s] \in {"send", "select", "term", "clear"} => mine[s] # Nil
       /\ starter[s] \in {"select", "term", "clear"} => process = mine[s]
       /\ starter[s] \in {"send", "select", "term"} => cmd = mine[s]
       /\ starter[s] = "clear" => mine[s] \notin LivePids \ kills
  /\ process # Nil =>
       \E s \in Starts : starter[s] \in {"select", "term", "clear"}
  /\ LivePids \ kills \subseteq {mine[s] : s \in Starts}

\* A listener that has failed leaves a starter behind that clears job.process
\* whenever it gets the lock.
LazyInv ==
  /\ TypeOK /\ Handshake
  /\ (\A l \in Listeners : pos[l] # "failed") => Supervised

-----------------------------------------------------------------------------
(* Type correctness.                                                         *)

\* Variables that do not change keep their types.
LEMMA StutterTypes ==
  /\ ListenersOK /\ UNCHANGED <<run, pos>> => ListenersOK'
  /\ ConnsOK /\ UNCHANGED connVars => ConnsOK'
  /\ StartersOK /\ UNCHANGED startVars => StartersOK'
  /\ ProcessesOK /\ UNCHANGED osVars => ProcessesOK'
<1>1. ListenersOK /\ UNCHANGED <<run, pos>> => ListenersOK'
  BY DEF ListenersOK
<1>2. ConnsOK /\ UNCHANGED connVars => ConnsOK'
  BY DEF ConnsOK, connVars
<1>3. StartersOK /\ UNCHANGED startVars => StartersOK'
  BY DEF StartersOK, startVars
<1>4. ProcessesOK /\ UNCHANGED osVars => ProcessesOK'
  BY DEF ProcessesOK, osVars
<1> QED
  BY <1>1, <1>2, <1>3, <1>4

\* What a listener does when AssertStarted has returned nil.
LEMMA PassesOnTypes ==
  ASSUME TypeOK, NEW l \in Listeners, PassesOn(l)
  PROVE  /\ ListenersOK' /\ ConnsOK' /\ ProcessesOK'
         /\ UNCHANGED <<watcher, ctxDone, up>>
<1>1. UNCHANGED <<run, idle, osVars, watcher, ctxDone, up>>
  BY DEF PassesOn
<1>2. ListenersOK'
  BY <1>1 DEF PassesOn, TypeOK, ListenersOK
<1>3. ConnsOK'
  BY <1>1 DEF PassesOn, TypeOK, ConnsOK
<1>4. ProcessesOK'
  BY <1>1, StutterTypes DEF TypeOK
<1> QED
  BY <1>1, <1>2, <1>3, <1>4

\* A starter that a listener spawns, hears from, or that goes on by itself.
LEMMA StarterMoves ==
  ASSUME StartersOK, NEW s \in Starts,
         NEW to \in {"idle", "start", "send", "failed", "select", "term", "clear"},
         NEW p \in Pids \cup {Nil},
         starter' = [starter EXCEPT ![s] = to],
         \/ UNCHANGED mine
         \/ mine' = [mine EXCEPT ![s] = p],
         process' \in {process, Nil, mine[s]},
         cmd' \in {cmd, p}
  PROVE  StartersOK'
BY DEF StartersOK

\* Every step of a listener keeps the types.
LEMMA ListenerTypes ==
  ASSUME TypeOK, NEW l \in Listeners,
         \/ Opens(l) \/ Closes(l) \/ AcceptFails(l) \/ ListenerStep(l)
         \/ \E c \in Conns : Accepts(l, c)
  PROVE  TypeOK'
<1> USE StutterTypes DEF TypeOK
<1>1. CASE Opens(l) \/ Closes(l) \/ AcceptFails(l) \/ SeesNone(l)
  BY <1>1 DEF Opens, Closes, AcceptFails, SeesNone, ListenersOK
<1>2. ASSUME NEW c \in Conns, Accepts(l, c) PROVE TypeOK'
  BY <1>2 DEF Accepts, ListenersOK, ConnsOK
<1>3. CASE SeesProcess(l) \/ LockSeesProcess(l)
  BY <1>3, PassesOnTypes DEF SeesProcess, LockSeesProcess
<1>4. CASE LockSeesNone(l)
  <2>1. PICK s \in Starts : starter' = [starter EXCEPT ![s] = "start"]
    BY <1>4 DEF LockSeesNone, Spawns
  <2>2. StartersOK'
    BY <1>4, <2>1, StarterMoves DEF LockSeesNone, Spawns
  <2> QED
    BY <1>4, <2>2 DEF LockSeesNone, Spawns, ListenersOK
<1>5. CASE Receives(l)
  <2>1. PICK s \in Starts : /\ starter' = [starter EXCEPT ![s] = "select"]
                            /\ process' = mine[s]
    BY <1>5 DEF Receives
  <2>2. StartersOK'
    BY <1>5, <2>1, StarterMoves DEF Receives
  <2> QED
    BY <1>5, <2>2, PassesOnTypes DEF Receives
<1>6. CASE ReceivesError(l)
  <2>1. PICK s \in Starts : starter' = [starter EXCEPT ![s] = "clear"]
    BY <1>6 DEF ReceivesError
  <2>2. StartersOK'
    BY <1>6, <2>1, StarterMoves DEF ReceivesError
  <2> QED
    BY <1>6, <2>2 DEF ReceivesError, ListenersOK
<1> QED
  BY <1>1, <1>2, <1>3, <1>4, <1>5, <1>6 DEF ListenerStep

\* Every step of a starter keeps the types.
LEMMA StarterTypes ==
  ASSUME TypeOK, NEW s \in Starts, StarterStep(s)
  PROVE  TypeOK'
<1> USE StutterTypes DEF TypeOK, StartUnchanged
<1>1. CASE Started(s)
  <2>1. PICK p \in Pids : /\ os' = [os EXCEPT ![p] = "alive"]
                          /\ mine' = [mine EXCEPT ![s] = p]
                          /\ cmd' = p
    BY <1>1 DEF Started
  <2>2. StartersOK'
    BY <1>1, <2>1, StarterMoves DEF Started
  <2>3. ProcessesOK'
    BY <1>1, <2>1 DEF Started, ProcessesOK
  <2> QED
    BY <1>1, <2>2, <2>3 DEF Started
<1>2. CASE StartFails(s)
  <2>1. StartersOK'
    BY <1>2, StarterMoves DEF StartFails
  <2> QED
    BY <1>2, <2>1 DEF StartFails
<1>3. ASSUME NEW from \in {"select", "term"}, Ends(s, from) PROVE TypeOK'
  <2>1. StartersOK'
    BY <1>3, StarterMoves DEF Ends
  <2>2. os' \in [Pids -> {"free", "alive", "zombie"}]
    BY <1>3 DEF Ends, ProcessesOK
  <2>3. terms' \subseteq Pids
    BY <1>3 DEF Ends, ProcessesOK, Signalled, LivePids
  <2> QED
    BY <1>3, <2>1, <2>2, <2>3 DEF Ends, ProcessesOK
<1>4. CASE Interrupted(s)
  <2>1. StartersOK'
    BY <1>4, StarterMoves DEF Interrupted
  <2>2. ProcessesOK'
    BY <1>4 DEF Interrupted, ProcessesOK, Signalled, LivePids
  <2> QED
    BY <1>4, <2>1, <2>2 DEF Interrupted
<1>5. CASE Kills(s)
  <2>1. StartersOK'
    BY <1>5, StarterMoves DEF Kills
  <2>2. ProcessesOK'
    BY <1>5 DEF Kills, ProcessesOK, Signalled, LivePids
  <2> QED
    BY <1>5, <2>1, <2>2 DEF Kills
<1>6. CASE Clears(s)
  <2>1. StartersOK'
    BY <1>6, StarterMoves DEF Clears
  <2> QED
    BY <1>6, <2>1 DEF Clears
<1> QED
  BY <1>1, <1>2, <1>3, <1>4, <1>5, <1>6 DEF StarterStep

\* Every step of a handler keeps the types.
LEMMA HandlerTypes ==
  ASSUME TypeOK, NEW c \in Conns, HandlerStep(c) \/ Forwarded(c)
  PROVE  TypeOK'
<1>1. PICK to \in {"dial", "forward", "closing", "closed", "idle"} :
        conn' = [conn EXCEPT ![c] = to]
  BY DEF HandlerStep, Counts, Dials, DialTimesOut, Forwarded, NotesTime,
         Discounts, ConnGoto
<1>2. /\ idle' \in {idle, FALSE}
      /\ UNCHANGED <<run, pos, held, startVars, osVars, watcher, ctxDone, up>>
  BY DEF HandlerStep, Counts, Dials, DialTimesOut, Forwarded, NotesTime,
         Discounts, ConnGoto
<1>3. ConnsOK'
  BY <1>1, <1>2 DEF TypeOK, ConnsOK
<1> QED
  BY <1>2, <1>3, StutterTypes DEF TypeOK

\* Every step of the watcher keeps the types.
LEMMA WatcherTypes ==
  ASSUME TypeOK, WatcherStep
  PROVE  TypeOK'
<1>1. /\ watcher' \in {"off", "tick", "idle", "process", "lock"}
      /\ terms' \in {terms, terms \cup Signalled}
      /\ UNCHANGED <<run, pos, connVars, startVars, os, kills, ctxDone, up>>
  BY DEF WatcherStep, WatchActive, WatchIdle, WatchProcess, WatchStops, WatchEnds,
         WatcherGoto
<1>2. ProcessesOK'
  BY <1>1 DEF TypeOK, ProcessesOK, Signalled, LivePids
<1> QED
  BY <1>1, <1>2, StutterTypes DEF TypeOK

\* Every step keeps the types.
LEMMA TypeStep == TypeOK /\ [Next]_vars => TypeOK'
<1> SUFFICES ASSUME TypeOK, [Next]_vars PROVE TypeOK'
  OBVIOUS
<1>1. CASE OpenFails \/ AllOpen
  BY <1>1, StutterTypes DEF OpenFails, AllOpen, TypeOK, ListenersOK
<1>2. CASE Cancel \/ Returns \/ UNCHANGED vars
  BY <1>2, StutterTypes DEF Cancel, Returns, TypeOK, vars
<1>3. CASE Elapses
  BY <1>3, StutterTypes DEF Elapses, TypeOK, ConnsOK
<1>4. ASSUME NEW p \in Pids, Exit(p) PROVE TypeOK'
  <2>1. ProcessesOK'
    BY <1>4 DEF Exit, TypeOK, ProcessesOK
  <2> QED
    BY <1>4, <2>1, StutterTypes DEF Exit, TypeOK
<1> QED
  BY <1>1, <1>2, <1>3, <1>4, ListenerTypes, StarterTypes, HandlerTypes,
     WatcherTypes DEF Next

\* The types hold at first.
LEMMA TypeInit == Init => TypeOK
<1> SUFFICES ASSUME Init PROVE TypeOK
  OBVIOUS
<1>1. ListenersOK
  BY DEF Init, ListenersOK
<1>2. ConnsOK
  BY DEF Init, ConnsOK
<1>3. StartersOK
  BY DEF Init, StartersOK
<1>4. ProcessesOK
  BY DEF Init, ProcessesOK
<1> QED
  BY <1>1, <1>2, <1>3, <1>4 DEF Init, TypeOK

\* Type correctness.
THEOREM TypeCorrect == Spec => []TypeOK
<1> QED
  BY TypeInit, TypeStep, PTL DEF Spec

-----------------------------------------------------------------------------
(* The handshake between a listener and the starter it has spawned.          *)

\* A step that neither starters nor processes notice.
Quiet ==
  /\ UNCHANGED <<startVars, os, kills>>
  /\ \A l \in Listeners :
       /\ pos'[l] = "starting" <=> pos[l] = "starting"
       /\ pos[l] = "failed" => pos'[l] = "failed"

\* All other steps.
Loud ==
  \/ \E l \in Listeners : LockSeesNone(l) \/ Receives(l) \/ ReceivesError(l)
  \/ \E s \in Starts : StarterStep(s)
  \/ \E p \in Pids : Exit(p)

\* Most steps are quiet.
LEMMA StepKinds ==
  ASSUME TypeOK, [Next]_vars
  PROVE  Quiet \/ Loud
<1> USE DEF TypeOK, ListenersOK, Quiet
<1>1. ASSUME NEW l \in Listeners, Opens(l) \/ Closes(l) \/ AcceptFails(l) \/ SeesNone(l)
      PROVE  Quiet
  BY <1>1 DEF Opens, Closes, AcceptFails, SeesNone, osVars
<1>2. ASSUME NEW l \in Listeners, NEW c \in Conns, Accepts(l, c)
      PROVE  Quiet
  BY <1>2 DEF Accepts, osVars
<1>3. ASSUME NEW l \in Listeners, SeesProcess(l) \/ LockSeesProcess(l)
      PROVE  Quiet
  BY <1>3 DEF SeesProcess, LockSeesProcess, PassesOn, osVars
<1>4. CASE OpenFails \/ AllOpen \/ Cancel \/ Returns \/ Elapses \/ UNCHANGED vars
  BY <1>4 DEF OpenFails, AllOpen, Cancel, Returns, Elapses, vars, osVars
<1>5. ASSUME NEW c \in Conns, HandlerStep(c) \/ Forwarded(c)
      PROVE  Quiet
  BY <1>5 DEF HandlerStep, Counts, Dials, DialTimesOut, Forwarded, NotesTime,
     Discounts, ConnGoto, osVars
<1>6. CASE WatcherStep
  BY <1>6 DEF WatcherStep, WatchActive, WatchIdle, WatchProcess, WatchStops,
     WatchEnds, WatcherGoto
<1> QED
  BY <1>1, <1>2, <1>3, <1>4, <1>5, <1>6 DEF Next, ListenerStep, Loud

\* A starter that is due is one that has not answered.
LEMMA DueStarters ==
  \A s \in Starts : s \in Due <=> starter[s] \in {"start", "send", "failed"}
BY DEF Due

\* Only the listener and the starter themselves begin or end a handshake.
LEMMA HandshakeStep ==
  ASSUME TypeOK, Handshake, [Next]_vars
  PROVE  Handshake'
<1> USE DEF TypeOK, ListenersOK, StartersOK
<1>0. ASSUME Starting' = Starting, Due' = Due PROVE Handshake'
  BY <1>0 DEF Handshake
<1>1. CASE Quiet
  BY <1>0, <1>1 DEF Quiet, Starting, Due, startVars
<1>2. ASSUME NEW l \in Listeners, LockSeesNone(l) PROVE Handshake'
  <2>1. PICK s \in Starts : /\ starter[s] = "idle"
                            /\ starter' = [starter EXCEPT ![s] = "start"]
    BY <1>2 DEF LockSeesNone, Spawns
  <2>2. Starting = {} /\ Due = {}
    BY <1>2 DEF LockSeesNone, Unlocked, Starting, Handshake
  <2>3. Starting' = {l}
    BY <1>2, <2>2 DEF LockSeesNone, Spawns, Starting
  <2>4. Due' = {s}
    BY <2>1, <2>2 DEF Due
  <2> QED
    BY <2>3, <2>4 DEF Handshake
<1>3. ASSUME NEW l \in Listeners, Receives(l) \/ ReceivesError(l) PROVE Handshake'
  <2>1. PICK s \in Starts, to \in {"select", "clear"} :
          s \in Due /\ starter' = [starter EXCEPT ![s] = to]
    BY <1>3 DEF Receives, ReceivesError, Due
  <2>2. l \in Starting /\ \E at \in {"accept", "failed"} : pos' = [pos EXCEPT ![l] = at]
    BY <1>3 DEF Receives, ReceivesError, PassesOn, Starting
  <2>3. Starting' = {}
    BY <2>2 DEF Handshake, Starting
  <2>4. Due' = {}
    BY <2>1 DEF Handshake, Due
  <2> QED
    BY <2>3, <2>4 DEF Handshake
<1>4. ASSUME NEW s \in Starts, StarterStep(s) PROVE Handshake'
  <2>1. PICK to \in {"idle", "send", "failed", "term", "clear"} :
          /\ starter' = [starter EXCEPT ![s] = to]
          /\ to \in {"send", "failed"} <=> s \in Due
    BY <1>4 DEF StarterStep, Started, StartFails, Ends, Interrupted, Kills, Clears, Due
  <2>2. Due' = Due
    BY <2>1 DEF Due
  <2>3. Starting' = Starting
    BY <1>4 DEF StarterStep, Started, StartFails, Ends, Interrupted, Kills, Clears,
       StartUnchanged, Starting
  <2> QED
    BY <1>0, <2>2, <2>3
<1>5. ASSUME NEW p \in Pids, Exit(p) PROVE Handshake'
  BY <1>0, <1>5 DEF Exit, Starting, Due, startVars
<1> QED
  BY <1>1, <1>2, <1>3, <1>4, <1>5, StepKinds DEF Loud

-----------------------------------------------------------------------------
(* One process at a time.                                                    *)

NoneFailed == \A l \in Listeners : pos[l] # "failed"

\* A listener that has failed does not come back.
LEMMA FailedForGood ==
  ASSUME TypeOK, [Next]_vars, NoneFailed'
  PROVE  NoneFailed
<1> USE DEF TypeOK, ListenersOK, NoneFailed
<1>1. CASE Quiet
  BY <1>1 DEF Quiet
<1>2. ASSUME NEW l \in Listeners, LockSeesNone(l) \/ Receives(l) \/ ReceivesError(l)
      PROVE  NoneFailed
  BY <1>2 DEF LockSeesNone, Receives, ReceivesError, Spawns, PassesOn
<1>3. ASSUME NEW s \in Starts, StarterStep(s) PROVE NoneFailed
  BY <1>3 DEF StarterStep, Started, StartFails, Ends, Interrupted, Kills, Clears,
     StartUnchanged
<1>4. ASSUME NEW p \in Pids, Exit(p) PROVE NoneFailed
  BY <1>4 DEF Exit
<1> QED
  BY <1>1, <1>2, <1>3, <1>4, StepKinds DEF Loud

\* While no listener fails, job.process and job.cmd follow the one goroutine
\* that executes startOnce.
LEMMA SupervisedStep ==
  ASSUME TypeOK, Handshake, Supervised, [Next]_vars, NoneFailed'
  PROVE  Supervised'
<1> USE LazyAssumption DEF TypeOK, ListenersOK, StartersOK, ProcessesOK
<1>1. CASE Quiet
  BY <1>1 DEF Quiet, Supervised, LivePids, startVars
<1>2. ASSUME NEW l \in Listeners, LockSeesNone(l) PROVE Supervised'
  <2>1. PICK s \in Starts : /\ starter[s] = "idle"
                            /\ starter' = [starter EXCEPT ![s] = "start"]
    BY <1>2 DEF LockSeesNone, Spawns
  <2>2. process = Nil /\ UNCHANGED <<mine, process, cmd, os, kills>>
    BY <1>2 DEF LockSeesNone, Spawns, osVars
  <2>3. \A t \in Starts : starter[t] = "idle"
    <3>1. Due = {}
      BY <1>2 DEF LockSeesNone, Unlocked, Starting, Handshake
    <3> QED
      BY <2>2, <3>1 DEF Due, Supervised
  <2>4. \A t \in Starts : mine[t] = Nil
    BY <2>3 DEF Supervised
  <2>5. \A t \in Starts : starter'[t] = IF t = s THEN "start" ELSE "idle"
    BY <2>1, <2>3
  <2>6. LivePids' = LivePids
    BY <2>2 DEF LivePids
  <2> QED
    BY <2>2, <2>4, <2>5, <2>6 DEF Supervised
<1>3. ASSUME NEW l \in Listeners, Receives(l) PROVE Supervised'
  <2>1. PICK s \in Starts : /\ starter[s] = "send" /\ process' = mine[s]
                            /\ starter' = [starter EXCEPT ![s] = "select"]
    BY <1>3 DEF Receives
  <2>2. UNCHANGED <<mine, cmd, os, kills>>
    BY <1>3 DEF Receives, PassesOn, osVars
  <2>3. \A t \in Starts : t # s => starter[t] = "idle" /\ starter'[t] = "idle"
    BY <2>1 DEF Supervised
  <2>4. LivePids' = LivePids
    BY <2>2 DEF LivePids
  <2> QED
    BY <2>1, <2>2, <2>3, <2>4 DEF Supervised
<1>4. ASSUME NEW l \in Listeners, ReceivesError(l) PROVE FALSE
  BY <1>4 DEF ReceivesError, NoneFailed
<1>5. ASSUME NEW s \in Starts, StarterStep(s) PROVE Supervised'
  <2>1. \A t \in Starts : t # s => starter[t] = "idle" /\ mine[t] = Nil
    <3>1. starter[s] # "idle"
      BY <1>5 DEF StarterStep, Started, StartFails, Ends, Interrupted, Kills, Clears
    <3> QED
      BY <3>1 DEF Supervised
  <2>2. LivePids \ kills \subseteq {mine[s]}
    BY <2>1 DEF Supervised, LivePids
  <2>3. CASE Started(s)
    <3>1. PICK p \in Pids : /\ os[p] = "free" /\ os' = [os EXCEPT ![p] = "alive"]
                            /\ mine' = [mine EXCEPT ![s] = p] /\ cmd' = p
      BY <2>3 DEF Started
    <3>2. /\ starter[s] = "start" /\ starter' = [starter EXCEPT ![s] = "send"]
          /\ UNCHANGED <<process, kills>> /\ mine[s] = Nil
      BY <2>3 DEF Started, Supervised
    <3>3. LivePids' = LivePids \cup {p}
      BY <3>1 DEF LivePids
    <3>4. LivePids \ kills = {}
      BY <2>2, <3>2 DEF LivePids
    <3>5. process = Nil
      BY <2>1, <3>2 DEF Supervised
    <3>6. mine'[s] = p /\ \A t \in Starts : t # s => mine'[t] = Nil
      BY <2>1, <3>1
    <3>7. starter'[s] = "send" /\ \A t \in Starts : t # s => starter'[t] = "idle"
      BY <2>1, <3>2
    <3>8. LivePids' \ kills' \subseteq {mine'[t] : t \in Starts}
      BY <3>2, <3>3, <3>4, <3>6
    <3> QED
      BY <3>1, <3>2, <3>5, <3>6, <3>7, <3>8 DEF Supervised
  <2>4. CASE StartFails(s)
    <3>1. /\ starter[s] = "start" /\ starter' = [starter EXCEPT ![s] = "failed"]
          /\ UNCHANGED <<mine, process, cmd, os, kills>> /\ LivePids' = LivePids
      BY <2>4 DEF StartFails, osVars, LivePids
    <3>2. starter'[s] = "failed" /\ \A t \in Starts : t # s => starter'[t] = "idle"
      BY <2>1, <3>1
    <3> QED
      BY <2>1, <3>1, <3>2 DEF Supervised
  <2>5. ASSUME NEW from \in {"select", "term"}, Ends(s, from) PROVE Supervised'
    <3>1. /\ starter[s] = from /\ starter' = [starter EXCEPT ![s] = "clear"]
          /\ os' = [os EXCEPT ![mine[s]] = "free"] /\ mine[s] \in Pids
          /\ UNCHANGED <<mine, process, cmd, kills>>
      BY <2>5 DEF Ends
    <3>2. LivePids' = LivePids \ {mine[s]}
      BY <3>1 DEF LivePids
    <3>3. starter'[s] = "clear" /\ \A t \in Starts : t # s => starter'[t] = "idle"
      BY <2>1, <3>1
    <3> QED
      BY <2>1, <3>1, <3>2, <3>3 DEF Supervised
  <2>6. CASE Interrupted(s)
    <3>1. /\ starter[s] = "select" /\ starter' = [starter EXCEPT ![s] = "term"]
          /\ UNCHANGED <<mine, process, cmd, os, kills>> /\ LivePids' = LivePids
      BY <2>6 DEF Interrupted, LivePids
    <3>2. starter'[s] = "term" /\ \A t \in Starts : t # s => starter'[t] = "idle"
      BY <2>1, <3>1
    <3> QED
      BY <2>1, <3>1, <3>2 DEF Supervised
  <2>7. CASE Kills(s)
    <3>1. /\ starter[s] = "term" /\ starter' = [starter EXCEPT ![s] = "clear"]
          /\ UNCHANGED <<mine, process, cmd, os>> /\ LivePids' = LivePids
          /\ kills' = kills \cup Signalled
      BY <2>7 DEF Kills, LivePids
    <3>2. starter'[s] = "clear" /\ \A t \in Starts : t # s => starter'[t] = "idle"
      BY <2>1, <3>1
    <3>3. cmd = mine[s] /\ mine[s] # Nil /\ process = mine[s]
      BY <3>1 DEF Supervised
    <3>4. LivePids' \ kills' = {}
      BY <2>2, <3>1, <3>3 DEF Signalled
    <3> QED
      BY <2>1, <3>1, <3>2, <3>3, <3>4 DEF Supervised
  <2>8. CASE Clears(s)
    <3>1. /\ starter[s] = "clear" /\ starter' = [starter EXCEPT ![s] = "idle"]
          /\ mine' = [mine EXCEPT ![s] = Nil] /\ process' = Nil
          /\ UNCHANGED <<cmd, os, kills>> /\ LivePids' = LivePids
      BY <2>8 DEF Clears, osVars, LivePids
    <3>2. \A t \in Starts : starter'[t] = "idle" /\ mine'[t] = Nil
      BY <2>1, <3>1
    <3>3. LivePids' \ kills' = {}
      BY <2>2, <3>1 DEF Supervised
    <3> QED
      BY <3>1, <3>2, <3>3 DEF Supervised
  <2> QED
    BY <1>5, <2>3, <2>4, <2>5, <2>6, <2>7, <2>8 DEF StarterStep
<1>6. ASSUME NEW p \in Pids, Exit(p) PROVE Supervised'
  <2>1. UNCHANGED <<starter, mine, process, cmd>> /\ kills' = kills \ {p}
    BY <1>6 DEF Exit, startVars
  <2>2. LivePids' = LivePids \ {p}
    BY <1>6 DEF Exit, LivePids
  <2>3. LivePids' \ kills' \subseteq LivePids \ kills
    BY <2>1, <2>2
  <2> QED
    BY <2>1, <2>3 DEF Supervised
<1> QED
  BY <1>1, <1>2, <1>3, <1>4, <1>5, <1>6, StepKinds DEF Loud

\* The inductive invariant of the lazy job: who holds the lock and for which
\* starter, and, until a listener fails, whose process job.process is.
THEOREM LazyInvCorrect == Spec => []LazyInv
<1>1. Init => LazyInv
  <2> SUFFICES ASSUME Init PROVE LazyInv
    OBVIOUS
  <2>1. Starting = {} /\ Due = {} /\ LivePids = {}
    BY DEF Init, Starting, Due, LivePids
  <2>2. Supervised
    BY <2>1 DEF Init, Supervised
  <2> QED
    BY <2>1, <2>2, TypeInit DEF LazyInv, Handshake
<1>2. LazyInv /\ [Next]_vars => LazyInv'
  BY TypeStep, HandshakeStep, FailedForGood, SupervisedStep DEF LazyInv, NoneFailed
<1> QED
  BY <1>1, <1>2, PTL DEF Spec

\* The double-checked lock admits one start at a time, and every listener that
\* waits for an answer gets it from exactly one starter, whatever fails.
THEOREM OneStartAtATimeCorrect == Spec => []OneStartAtATime
<1>1. LazyInv => OneStartAtATime
  <2> SUFFICES ASSUME LazyInv PROVE OneStartAtATime
    OBVIOUS
  <2>1. CASE Starting = {} /\ Due = {}
    BY <2>1, FS_EmptySet DEF OneStartAtATime
  <2>2. CASE Starting # {} /\ Due # {}
    <3>1. PICK l \in Starting, s \in Due : Starting = {l} /\ Due = {s}
      BY <2>2 DEF LazyInv, Handshake
    <3>2. Cardinality(Starting) = 1 /\ Cardinality(Due) = 1
      BY <3>1, FS_Singleton
    <3> QED
      BY <3>2 DEF OneStartAtATime
  <2> QED
    BY <2>1, <2>2 DEF LazyInv, Handshake
<1> QED
  BY <1>1, LazyInvCorrect, PTL

\* Until a listener fails there is at most one process that was not killed, for
\* any number of listeners that start it, and while its predecessor is ending.
THEOREM AtMostOneProcessCorrect == Spec => []AtMostOneProcess
<1>1. LazyInv => AtMostOneProcess
  <2> SUFFICES ASSUME LazyInv, Supervised,
                      NEW p \in LivePids \ kills, NEW q \in LivePids \ kills
               PROVE  p = q
    BY DEF LazyInv, AtMostOneProcess
  <2>1. PICK s \in Starts, t \in Starts : p = mine[s] /\ q = mine[t]
    BY DEF Supervised
  <2>2. mine[s] # Nil /\ mine[t] # Nil
    BY <2>1, LazyAssumption DEF LivePids
  <2>3. starter[s] # "idle" /\ starter[t] # "idle"
    BY <2>2 DEF Supervised
  <2> QED
    BY <2>1, <2>3 DEF Supervised
<1> QED
  BY <1>1, LazyInvCorrect, PTL

\* Then job.process names it whenever the lock is free: no connection starts a
\* second one, and the watcher stops the one there is.
THEOREM ProcessIsKnownCorrect == Spec => []ProcessIsKnown
<1>1. LazyInv => ProcessIsKnown
  <2> SUFFICES ASSUME LazyInv, Supervised, Unlocked, NEW p \in LivePids \ kills
               PROVE  p = process
    BY DEF LazyInv, ProcessIsKnown
  <2>1. PICK s \in Starts : p = mine[s]
    BY DEF Supervised
  <2>2. mine[s] # Nil
    BY <2>1, LazyAssumption DEF LivePids
  <2>3. s \notin Due
    BY DEF LazyInv, Handshake, Unlocked, Starting
  <2>4. starter[s] \in {"select", "term", "clear"}
    BY <2>2, <2>3 DEF Due, Supervised, LazyInv, TypeOK, StartersOK
  <2> QED
    BY <2>1, <2>4 DEF Supervised
<1> QED
  BY <1>1, LazyInvCorrect, PTL
=============================================================================
