---------------------------- MODULE RunnerProofs ----------------------------
(* Theorems about Runner, for every number of slots, pids and handlers.      *)
EXTENDS Runner, TLAPS

-----------------------------------------------------------------------------
(* Type correctness.                                                         *)

\* The attempts counter is a number below MaxAttempts, or 0.
LEMMA AttemptsType ==
  ASSUME RunVarsOK, NEW r \in Runs, NEW ranLong \in BOOLEAN
  PROVE  /\ attempts[r] \in Nat
         /\ UsedAttempts(r, ranLong) \in Nat
         /\ MaxAttempts # -1 /\ MayRetry(UsedAttempts(r, ranLong)) =>
              UsedAttempts(r, ranLong) \in {0} \cup 0 .. MaxAttempts - 1
<1>1. attempts[r] \in {0} \cup 0 .. MaxAttempts - 1
  BY DEF RunVarsOK
<1>2. attempts[r] \in Nat
  BY <1>1, JobAssumption
<1>3. UsedAttempts(r, ranLong) \in Nat
  BY <1>2 DEF UsedAttempts
<1> QED
  BY <1>2, <1>3, JobAssumption DEF MayRetry

\* Every step of the job's goroutines and processes keeps the types.
LEMMA JobTypeStep ==
  ASSUME CommonJobTypeOK, JobStep
  PROVE  CommonJobTypeOK'
<1> USE JobAssumption DEF CommonJobTypeOK, JobVarsOK, OsVarsOK, RunVarsOK,
        jobVars, osVars, runVars, PidState, RunState, Phases, NoPhase
<1>1. ASSUME NEW r \in Runs, Enter(r) PROVE CommonJobTypeOK'
  BY <1>1 DEF Enter, Goto
<1>2. ASSUME NEW r \in Runs, LoopTop(r) PROVE CommonJobTypeOK'
  BY <1>2 DEF LoopTop, Goto
<1>3. ASSUME NEW r \in Runs, StartFails(r) PROVE CommonJobTypeOK'
  BY <1>3 DEF StartFails, Goto
<1>4. ASSUME NEW r \in Runs, Fork(r) PROVE CommonJobTypeOK'
  BY <1>4 DEF Fork, Unused
<1>5. ASSUME NEW r \in Runs, SetCmd(r) PROVE CommonJobTypeOK'
  BY <1>5 DEF SetCmd, Goto
<1>6. ASSUME NEW r \in Runs, Announce(r) PROVE CommonJobTypeOK'
  BY <1>6 DEF Announce
<1>7. ASSUME NEW r \in Runs, SelectExit(r) PROVE CommonJobTypeOK'
  BY <1>7 DEF SelectExit, Signalled
<1>8. ASSUME NEW r \in Runs, SelectCancel(r) PROVE CommonJobTypeOK'
  BY <1>8 DEF SelectCancel, Goto, Signalled
<1>9. ASSUME NEW r \in Runs, TermExit(r) PROVE CommonJobTypeOK'
  BY <1>9 DEF TermExit
<1>10. ASSUME NEW r \in Runs, TermTimeout(r) PROVE CommonJobTypeOK'
  BY <1>10 DEF TermTimeout, Signalled
<1>11. ASSUME NEW r \in Runs, RetShutdown(r) PROVE CommonJobTypeOK'
  BY <1>11 DEF RetShutdown, Goto
<1>12. ASSUME NEW r \in Runs, RetCompleted(r) PROVE CommonJobTypeOK'
  BY <1>12 DEF RetCompleted, Goto
<1>13. ASSUME NEW r \in Runs, RetRestart(r) PROVE CommonJobTypeOK'
  BY <1>13 DEF RetRestart, Goto
<1>14. ASSUME NEW r \in Runs, RetStopped(r) PROVE CommonJobTypeOK'
  BY <1>14 DEF RetStopped, Goto
<1>15. ASSUME NEW r \in Runs, RetBackOff(r) PROVE CommonJobTypeOK'
  <2>1. PICK n \in {0} \cup 0 .. MaxAttempts - 1 :
          attempts' = [attempts EXCEPT ![r] = n]
    BY <1>15, AttemptsType DEF RetBackOff
  <2>2. /\ pc' \in [Runs -> RunState]
        /\ phase' \in Phases
    BY <1>15 DEF RetBackOff
  <2> QED
    BY <1>15, <2>1, <2>2 DEF RetBackOff
<1>16. ASSUME NEW r \in Runs, RetFailed(r) PROVE CommonJobTypeOK'
  BY <1>16 DEF RetFailed, Goto, Attempted
<1>17. ASSUME NEW r \in Runs, Wake(r) PROVE CommonJobTypeOK'
  BY <1>17 DEF Wake, Goto
<1>18. ASSUME NEW r \in Runs, WaiterReads(r) PROVE CommonJobTypeOK'
  BY <1>18 DEF WaiterReads
<1>19. ASSUME NEW r \in Runs, WaiterDone(r) PROVE CommonJobTypeOK'
  <2>1. PICK p \in Pids :
          /\ os' = [os EXCEPT ![p] = "free"]
          /\ result' = IF pc[r] \in {"select", "term"}
                       THEN [result EXCEPT ![r] = IF os[p] = "ok" THEN "ok"
                                                  ELSE "error"]
                       ELSE result
    BY <1>19 DEF WaiterDone
  <2>2. os' \in [Pids -> PidState]
    BY <2>1
  <2>3. result' \in [Runs -> {"none", "ok", "error", "restart", "stop"}]
    BY <2>1
  <2> QED
    BY <1>19, <2>2, <2>3 DEF WaiterDone
<1>20. ASSUME NEW r \in Runs, AnnounceDone(r) PROVE CommonJobTypeOK'
  BY <1>20 DEF AnnounceDone
<1>21. ASSUME NEW p \in Pids, Exit(p) PROVE CommonJobTypeOK'
  BY <1>21 DEF Exit
<1> QED
  BY <1>1, <1>2, <1>3, <1>4, <1>5, <1>6, <1>7, <1>8, <1>9, <1>10, <1>11,
     <1>12, <1>13, <1>14, <1>15, <1>16, <1>17, <1>18, <1>19, <1>20, <1>21
  DEF JobStep, RunStep, WaiterStep

\* Variables that do not change keep their types.
LEMMA StutterTypes ==
  /\ JobVarsOK /\ UNCHANGED jobVars => JobVarsOK'
  /\ OsVarsOK /\ UNCHANGED osVars => OsVarsOK'
  /\ RunVarsOK /\ UNCHANGED runVars => RunVarsOK'
<1>1. JobVarsOK /\ UNCHANGED jobVars => JobVarsOK'
  BY DEF JobVarsOK, jobVars
<1>2. OsVarsOK /\ UNCHANGED osVars => OsVarsOK'
  BY DEF OsVarsOK, osVars
<1>3. RunVarsOK /\ UNCHANGED runVars => RunVarsOK'
  BY DEF RunVarsOK, runVars
<1> QED
  BY <1>1, <1>2, <1>3

\* The second half of startJob keeps the types of the job.
LEMMA StartTypes ==
  ASSUME JobVarsOK, RunVarsOK, InitAndSpawn
  PROVE  JobVarsOK' /\ RunVarsOK'
<1>1. CASE RefusesStart /\ UNCHANGED <<jobVars, runVars>>
  BY <1>1, StutterTypes
<1>2. CASE ResetFlags /\ \E r \in Runs : Spawn(r)
  <2>1. JobVarsOK'
    BY <1>2 DEF ResetFlags, JobVarsOK
  <2>2. RunVarsOK'
    BY <1>2 DEF Spawn, RunVarsOK, RunState
  <2> QED
    BY <2>1, <2>2
<1> QED
  BY <1>1, <1>2 DEF InitAndSpawn

\* Every step of the runner, its handlers and the context keeps the types.
LEMMA RunnerTypeStep ==
  ASSUME TypeOK
  PROVE  \/ \E r \in Runs : Done(r)
         \/ RunnerStep
         \/ \E q \in Reqs : Request(q) \/ Handle(q)
         \/ Cancel
         => TypeOK'
<1> USE StutterTypes DEF TypeOK, CommonJobTypeOK, RunnerState
<1>1. ASSUME Exec PROVE TypeOK'
  BY <1>1 DEF Exec, RunnerGoto
<1>2. ASSUME RunnerForgets PROVE TypeOK'
  BY <1>2 DEF RunnerForgets, RunnerGoto, ForgetPhase, JobVarsOK, jobVars,
              Phases, NoPhase
<1>3. ASSUME RunnerStarts PROVE TypeOK'
  BY <1>3, StartTypes DEF RunnerStarts, RunnerGoto
<1>4. ASSUME TickChanged PROVE TypeOK'
  BY <1>4 DEF TickChanged, RunnerGoto, JobVarsOK, jobVars, Phases, NoPhase
<1>5. ASSUME WatchMarks PROVE TypeOK'
  BY <1>5 DEF WatchMarks, RunnerGoto, JobVarsOK, jobVars, Phases, NoPhase
<1>6. ASSUME WatchSignals PROVE TypeOK'
  BY <1>6 DEF WatchSignals, RunnerGoto, Signalled, OsVarsOK, osVars
<1>7. ASSUME TickQuiet PROVE TypeOK'
  BY <1>7 DEF TickQuiet, RunnerGoto
<1>8. ASSUME Scan PROVE TypeOK'
  BY <1>8 DEF Scan, RunnerGoto
<1>9. ASSUME ShutdownBegin PROVE TypeOK'
  BY <1>9 DEF ShutdownBegin, RunnerGoto, AllIdle
<1>10. ASSUME AllDone PROVE TypeOK'
  BY <1>10 DEF AllDone, Return
<1>11. ASSUME JobError PROVE TypeOK'
  BY <1>11 DEF JobError, TakeError, Return, RunVarsOK, runVars, RunState
<1>12. ASSUME DrainDone PROVE TypeOK'
  BY <1>12 DEF DrainDone, Return
<1>13. ASSUME DrainError PROVE TypeOK'
  BY <1>13 DEF DrainError, RunnerGoto, TakeError, RunVarsOK, runVars, RunState
<1>14. ASSUME DrainTimeout PROVE TypeOK'
  BY <1>14 DEF DrainTimeout, Return
<1>15. ASSUME Cancel PROVE TypeOK'
  BY <1>15 DEF Cancel, runnerVars
<1>16. ASSUME NEW r \in Runs, Done(r) PROVE TypeOK'
  BY <1>16 DEF Done, AllIdle, RunVarsOK, runVars, RunState
<1>17. ASSUME NEW q \in Reqs, ReqStart(q) PROVE TypeOK'
  BY <1>17 DEF ReqStart, ApiGoto
<1>18. ASSUME NEW q \in Reqs, ReqRestart(q) PROVE TypeOK'
  BY <1>18 DEF ReqRestart, ApiGoto, JobVarsOK, jobVars, Phases, NoPhase
<1>19. ASSUME NEW q \in Reqs, ReqStop(q) PROVE TypeOK'
  BY <1>19 DEF ReqStop, ApiGoto, JobVarsOK, jobVars, Phases, NoPhase
<1>20. ASSUME NEW q \in Reqs, ReqForgets(q) PROVE TypeOK'
  BY <1>20 DEF ReqForgets, ApiGoto, ForgetPhase, JobVarsOK, jobVars, Phases,
              NoPhase
<1>21. ASSUME NEW q \in Reqs, ReqStarts(q) PROVE TypeOK'
  BY <1>21, StartTypes DEF ReqStarts, ApiGoto
<1>22. ASSUME NEW q \in Reqs, ReqPanics(q) PROVE TypeOK'
  BY <1>22 DEF ReqPanics, ApiGoto, ResetFlags, JobVarsOK, jobVars, Phases,
              NoPhase
<1>23. ASSUME NEW q \in Reqs, ReqSignals(q) PROVE TypeOK'
  BY <1>23 DEF ReqSignals, ApiGoto, Signalled, OsVarsOK, osVars
<1> QED
  BY <1>1, <1>2, <1>3, <1>4, <1>5, <1>6, <1>7, <1>8, <1>9, <1>10, <1>11,
     <1>12, <1>13, <1>14, <1>15, <1>16, <1>17, <1>18, <1>19, <1>20, <1>21, <1>22, <1>23
  DEF RunnerStep, Request, Handle

\* Every step keeps the types.
LEMMA TypeStep == TypeOK /\ [Next]_vars => TypeOK'
<1> SUFFICES ASSUME TypeOK, [Next]_vars PROVE TypeOK'
  OBVIOUS
<1>1. CASE JobStep /\ UNCHANGED runnerVars
  BY <1>1, JobTypeStep DEF TypeOK, runnerVars
<1>2. CASE UNCHANGED vars
  BY <1>2, StutterTypes DEF TypeOK, CommonJobTypeOK, vars, runnerVars
<1> QED
  BY <1>1, <1>2, RunnerTypeStep DEF Next

\* They hold in the beginning.
LEMMA TypeInit == Init => TypeOK
<1> SUFFICES ASSUME Init PROVE TypeOK
  OBVIOUS
<1>1. JobVarsOK /\ OsVarsOK /\ RunVarsOK
  BY DEF Init, CommonJobInit, JobVarsOK, OsVarsOK, RunVarsOK, RunState,
         PidState, Phases
<1> QED
  BY <1>1 DEF Init, CommonJobInit, TypeOK, CommonJobTypeOK, RunnerState

\* Type correctness: every goroutine is where the code lets it be, and the
\* attempts counter of a job never reaches MaxAttempts.
THEOREM TypeCorrect == Spec => []TypeOK
<1> QED
  BY TypeInit, TypeStep, PTL DEF Spec

-----------------------------------------------------------------------------
(* Supervision is inductive when no client starts a job that is not running. *)

\* What a step of a goroutine does to the set of active goroutines.
LEMMA RunStepGoroutine ==
  ASSUME TypeOK, OneGoroutine, NEW r \in Runs, RunStep(r), UNCHANGED runnerVars
  PROVE  OneGoroutine' /\ r \in Active /\ Active' \subseteq {r}
<1> DEFINE Goal == /\ r \in Active /\ Active' \subseteq Active
                   /\ phase' = "failed" => phase = "failed" \/ r \notin Active'
                   /\ phase' = "completed" => phase = "completed" \/ OneTime
<1> USE DEF TypeOK, CommonJobTypeOK, RunVarsOK, Active, jobVars
<1>1. ASSUME Enter(r) PROVE Goal
  BY <1>1 DEF Enter, Goto
<1>2. ASSUME LoopTop(r) PROVE Goal
  BY <1>2 DEF LoopTop, Goto
<1>3. ASSUME StartFails(r) PROVE Goal
  BY <1>3 DEF StartFails, Goto
<1>4. ASSUME Fork(r) PROVE Goal
  BY <1>4 DEF Fork, Unused
<1>5. ASSUME SetCmd(r) PROVE Goal
  BY <1>5 DEF SetCmd, Goto
<1>6. ASSUME Announce(r) PROVE Goal
  BY <1>6 DEF Announce
<1>7. ASSUME SelectExit(r) PROVE Goal
  BY <1>7 DEF SelectExit
<1>8. ASSUME SelectCancel(r) PROVE Goal
  BY <1>8 DEF SelectCancel, Goto
<1>9. ASSUME TermExit(r) PROVE Goal
  BY <1>9 DEF TermExit
<1>10. ASSUME TermTimeout(r) PROVE Goal
  BY <1>10 DEF TermTimeout
<1>11. ASSUME RetShutdown(r) PROVE Goal
  BY <1>11 DEF RetShutdown, Goto
<1>12. ASSUME RetCompleted(r) PROVE Goal
  BY <1>12 DEF RetCompleted, Goto
<1>13. ASSUME RetRestart(r) PROVE Goal
  BY <1>13 DEF RetRestart, Goto
<1>14. ASSUME RetStopped(r) PROVE Goal
  BY <1>14 DEF RetStopped, Goto
<1>15. ASSUME RetBackOff(r) PROVE Goal
  BY <1>15 DEF RetBackOff, Attempted
<1>16. ASSUME RetFailed(r) PROVE Goal
  BY <1>16 DEF RetFailed, Goto, Attempted
<1>17. ASSUME Wake(r) PROVE Goal
  BY <1>17 DEF Wake, Goto
<1>18. Goal
  BY <1>1, <1>2, <1>3, <1>4, <1>5, <1>6, <1>7, <1>8, <1>9, <1>10, <1>11,
     <1>12, <1>13, <1>14, <1>15, <1>16, <1>17 DEF RunStep
<1> QED
  BY <1>18 DEF OneGoroutine, runnerVars

\* A step of a goroutine keeps what relates it to its process.
LEMMA RunStepProcess ==
  ASSUME TypeOK, Supervision, NEW r \in Runs, RunStep(r), UNCHANGED runnerVars
  PROVE  OneProcess' /\ SupervisesItsOwn'
<1> DEFINE Goal == OneProcess /\ SupervisesItsOwn
<1>0. /\ OneGoroutine /\ r \in Active
      /\ \A s \in Runs : s # r => s \notin Active /\ s \notin Active'
  BY RunStepGoroutine DEF Supervision, OneGoroutine
<1> USE <1>0 DEF Supervision, TypeOK, CommonJobTypeOK, OsVarsOK, RunVarsOK,
        Active, Owners, LivePids, OneProcess, SupervisesItsOwn, jobVars, osVars
<1>1. ASSUME Enter(r) PROVE Goal'
  BY <1>1 DEF Enter, Goto
<1>2. ASSUME LoopTop(r) PROVE Goal'
  BY <1>2 DEF LoopTop, Goto
<1>3. ASSUME StartFails(r) PROVE Goal'
  BY <1>3 DEF StartFails, Goto
<1>4. ASSUME Fork(r) PROVE Goal'
  BY <1>4 DEF Fork, Unused
<1>5. ASSUME SetCmd(r) PROVE Goal'
  BY <1>5 DEF SetCmd, Goto
<1>6. ASSUME Announce(r) PROVE Goal'
  BY <1>6 DEF Announce
<1>7. ASSUME SelectExit(r) PROVE Goal'
  BY <1>7 DEF SelectExit
<1>8. ASSUME SelectCancel(r) PROVE Goal'
  BY <1>8 DEF SelectCancel, Goto
<1>9. ASSUME TermExit(r) PROVE Goal'
  BY <1>9 DEF TermExit
<1>10. ASSUME TermTimeout(r) PROVE Goal'
  BY <1>10 DEF TermTimeout
<1>11. ASSUME RetShutdown(r) PROVE Goal'
  BY <1>11 DEF RetShutdown, Goto
<1>12. ASSUME RetCompleted(r) PROVE Goal'
  BY <1>12 DEF RetCompleted, Goto
<1>13. ASSUME RetRestart(r) PROVE Goal'
  BY <1>13 DEF RetRestart, Goto
<1>14. ASSUME RetStopped(r) PROVE Goal'
  BY <1>14 DEF RetStopped, Goto
<1>15. ASSUME RetBackOff(r) PROVE Goal'
  BY <1>15 DEF RetBackOff, Attempted
<1>16. ASSUME RetFailed(r) PROVE Goal'
  BY <1>16 DEF RetFailed, Goto, Attempted
<1>17. ASSUME Wake(r) PROVE Goal'
  BY <1>17 DEF Wake, Goto
<1> QED
  BY <1>1, <1>2, <1>3, <1>4, <1>5, <1>6, <1>7, <1>8, <1>9, <1>10, <1>11,
     <1>12, <1>13, <1>14, <1>15, <1>16, <1>17 DEF RunStep

\* The wait goroutine, the announcer and the exit of a process keep it all.
LEMMA OtherJobStep ==
  ASSUME TypeOK, Supervision, UNCHANGED runnerVars,
         \/ \E r \in Runs : WaiterStep(r) \/ AnnounceDone(r)
         \/ \E p \in Pids : Exit(p)
  PROVE  Supervision'
<1> USE DEF TypeOK, CommonJobTypeOK, OsVarsOK, RunVarsOK, Active, Owners,
        LivePids, Supervision, OneGoroutine, OneProcess, SupervisesItsOwn,
        jobVars, osVars, runVars, runnerVars
<1>1. ASSUME NEW r \in Runs, WaiterReads(r) PROVE Supervision'
  BY <1>1 DEF WaiterReads
<1>2. ASSUME NEW r \in Runs, WaiterDone(r) PROVE Supervision'
  BY <1>2 DEF WaiterDone
<1>3. ASSUME NEW r \in Runs, AnnounceDone(r) PROVE Supervision'
  BY <1>3 DEF AnnounceDone
<1>4. ASSUME NEW p \in Pids, Exit(p) PROVE Supervision'
  BY <1>4 DEF Exit
<1> QED
  BY <1>1, <1>2, <1>3, <1>4 DEF WaiterStep

\* The runner starts a goroutine only when the job has none.
LEMMA RunnerStepKeeps ==
  ASSUME TypeOK, Supervision, NobodyStarts
  PROVE  \/ \E r \in Runs : Done(r)
         \/ RunnerStep
         \/ \E q \in Reqs : Request(q) \/ Handle(q)
         \/ Cancel
         => Supervision'
<1> USE DEF TypeOK, CommonJobTypeOK, OsVarsOK, RunVarsOK, Active, Owners,
        LivePids, Supervision, OneGoroutine, OneProcess, SupervisesItsOwn,
        jobVars, osVars, runVars, runnerVars, NoPhase
<1>1. ASSUME Exec PROVE Supervision'
  BY <1>1 DEF Exec, RunnerGoto
<1>2. ASSUME RunnerForgets PROVE Supervision'
  BY <1>2 DEF RunnerForgets, RunnerGoto, ForgetPhase
<1>3. ASSUME RunnerStarts PROVE Supervision'
  BY <1>3 DEF RunnerStarts, RunnerGoto, InitAndSpawn, RefusesStart, ResetFlags, Spawn
<1>4. ASSUME TickChanged PROVE Supervision'
  BY <1>4 DEF TickChanged, RunnerGoto
<1>5. ASSUME WatchMarks PROVE Supervision'
  BY <1>5 DEF WatchMarks, RunnerGoto
<1>6. ASSUME WatchSignals PROVE Supervision'
  BY <1>6 DEF WatchSignals, RunnerGoto
<1>7. ASSUME TickQuiet PROVE Supervision'
  BY <1>7 DEF TickQuiet, RunnerGoto
<1>8. ASSUME Scan PROVE Supervision'
  BY <1>8 DEF Scan, RunnerGoto, Restartable
<1>9. ASSUME ShutdownBegin PROVE Supervision'
  BY <1>9 DEF ShutdownBegin, RunnerGoto
<1>10. ASSUME AllDone PROVE Supervision'
  BY <1>10 DEF AllDone, Return
<1>11. ASSUME JobError PROVE Supervision'
  BY <1>11 DEF JobError, TakeError, Return
<1>12. ASSUME DrainDone PROVE Supervision'
  BY <1>12 DEF DrainDone, Return
<1>13. ASSUME DrainError PROVE Supervision'
  BY <1>13 DEF DrainError, RunnerGoto, TakeError
<1>14. ASSUME DrainTimeout PROVE Supervision'
  BY <1>14 DEF DrainTimeout, Return
<1>15. ASSUME Cancel PROVE Supervision'
  BY <1>15 DEF Cancel
<1>16. ASSUME NEW r \in Runs, Done(r) PROVE Supervision'
  BY <1>16 DEF Done
<1>17. ASSUME NEW q \in Reqs, ReqStart(q) PROVE Supervision'
  BY <1>17 DEF ReqStart, ApiGoto, NobodyStarts
<1>18. ASSUME NEW q \in Reqs, ReqRestart(q) PROVE Supervision'
  BY <1>18 DEF ReqRestart, ApiGoto
<1>19. ASSUME NEW q \in Reqs, ReqStop(q) PROVE Supervision'
  BY <1>19 DEF ReqStop, ApiGoto
<1>20. ASSUME NEW q \in Reqs, ReqForgets(q) PROVE Supervision'
  BY <1>20 DEF ReqForgets, ApiGoto
<1>21. ASSUME NEW q \in Reqs, ReqStarts(q) PROVE Supervision'
  BY <1>21 DEF ReqStarts, ApiGoto
<1>22. ASSUME NEW q \in Reqs, ReqPanics(q) PROVE Supervision'
  BY <1>22 DEF ReqPanics, ApiGoto
<1>23. ASSUME NEW q \in Reqs, ReqSignals(q) PROVE Supervision'
  BY <1>23 DEF ReqSignals, ApiGoto
<1> QED
  BY <1>1, <1>2, <1>3, <1>4, <1>5, <1>6, <1>7, <1>8, <1>9, <1>10, <1>11,
     <1>12, <1>13, <1>14, <1>15, <1>16, <1>17, <1>18, <1>19, <1>20, <1>21, <1>22, <1>23
  DEF RunnerStep, Request, Handle

\* There is no goroutine and no process in the beginning.
LEMMA SupervisionInit == Init => Supervision
BY DEF Init, CommonJobInit, Supervision, OneGoroutine, OneProcess,
       SupervisesItsOwn, Active, Owners, LivePids

\* As long as nobody starts a running job, every step of every goroutine keeps
\* one goroutine, one process, and its owner.
LEMMA SupervisionStep ==
  TypeOK /\ Supervision /\ NobodyStarts /\ [Next]_vars => Supervision'
<1> SUFFICES ASSUME TypeOK, Supervision, NobodyStarts, [Next]_vars
             PROVE  Supervision'
  OBVIOUS
<1>1. CASE JobStep /\ UNCHANGED runnerVars
  <2>1. ASSUME NEW r \in Runs, RunStep(r) PROVE Supervision'
    BY <1>1, <2>1, RunStepGoroutine, RunStepProcess DEF Supervision
  <2> QED
    BY <1>1, <2>1, OtherJobStep DEF JobStep
<1>2. CASE UNCHANGED vars
  BY <1>2 DEF Supervision, OneGoroutine, OneProcess, SupervisesItsOwn, Active,
              Owners, LivePids, vars, jobVars, osVars, runVars, runnerVars
<1> QED
  BY <1>1, <1>2, RunnerStepKeeps DEF Next

\* The inductive invariant, for clients that stop the job and restart it only
\* while it runs: one goroutine at a time, and it supervises the one process.
THEOREM SupervisionCorrect ==
  ASSUME NobodyStarts
  PROVE  Spec => []Supervision
<1>1. TypeOK /\ Supervision /\ [Next]_vars => Supervision'
  BY SupervisionStep
<1> QED
  BY <1>1, SupervisionInit, TypeCorrect, PTL DEF Spec

\* Whatever the order of crashes, ticks, watches, stops and the shutdown, the
\* job never has two live processes.
THEOREM OneProcessCorrect ==
  ASSUME NobodyStarts
  PROVE  Spec => []AtMostOneProcess
<1>1. Supervision => AtMostOneProcess
  BY DEF Supervision, OneProcess, AtMostOneProcess
<1> QED
  BY <1>1, SupervisionCorrect, PTL

\* job.cmd is the process that startOnce supervises and that the wait
\* goroutine reaps, although nothing orders their accesses to the field.
THEOREM SupervisesItsOwnCorrect ==
  ASSUME NobodyStarts
  PROVE  Spec => []SupervisesItsOwn
<1>1. Supervision => SupervisesItsOwn
  BY DEF Supervision
<1> QED
  BY <1>1, SupervisionCorrect, PTL

-----------------------------------------------------------------------------
(* Ending, Waiting and Draining, on top of Supervision.                      *)

\* What every step of a goroutine leaves alone, and where it may go.
LEMMA RunStepFrame ==
  ASSUME TypeOK, NEW r \in Runs, RunStep(r)
  PROVE  /\ r \in Active /\ pc'[r] # "idle"
         /\ pc'[r] = "report" => ~CanFail
         /\ pc' \in [Runs -> RunState]
         /\ \A s \in Runs : s # r => pc'[s] = pc[s]
<1> DEFINE Moves == /\ r \in Active /\ pc'[r] # "idle"
                    /\ pc'[r] = "report" => ~CanFail
                    /\ pc' \in [Runs -> RunState]
                    /\ \A s \in Runs : s # r => pc'[s] = pc[s]
<1> USE DEF TypeOK, CommonJobTypeOK, RunVarsOK, Active, RunState
<1>1. ASSUME Enter(r) PROVE Moves
  BY <1>1 DEF Enter, Goto
<1>2. ASSUME LoopTop(r) PROVE Moves
  BY <1>2 DEF LoopTop, Goto
<1>3. ASSUME StartFails(r) PROVE Moves
  BY <1>3 DEF StartFails, Goto
<1>4. ASSUME Fork(r) PROVE Moves
  BY <1>4 DEF Fork
<1>5. ASSUME SetCmd(r) PROVE Moves
  BY <1>5 DEF SetCmd, Goto
<1>6. ASSUME Announce(r) PROVE Moves
  BY <1>6 DEF Announce
<1>7. ASSUME SelectExit(r) PROVE Moves
  BY <1>7 DEF SelectExit
<1>8. ASSUME SelectCancel(r) PROVE Moves
  BY <1>8 DEF SelectCancel, Goto
<1>9. ASSUME TermExit(r) PROVE Moves
  BY <1>9 DEF TermExit
<1>10. ASSUME TermTimeout(r) PROVE Moves
  BY <1>10 DEF TermTimeout
<1>11. ASSUME RetShutdown(r) PROVE Moves
  BY <1>11 DEF RetShutdown, Goto
<1>12. ASSUME RetCompleted(r) PROVE Moves
  BY <1>12 DEF RetCompleted, Goto
<1>13. ASSUME RetRestart(r) PROVE Moves
  BY <1>13 DEF RetRestart, Goto
<1>14. ASSUME RetStopped(r) PROVE Moves
  BY <1>14 DEF RetStopped, Goto
<1>15. ASSUME RetBackOff(r) PROVE Moves
  BY <1>15 DEF RetBackOff, Attempted
<1>16. ASSUME RetFailed(r) PROVE Moves
  BY <1>16 DEF RetFailed, Goto, Attempted
<1>17. ASSUME Wake(r) PROVE Moves
  BY <1>17 DEF Wake, Goto
<1> QED
  BY <1>1, <1>2, <1>3, <1>4, <1>5, <1>6, <1>7, <1>8, <1>9, <1>10, <1>11,
     <1>12, <1>13, <1>14, <1>15, <1>16, <1>17 DEF RunStep

\* A goroutine that sets a final phase is the last one, and startOnce never
\* leaves its process alive without having killed it.
LEMMA RunStepEnding ==
  ASSUME TypeOK, RunnerInv, NEW r \in Runs, RunStep(r), UNCHANGED runnerVars
  PROVE  Ending'
<1>0. /\ OneGoroutine /\ Ending /\ OneProcess /\ SupervisesItsOwn
      /\ r \in Active
      /\ \A s \in Runs : s # r => s \notin Active /\ s \notin Active'
      /\ runner' = runner /\ runner # "startInit"
  BY RunStepGoroutine DEF RunnerInv, Supervision, OneGoroutine, runnerVars
<1> USE <1>0 DEF TypeOK, CommonJobTypeOK, OsVarsOK, RunVarsOK, Active, Owners,
        LivePids, Ending, OneProcess, SupervisesItsOwn, jobVars, osVars
<1>1. ASSUME Enter(r) PROVE Ending'
  BY <1>1 DEF Enter, Goto
<1>2. ASSUME LoopTop(r) PROVE Ending'
  BY <1>2 DEF LoopTop, Goto
<1>3. ASSUME StartFails(r) PROVE Ending'
  BY <1>3 DEF StartFails, Goto
<1>4. ASSUME Fork(r) PROVE Ending'
  BY <1>4 DEF Fork, Unused
<1>5. ASSUME SetCmd(r) PROVE Ending'
  BY <1>5 DEF SetCmd, Goto
<1>6. ASSUME Announce(r) PROVE Ending'
  BY <1>6 DEF Announce
<1>7. ASSUME SelectExit(r) PROVE Ending'
  BY <1>7 DEF SelectExit, Signalled
<1>8. ASSUME SelectCancel(r) PROVE Ending'
  BY <1>8 DEF SelectCancel, Goto, Signalled
<1>9. ASSUME TermExit(r) PROVE Ending'
  BY <1>9 DEF TermExit
<1>10. ASSUME TermTimeout(r) PROVE Ending'
  BY <1>10 DEF TermTimeout, Signalled
<1>11. ASSUME RetShutdown(r) PROVE Ending'
  BY <1>11 DEF RetShutdown, Goto
<1>12. ASSUME RetCompleted(r) PROVE Ending'
  BY <1>12 DEF RetCompleted, Goto
<1>13. ASSUME RetRestart(r) PROVE Ending'
  BY <1>13 DEF RetRestart, Goto
<1>14. ASSUME RetStopped(r) PROVE Ending'
  BY <1>14 DEF RetStopped, Goto
<1>15. ASSUME RetBackOff(r) PROVE Ending'
  BY <1>15 DEF RetBackOff, Attempted
<1>16. ASSUME RetFailed(r) PROVE Ending'
  BY <1>16 DEF RetFailed, Goto, Attempted
<1>17. ASSUME Wake(r) PROVE Ending'
  BY <1>17 DEF Wake, Goto
<1> QED
  BY <1>1, <1>2, <1>3, <1>4, <1>5, <1>6, <1>7, <1>8, <1>9, <1>10, <1>11,
     <1>12, <1>13, <1>14, <1>15, <1>16, <1>17 DEF RunStep

\* A goroutine only gets a new process when the wait goroutine of the last one
\* has read job.cmd, and leaves startOnce with one only while shutting down.
LEMMA RunStepWaiting ==
  ASSUME TypeOK, RunnerInv, NEW r \in Runs, RunStep(r), UNCHANGED runnerVars
  PROVE  Waiting'
<1>0. /\ Waiting /\ OneProcess /\ SupervisesItsOwn
      /\ r \in Active
      /\ \A s \in Runs : s # r => s \notin Active
  BY RunStepGoroutine DEF RunnerInv, Supervision, OneGoroutine
<1> USE <1>0, JobAssumption DEF TypeOK, CommonJobTypeOK, OsVarsOK, RunVarsOK,
        Active, Owners, LivePids, Waiting, OneProcess, SupervisesItsOwn,
        jobVars, osVars
<1>1. ASSUME Enter(r) PROVE Waiting'
  BY <1>1 DEF Enter, Goto
<1>2. ASSUME LoopTop(r) PROVE Waiting'
  BY <1>2 DEF LoopTop, Goto
<1>3. ASSUME StartFails(r) PROVE Waiting'
  BY <1>3 DEF StartFails, Goto
<1>4. ASSUME Fork(r) PROVE Waiting'
  BY <1>4 DEF Fork, Unused
<1>5. ASSUME SetCmd(r) PROVE Waiting'
  BY <1>5 DEF SetCmd, Goto
<1>6. ASSUME Announce(r) PROVE Waiting'
  BY <1>6 DEF Announce
<1>7. ASSUME SelectExit(r) PROVE Waiting'
  BY <1>7 DEF SelectExit, Signalled
<1>8. ASSUME SelectCancel(r) PROVE Waiting'
  BY <1>8 DEF SelectCancel, Goto, Signalled
<1>9. ASSUME TermExit(r) PROVE Waiting'
  BY <1>9 DEF TermExit
<1>10. ASSUME TermTimeout(r) PROVE Waiting'
  BY <1>10 DEF TermTimeout, Signalled
<1>11. ASSUME RetShutdown(r) PROVE Waiting'
  BY <1>11 DEF RetShutdown, Goto
<1>12. ASSUME RetCompleted(r) PROVE Waiting'
  BY <1>12 DEF RetCompleted, Goto
<1>13. ASSUME RetRestart(r) PROVE Waiting'
  BY <1>13 DEF RetRestart, Goto
<1>14. ASSUME RetStopped(r) PROVE Waiting'
  BY <1>14 DEF RetStopped, Goto
<1>15. ASSUME RetBackOff(r) PROVE Waiting'
  BY <1>15 DEF RetBackOff, Attempted
<1>16. ASSUME RetFailed(r) PROVE Waiting'
  BY <1>16 DEF RetFailed, Goto, Attempted
<1>17. ASSUME Wake(r) PROVE Waiting'
  BY <1>17 DEF Wake, Goto
<1> QED
  BY <1>1, <1>2, <1>3, <1>4, <1>5, <1>6, <1>7, <1>8, <1>9, <1>10, <1>11,
     <1>12, <1>13, <1>14, <1>15, <1>16, <1>17 DEF RunStep

\* A goroutine that runs has not been waited for.
LEMMA RunStepDraining ==
  ASSUME TypeOK, RunnerInv, NEW r \in Runs, RunStep(r), UNCHANGED runnerVars
  PROVE  Draining'
<1>1. /\ pc[r] # "idle" /\ pc'[r] # "idle"
      /\ pc'[r] = "report" => ~CanFail
      /\ \A s \in Runs : s # r => pc'[s] = pc[s]
  BY RunStepFrame DEF Active
<1>2. Draining /\ ~drained
  BY <1>1 DEF RunnerInv, Draining, AllIdle
<1>3. ~KeepRunning => runner \notin {"boot", "startPhase", "startInit"}
  BY <1>1, <1>2 DEF Draining, AllIdle
<1> QED
  BY <1>1, <1>2, <1>3 DEF Draining, AllIdle, runnerVars

\* The wait goroutine, the announcer and the exit of a process keep it all.
LEMMA OtherJobStepKeeps ==
  ASSUME TypeOK, RunnerInv, UNCHANGED runnerVars,
         \/ \E r \in Runs : WaiterStep(r) \/ AnnounceDone(r)
         \/ \E p \in Pids : Exit(p)
  PROVE  Ending' /\ Waiting' /\ Draining'
<1> DEFINE Goal == Ending /\ Waiting /\ Draining
<1> USE JobAssumption DEF TypeOK, CommonJobTypeOK, OsVarsOK, RunVarsOK, Active,
        Owners, LivePids, AllIdle, RunnerInv, Ending, Waiting, Draining,
        Supervision, OneGoroutine, OneProcess, SupervisesItsOwn, jobVars,
        osVars, runVars, runnerVars
<1>1. ASSUME NEW r \in Runs, WaiterReads(r) PROVE Goal'
  BY <1>1 DEF WaiterReads
<1>2. ASSUME NEW r \in Runs, WaiterDone(r) PROVE Goal'
  <2>1. Ending' /\ Draining'
    BY <1>2 DEF WaiterDone
  <2>2. Waiting'
    BY <1>2 DEF WaiterDone
  <2> QED
    BY <2>1, <2>2
<1>3. ASSUME NEW r \in Runs, AnnounceDone(r) PROVE Goal'
  BY <1>3 DEF AnnounceDone
<1>4. ASSUME NEW p \in Pids, Exit(p) PROVE Goal'
  BY <1>4 DEF Exit
<1> QED
  BY <1>1, <1>2, <1>3, <1>4 DEF WaiterStep

\* The steps of the runner, of its handlers and of the context keep Ending.
LEMMA RunnerStepEnding ==
  ASSUME TypeOK, RunnerInv, NobodyStarts
  PROVE  \/ \E r \in Runs : Done(r)
         \/ RunnerStep
         \/ \E q \in Reqs : Request(q) \/ Handle(q)
         \/ Cancel
         => Ending'
<1> USE DEF TypeOK, CommonJobTypeOK, OsVarsOK, RunVarsOK, Active, Owners,
        LivePids, RunnerInv, Supervision, OneGoroutine, Ending, jobVars,
        osVars, runVars, runnerVars, NoPhase
<1>1. ASSUME Exec PROVE Ending'
  BY <1>1 DEF Exec, RunnerGoto
<1>2. ASSUME RunnerForgets PROVE Ending'
  BY <1>2 DEF RunnerForgets, RunnerGoto, ForgetPhase
<1>3. ASSUME RunnerStarts PROVE Ending'
  BY <1>3 DEF RunnerStarts, RunnerGoto, InitAndSpawn, RefusesStart, ResetFlags, Spawn
<1>4. ASSUME TickChanged PROVE Ending'
  BY <1>4 DEF TickChanged, RunnerGoto
<1>5. ASSUME WatchMarks PROVE Ending'
  BY <1>5 DEF WatchMarks, RunnerGoto
<1>6. ASSUME WatchSignals PROVE Ending'
  BY <1>6 DEF WatchSignals, RunnerGoto
<1>7. ASSUME TickQuiet PROVE Ending'
  BY <1>7 DEF TickQuiet, RunnerGoto
<1>8. ASSUME Scan PROVE Ending'
  BY <1>8 DEF Scan, RunnerGoto, Restartable
<1>9. ASSUME ShutdownBegin PROVE Ending'
  BY <1>9 DEF ShutdownBegin, RunnerGoto
<1>10. ASSUME AllDone PROVE Ending'
  BY <1>10 DEF AllDone, Return
<1>11. ASSUME JobError PROVE Ending'
  BY <1>11 DEF JobError, TakeError, Return
<1>12. ASSUME DrainDone PROVE Ending'
  BY <1>12 DEF DrainDone, Return
<1>13. ASSUME DrainError PROVE Ending'
  BY <1>13 DEF DrainError, RunnerGoto, TakeError
<1>14. ASSUME DrainTimeout PROVE Ending'
  BY <1>14 DEF DrainTimeout, Return
<1>15. ASSUME Cancel PROVE Ending'
  BY <1>15 DEF Cancel
<1>16. ASSUME NEW r \in Runs, Done(r) PROVE Ending'
  BY <1>16 DEF Done, HasWaiter, RunnerState
<1>17. ASSUME NEW q \in Reqs, ReqStart(q) PROVE Ending'
  BY <1>17 DEF ReqStart, ApiGoto, NobodyStarts
<1>18. ASSUME NEW q \in Reqs, ReqRestart(q) PROVE Ending'
  BY <1>18 DEF ReqRestart, ApiGoto
<1>19. ASSUME NEW q \in Reqs, ReqStop(q) PROVE Ending'
  BY <1>19 DEF ReqStop, ApiGoto
<1>20. ASSUME NEW q \in Reqs, ReqForgets(q) PROVE Ending'
  BY <1>20 DEF ReqForgets, ApiGoto
<1>21. ASSUME NEW q \in Reqs, ReqStarts(q) PROVE Ending'
  BY <1>21 DEF ReqStarts, ApiGoto
<1>22. ASSUME NEW q \in Reqs, ReqPanics(q) PROVE Ending'
  BY <1>22 DEF ReqPanics, ApiGoto
<1>23. ASSUME NEW q \in Reqs, ReqSignals(q) PROVE Ending'
  BY <1>23 DEF ReqSignals, ApiGoto
<1> QED
  BY <1>1, <1>2, <1>3, <1>4, <1>5, <1>6, <1>7, <1>8, <1>9, <1>10, <1>11, 
     <1>12, <1>13, <1>14, <1>15, <1>16, <1>17, <1>18, <1>19, <1>20, <1>21, <1>22, <1>23
  DEF RunnerStep, Request, Handle

\* They keep Waiting, because none of them touches a process or its waiter.
LEMMA RunnerStepWaiting ==
  ASSUME TypeOK, RunnerInv, NobodyStarts
  PROVE  \/ \E r \in Runs : Done(r)
         \/ RunnerStep
         \/ \E q \in Reqs : Request(q) \/ Handle(q)
         \/ Cancel
         => Waiting'
<1> USE DEF TypeOK, CommonJobTypeOK, OsVarsOK, RunVarsOK, Owners, RunnerInv,
        Supervision, OneGoroutine, Waiting, jobVars, osVars, runVars,
        runnerVars
<1>1. ASSUME Exec PROVE Waiting'
  BY <1>1 DEF Exec, RunnerGoto
<1>2. ASSUME RunnerForgets PROVE Waiting'
  BY <1>2 DEF RunnerForgets, RunnerGoto, ForgetPhase
<1>3. ASSUME RunnerStarts PROVE Waiting'
  BY <1>3 DEF RunnerStarts, RunnerGoto, InitAndSpawn, RefusesStart, ResetFlags, Spawn
<1>4. ASSUME TickChanged PROVE Waiting'
  BY <1>4 DEF TickChanged, RunnerGoto
<1>5. ASSUME WatchMarks PROVE Waiting'
  BY <1>5 DEF WatchMarks, RunnerGoto
<1>6. ASSUME WatchSignals PROVE Waiting'
  BY <1>6 DEF WatchSignals, RunnerGoto
<1>7. ASSUME TickQuiet PROVE Waiting'
  BY <1>7 DEF TickQuiet, RunnerGoto
<1>8. ASSUME Scan PROVE Waiting'
  BY <1>8 DEF Scan, RunnerGoto, Restartable
<1>9. ASSUME ShutdownBegin PROVE Waiting'
  BY <1>9 DEF ShutdownBegin, RunnerGoto
<1>10. ASSUME AllDone PROVE Waiting'
  BY <1>10 DEF AllDone, Return
<1>11. ASSUME JobError PROVE Waiting'
  BY <1>11 DEF JobError, TakeError, Return
<1>12. ASSUME DrainDone PROVE Waiting'
  BY <1>12 DEF DrainDone, Return
<1>13. ASSUME DrainError PROVE Waiting'
  BY <1>13 DEF DrainError, RunnerGoto, TakeError
<1>14. ASSUME DrainTimeout PROVE Waiting'
  BY <1>14 DEF DrainTimeout, Return
<1>15. ASSUME Cancel PROVE Waiting'
  BY <1>15 DEF Cancel
<1>16. ASSUME NEW r \in Runs, Done(r) PROVE Waiting'
  BY <1>16 DEF Done, HasWaiter, RunnerState
<1>17. ASSUME NEW q \in Reqs, ReqStart(q) PROVE Waiting'
  BY <1>17 DEF ReqStart, ApiGoto, NobodyStarts
<1>18. ASSUME NEW q \in Reqs, ReqRestart(q) PROVE Waiting'
  BY <1>18 DEF ReqRestart, ApiGoto
<1>19. ASSUME NEW q \in Reqs, ReqStop(q) PROVE Waiting'
  BY <1>19 DEF ReqStop, ApiGoto
<1>20. ASSUME NEW q \in Reqs, ReqForgets(q) PROVE Waiting'
  BY <1>20 DEF ReqForgets, ApiGoto
<1>21. ASSUME NEW q \in Reqs, ReqStarts(q) PROVE Waiting'
  BY <1>21 DEF ReqStarts, ApiGoto
<1>22. ASSUME NEW q \in Reqs, ReqPanics(q) PROVE Waiting'
  BY <1>22 DEF ReqPanics, ApiGoto
<1>23. ASSUME NEW q \in Reqs, ReqSignals(q) PROVE Waiting'
  BY <1>23 DEF ReqSignals, ApiGoto
<1> QED
  BY <1>1, <1>2, <1>3, <1>4, <1>5, <1>6, <1>7, <1>8, <1>9, <1>10, <1>11, 
     <1>12, <1>13, <1>14, <1>15, <1>16, <1>17, <1>18, <1>19, <1>20, <1>21, <1>22, <1>23
  DEF RunnerStep, Request, Handle

\* They keep Draining: the counter of the wait group only rises again with
\* --keep-running, and then nobody waits for it.
LEMMA RunnerStepDraining ==
  ASSUME TypeOK, RunnerInv, NobodyStarts
  PROVE  \/ \E r \in Runs : Done(r)
         \/ RunnerStep
         \/ \E q \in Reqs : Request(q) \/ Handle(q)
         \/ Cancel
         => Draining'
<1> USE RunnerAssumption DEF TypeOK, CommonJobTypeOK, RunVarsOK, AllIdle,
        RunnerInv, Supervision, OneGoroutine, Draining, jobVars, osVars,
        runVars, runnerVars
<1>1. ASSUME Exec PROVE Draining'
  BY <1>1 DEF Exec, RunnerGoto
<1>2. ASSUME RunnerForgets PROVE Draining'
  BY <1>2 DEF RunnerForgets, RunnerGoto, ForgetPhase
<1>3. ASSUME RunnerStarts PROVE Draining'
  BY <1>3 DEF RunnerStarts, RunnerGoto, InitAndSpawn, RefusesStart, ResetFlags, Spawn
<1>4. ASSUME TickChanged PROVE Draining'
  BY <1>4 DEF TickChanged, RunnerGoto
<1>5. ASSUME WatchMarks PROVE Draining'
  BY <1>5 DEF WatchMarks, RunnerGoto
<1>6. ASSUME WatchSignals PROVE Draining'
  BY <1>6 DEF WatchSignals, RunnerGoto
<1>7. ASSUME TickQuiet PROVE Draining'
  BY <1>7 DEF TickQuiet, RunnerGoto
<1>8. ASSUME Scan PROVE Draining'
  BY <1>8 DEF Scan, RunnerGoto, Restartable
<1>9. ASSUME ShutdownBegin PROVE Draining'
  BY <1>9 DEF ShutdownBegin, RunnerGoto
<1>10. ASSUME AllDone PROVE Draining'
  BY <1>10 DEF AllDone, Return
<1>11. ASSUME JobError PROVE Draining'
  BY <1>11 DEF JobError, TakeError, Return
<1>12. ASSUME DrainDone PROVE Draining'
  BY <1>12 DEF DrainDone, Return
<1>13. ASSUME DrainError PROVE Draining'
  BY <1>13 DEF DrainError, RunnerGoto, TakeError
<1>14. ASSUME DrainTimeout PROVE Draining'
  BY <1>14 DEF DrainTimeout, Return
<1>15. ASSUME Cancel PROVE Draining'
  BY <1>15 DEF Cancel
<1>16. ASSUME NEW r \in Runs, Done(r) PROVE Draining'
  BY <1>16 DEF Done, HasWaiter, RunnerState
<1>17. ASSUME NEW q \in Reqs, ReqStart(q) PROVE Draining'
  BY <1>17 DEF ReqStart, ApiGoto, NobodyStarts
<1>18. ASSUME NEW q \in Reqs, ReqRestart(q) PROVE Draining'
  BY <1>18 DEF ReqRestart, ApiGoto
<1>19. ASSUME NEW q \in Reqs, ReqStop(q) PROVE Draining'
  BY <1>19 DEF ReqStop, ApiGoto
<1>20. ASSUME NEW q \in Reqs, ReqForgets(q) PROVE Draining'
  BY <1>20 DEF ReqForgets, ApiGoto
<1>21. ASSUME NEW q \in Reqs, ReqStarts(q) PROVE Draining'
  BY <1>21 DEF ReqStarts, ApiGoto
<1>22. ASSUME NEW q \in Reqs, ReqPanics(q) PROVE Draining'
  BY <1>22 DEF ReqPanics, ApiGoto
<1>23. ASSUME NEW q \in Reqs, ReqSignals(q) PROVE Draining'
  BY <1>23 DEF ReqSignals, ApiGoto
<1> QED
  BY <1>1, <1>2, <1>3, <1>4, <1>5, <1>6, <1>7, <1>8, <1>9, <1>10, <1>11, 
     <1>12, <1>13, <1>14, <1>15, <1>16, <1>17, <1>18, <1>19, <1>20, <1>21, <1>22, <1>23
  DEF RunnerStep, Request, Handle

\* Nothing is ending, waiting or draining in the beginning.
LEMMA RunnerInvInit == Init => RunnerInv
<1>1. Init => Ending /\ Waiting /\ Draining
  BY DEF Init, CommonJobInit, Ending, Waiting, Draining, AllIdle, Active,
         Owners, LivePids
<1> QED
  BY <1>1, SupervisionInit DEF RunnerInv

\* Every step keeps what is known of ending goroutines, of wait goroutines and
\* of the shutdown.
LEMMA RunnerInvStep ==
  TypeOK /\ RunnerInv /\ NobodyStarts /\ [Next]_vars => RunnerInv'
<1> SUFFICES ASSUME TypeOK, RunnerInv, NobodyStarts, [Next]_vars
             PROVE  Ending' /\ Waiting' /\ Draining'
  BY SupervisionStep DEF RunnerInv
<1> DEFINE Goal == Ending /\ Waiting /\ Draining
<1>1. CASE JobStep /\ UNCHANGED runnerVars
  <2>1. ASSUME NEW r \in Runs, RunStep(r) PROVE Goal'
    BY <1>1, <2>1, RunStepEnding, RunStepWaiting, RunStepDraining
  <2> QED
    BY <1>1, <2>1, OtherJobStepKeeps DEF JobStep
<1>2. CASE UNCHANGED vars
  BY <1>2 DEF RunnerInv, Ending, Waiting, Draining, AllIdle, Active, Owners,
              LivePids, vars, jobVars, osVars, runVars, runnerVars
<1> QED
  BY <1>1, <1>2, RunnerStepEnding, RunnerStepWaiting, RunnerStepDraining
  DEF Next

\* The whole inductive invariant of the runner and its job.
THEOREM RunnerInvCorrect ==
  ASSUME NobodyStarts
  PROVE  Spec => []RunnerInv
<1>1. TypeOK /\ RunnerInv /\ [Next]_vars => RunnerInv'
  BY RunnerInvStep
<1> QED
  BY <1>1, RunnerInvInit, TypeCorrect, PTL DEF Spec

\* Whoever sees the phase of a job that has ended may start it again: no
\* goroutine runs it, and no process of it is alive that was not killed.
THEOREM EndedMeansEndedCorrect ==
  ASSUME NobodyStarts
  PROVE  Spec => []EndedMeansEnded
<1>1. RunnerInv => EndedMeansEnded
  BY DEF RunnerInv, Supervision, OneGoroutine, Ending, EndedMeansEnded, Active,
         Owners
<1> QED
  BY <1>1, RunnerInvCorrect, PTL

\* Every process of the job that exits is waited for by somebody: no order of
\* restarts, cancellation and SIGKILL leaves a zombie that nobody reaps.
THEOREM ZombiesAreReapedCorrect ==
  ASSUME NobodyStarts
  PROVE  Spec => []ZombiesAreReaped
<1>1. RunnerInv => ZombiesAreReaped
  BY DEF RunnerInv, Waiting, ZombiesAreReaped
<1> QED
  BY <1>1, RunnerInvCorrect, PTL

-----------------------------------------------------------------------------
(* The end of Run, and the refinement of Lifecycle.                          *)

\* Only three actions set an exit that claims to have waited for the job.
LEMMA ExitStep ==
  ASSUME TypeOK, [Next]_vars
  PROVE  \/ exit' = exit
         \/ /\ AllDone \/ JobError \/ DrainDone
            /\ UNCHANGED <<osVars, jobVars>>
         \/ exit' = "timedOut" /\ UNCHANGED <<osVars, jobVars, pc>>
<1> DEFINE Goal == \/ exit' = exit
                   \/ /\ AllDone \/ JobError \/ DrainDone
                      /\ UNCHANGED <<osVars, jobVars>>
                   \/ exit' = "timedOut" /\ UNCHANGED <<osVars, jobVars, pc>>
<1>1. CASE RunnerStep
  BY <1>1 DEF RunnerStep, RunnerGoto, Return, Exec, RunnerForgets, RunnerStarts,
     TickChanged, WatchMarks, WatchSignals, TickQuiet, Scan, ShutdownBegin,
     AllDone, JobError, DrainDone, DrainError, DrainTimeout, runVars
<1>2. ASSUME NEW q \in Reqs, Request(q) \/ Handle(q) PROVE Goal
  BY <1>2 DEF Request, Handle, ReqStart, ReqRestart, ReqStop, ReqForgets,
     ReqStarts, ReqPanics, ReqSignals, ApiGoto
<1> QED
  BY <1>1, <1>2 DEF Next, Done, Cancel, runnerVars, vars

\* Run never returns, but by its safety-net timeout, while a process of the job
\* is alive that was not killed.  A job that may not fail must not be kept
\* running: the tick would start it anew before Run receives its error.
THEOREM ExitLeavesNothingCorrect ==
  ASSUME NobodyStarts, CanFail \/ ~KeepRunning
  PROVE  Spec => []ExitLeavesNothing
<1>1. Init => ExitLeavesNothing
  BY DEF Init, ExitLeavesNothing
<1>2. TypeOK /\ RunnerInv /\ ExitLeavesNothing /\ [Next]_vars
        => ExitLeavesNothing'
  <2> SUFFICES ASSUME TypeOK, RunnerInv, ExitLeavesNothing, [Next]_vars
               PROVE  ExitLeavesNothing'
    OBVIOUS
  <2>1. CASE exit' = exit
    <3>1. CASE runner # "done"
      BY <2>1, <3>1 DEF RunnerInv, Draining, ExitLeavesNothing
    <3>2. CASE runner = "done"
      BY <2>1, <3>2 DEF Next, ExitLeavesNothing, LivePids, vars, osVars
    <3> QED
      BY <3>1, <3>2
  <2>2. CASE /\ AllDone \/ JobError \/ DrainDone
             /\ UNCHANGED osVars
    <3>1. ASSUME AllDone \/ DrainDone PROVE Owners = {}
      BY <3>1 DEF AllDone, DrainDone, RunnerInv, Draining, AllIdle, Owners
    <3>2. ASSUME JobError PROVE Owners = {}
      <4>1. PICK r \in Runs : pc[r] = "report"
        BY <3>2 DEF JobError, TakeError
      <4>2. \A s \in Runs : s # r => pc[s] = "idle"
        BY <4>1 DEF RunnerInv, Draining
      <4> QED
        BY <4>1, <4>2 DEF Owners
    <3>3. Owners = {}
      BY <2>2, <3>1, <3>2
    <3> QED
      BY <2>2, <3>3 DEF RunnerInv, Ending, ExitLeavesNothing, LivePids, osVars
  <2>3. CASE exit' = "timedOut"
    BY <2>3 DEF ExitLeavesNothing
  <2> QED
    BY <2>1, <2>2, <2>3, ExitStep
<1> QED
  BY <1>1, <1>2, TypeCorrect, RunnerInvCorrect, PTL DEF Spec

\* A job that is down stays down in every step of its goroutines.
LEMMA RunStepDown ==
  ASSUME TypeOK, RunnerInv, Down, NEW r \in Runs, RunStep(r)
  PROVE  Down'
<1>0. /\ Nil \notin Pids
      /\ r \in Owners => mine[r] \in Pids
  BY JobAssumption DEF RunnerInv, Waiting
<1> USE <1>0 DEF TypeOK, CommonJobTypeOK, JobVarsOK, OsVarsOK, RunVarsOK, Owners,
        LivePids, Down, jobVars, osVars
<1>1. ASSUME Enter(r) PROVE Down'
  BY <1>1 DEF Enter, Goto
<1>2. ASSUME LoopTop(r) PROVE Down'
  BY <1>2 DEF LoopTop, Goto
<1>3. ASSUME StartFails(r) PROVE Down'
  BY <1>3 DEF StartFails, Goto
<1>4. ASSUME Fork(r) PROVE Down'
  BY <1>4 DEF Fork, Unused
<1>5. ASSUME SetCmd(r) PROVE Down'
  BY <1>5 DEF SetCmd, Goto
<1>6. ASSUME Announce(r) PROVE Down'
  BY <1>6 DEF Announce
<1>7. ASSUME SelectExit(r) PROVE Down'
  BY <1>7 DEF SelectExit, Signalled
<1>8. ASSUME SelectCancel(r) PROVE Down'
  BY <1>8 DEF SelectCancel, Goto, Signalled
<1>9. ASSUME TermExit(r) PROVE Down'
  BY <1>9 DEF TermExit
<1>10. ASSUME TermTimeout(r) PROVE Down'
  BY <1>10 DEF TermTimeout, Signalled
<1>11. ASSUME RetShutdown(r) PROVE Down'
  BY <1>11 DEF RetShutdown, Goto
<1>12. ASSUME RetCompleted(r) PROVE Down'
  BY <1>12 DEF RetCompleted, Goto
<1>13. ASSUME RetRestart(r) PROVE Down'
  BY <1>13 DEF RetRestart, Goto
<1>14. ASSUME RetStopped(r) PROVE Down'
  BY <1>14 DEF RetStopped, Goto
<1>15. ASSUME RetBackOff(r) PROVE Down'
  BY <1>15 DEF RetBackOff, Attempted
<1>16. ASSUME RetFailed(r) PROVE Down'
  BY <1>16 DEF RetFailed, Goto, Attempted
<1>17. ASSUME Wake(r) PROVE Down'
  BY <1>17 DEF Wake, Goto
<1> QED
  BY <1>1, <1>2, <1>3, <1>4, <1>5, <1>6, <1>7, <1>8, <1>9, <1>10, <1>11,
     <1>12, <1>13, <1>14, <1>15, <1>16, <1>17 DEF RunStep

\* Without --keep-running the flags of the job are reset once, before it has
\* ever had a process.
LEMMA DownStep ==
  ASSUME TypeOK, RunnerInv, NobodyStarts, ~KeepRunning
  PROVE  Down /\ [Next]_vars => Down'
<1> SUFFICES ASSUME Down, [Next]_vars PROVE Down'
  OBVIOUS
<1>0. RunnerAssumption
  BY RunnerAssumption
<1> USE DEF TypeOK, CommonJobTypeOK, JobVarsOK, OsVarsOK, RunVarsOK, RunnerInv,
        Supervision, OneGoroutine, Draining, LivePids, Down, jobVars, osVars,
        runVars
<1>24. ASSUME NEW r \in Runs, WaiterStep(r) \/ AnnounceDone(r) PROVE Down'
  <2>1. CASE WaiterReads(r)
    BY <2>1 DEF WaiterReads
  <2>2. CASE WaiterDone(r)
    BY <2>2 DEF WaiterDone
  <2>3. CASE AnnounceDone(r)
    BY <2>3 DEF AnnounceDone
  <2> QED
    BY <1>24, <2>1, <2>2, <2>3 DEF WaiterStep
<1>25. ASSUME NEW p \in Pids, Exit(p) PROVE Down'
  BY <1>25 DEF Exit
<1>26. CASE UNCHANGED vars
  BY <1>26 DEF vars
<1>1. ASSUME Exec PROVE Down'
  BY <1>1 DEF Exec, RunnerGoto
<1>2. ASSUME RunnerForgets PROVE Down'
  BY <1>2 DEF RunnerForgets, RunnerGoto, ForgetPhase
<1>3. ASSUME RunnerStarts PROVE Down'
  BY <1>3 DEF RunnerStarts, RunnerGoto, InitAndSpawn, RefusesStart, ResetFlags, Spawn
<1>4. ASSUME TickChanged PROVE Down'
  BY <1>4 DEF TickChanged, RunnerGoto
<1>5. ASSUME WatchMarks PROVE Down'
  BY <1>5 DEF WatchMarks, RunnerGoto
<1>6. ASSUME WatchSignals PROVE Down'
  BY <1>6 DEF WatchSignals, RunnerGoto
<1>7. ASSUME TickQuiet PROVE Down'
  BY <1>7 DEF TickQuiet, RunnerGoto
<1>8. ASSUME Scan PROVE Down'
  BY <1>8 DEF Scan, RunnerGoto, Restartable
<1>9. ASSUME ShutdownBegin PROVE Down'
  BY <1>9 DEF ShutdownBegin, RunnerGoto
<1>10. ASSUME AllDone PROVE Down'
  BY <1>10 DEF AllDone, Return
<1>11. ASSUME JobError PROVE Down'
  BY <1>11 DEF JobError, TakeError, Return
<1>12. ASSUME DrainDone PROVE Down'
  BY <1>12 DEF DrainDone, Return
<1>13. ASSUME DrainError PROVE Down'
  BY <1>13 DEF DrainError, RunnerGoto, TakeError
<1>14. ASSUME DrainTimeout PROVE Down'
  BY <1>14 DEF DrainTimeout, Return
<1>15. ASSUME Cancel PROVE Down'
  BY <1>15 DEF Cancel
<1>16. ASSUME NEW r \in Runs, Done(r) PROVE Down'
  BY <1>16 DEF Done, HasWaiter, RunnerState
<1>17. ASSUME NEW q \in Reqs, ReqStart(q) PROVE Down'
  BY <1>17 DEF ReqStart, ApiGoto, NobodyStarts
<1>18. ASSUME NEW q \in Reqs, ReqRestart(q) PROVE Down'
  BY <1>18 DEF ReqRestart, ApiGoto
<1>19. ASSUME NEW q \in Reqs, ReqStop(q) PROVE Down'
  BY <1>19 DEF ReqStop, ApiGoto
<1>20. ASSUME NEW q \in Reqs, ReqForgets(q) PROVE Down'
  BY <1>20 DEF ReqForgets, ApiGoto
<1>21. ASSUME NEW q \in Reqs, ReqStarts(q) PROVE Down'
  BY <1>21 DEF ReqStarts, ApiGoto
<1>22. ASSUME NEW q \in Reqs, ReqPanics(q) PROVE Down'
  BY <1>22 DEF ReqPanics, ApiGoto
<1>23. ASSUME NEW q \in Reqs, ReqSignals(q) PROVE Down'
  BY <1>23 DEF ReqSignals, ApiGoto
<1> QED
  BY <1>1, <1>2, <1>3, <1>4, <1>5, <1>6, <1>7, <1>8, <1>9, <1>10, <1>11, <1>12,
     <1>13, <1>14, <1>15, <1>16, <1>17, <1>18, <1>19, <1>20, <1>21, <1>22, <1>23,
     <1>24, <1>25, <1>26, RunStepDown
  DEF Next, JobStep, RunnerStep, Request, Handle

\* A stop that has taken effect is final, crash loop or not.
THEOREM StopIsFinalCorrect ==
  ASSUME NobodyStarts, ~KeepRunning
  PROVE  Spec => StopIsFinal
<1>1. TypeOK /\ RunnerInv /\ [Next]_vars => [Down => Down']_vars
  BY DownStep
<1> QED
  BY <1>1, TypeCorrect, RunnerInvCorrect, PTL DEF Spec, StopIsFinal

\* The one member of a set is what CHOOSE picks from it.
LEMMA ChooseMember ==
  ASSUME NEW S, NEW x \in S, \A y \in S : y = x
  PROVE  (CHOOSE y \in S : TRUE) = x
OBVIOUS

\* What Lifecycle sees as the process of the job.
LEMMA TheProcessIsWatched ==
  /\ AtMostOneProcess =>
       /\ Watched = {} => TheProcess = Nil
       /\ \A p \in Watched : TheProcess = p
  /\ AtMostOneProcess' =>
       /\ Watched' = {} => TheProcess' = Nil
       /\ \A p \in Watched' : TheProcess' = p
<1>1. ASSUME AtMostOneProcess, NEW p \in Watched PROVE TheProcess = p
  <2>1. \A q \in Watched : q = p
    BY <1>1 DEF AtMostOneProcess, Watched
  <2> QED
    BY <2>1, ChooseMember DEF TheProcess
<1>2. ASSUME AtMostOneProcess', NEW p \in Watched' PROVE TheProcess' = p
  <2>1. \A q \in Watched' : q = p
    BY <1>2 DEF AtMostOneProcess, Watched
  <2> QED
    BY <2>1, ChooseMember DEF TheProcess
<1> QED
  BY <1>1, <1>2 DEF TheProcess

\* The processes others see change in three actions only.
LEMMA WatchedStep ==
  ASSUME TypeOK, RunnerInv, NobodyStarts, [Next]_vars
  PROVE  \/ Watched' = Watched
         \/ \E r \in Runs : Fork(r) /\ UNCHANGED exit
         \/ Watched' = {} /\ UNCHANGED exit
<1> DEFINE Goal == \/ Watched' = Watched
                   \/ \E r \in Runs : Fork(r) /\ UNCHANGED exit
                   \/ Watched' = {} /\ UNCHANGED exit
<1>1. ASSUME NEW r \in Runs, RunStep(r), UNCHANGED runnerVars PROVE Goal
  <2>1. CASE Fork(r)
    BY <1>1, <2>1 DEF runnerVars
  <2>2. CASE TermTimeout(r)
    <3>1. Signalled = LivePids
      BY <2>2 DEF TermTimeout, RunnerInv, Supervision, OneProcess,
                  SupervisesItsOwn, Owners, LivePids, Signalled
    <3> QED
      BY <1>1, <2>2, <3>1 DEF TermTimeout, Watched, LivePids, runnerVars
  <2>3. CASE ~Fork(r) /\ ~TermTimeout(r)
    BY <1>1, <2>3 DEF RunStep, Enter, LoopTop, StartFails, SetCmd, Announce,
       SelectExit, SelectCancel, TermExit, RetShutdown, RetCompleted, RetRestart,
       RetStopped, RetBackOff, RetFailed, Wake, osVars, Watched, LivePids
  <2> QED
    BY <2>1, <2>2, <2>3
<1>2. ASSUME NEW r \in Runs, WaiterStep(r) PROVE Goal
  BY <1>2 DEF WaiterStep, WaiterReads, WaiterDone, osVars, Watched, LivePids,
     TypeOK, CommonJobTypeOK, OsVarsOK
<1>3. ASSUME NEW r \in Runs, AnnounceDone(r) \/ Done(r) PROVE Goal
  BY <1>3 DEF AnnounceDone, Done, osVars, Watched, LivePids
<1>4. ASSUME NEW p \in Pids, Exit(p), UNCHANGED runnerVars PROVE Goal
  <2>1. LivePids' = {}
    BY <1>4 DEF Exit, RunnerInv, Supervision, OneProcess, LivePids, TypeOK,
                CommonJobTypeOK, OsVarsOK
  <2> QED
    BY <1>4, <2>1 DEF Watched, runnerVars
<1>5. CASE RunnerStep
  BY <1>5 DEF RunnerStep, Exec, RunnerForgets, RunnerStarts, TickChanged,
     WatchMarks, WatchSignals, TickQuiet, Scan, ShutdownBegin, AllDone, JobError,
     DrainDone, DrainError, DrainTimeout, Return, osVars, Watched, LivePids
<1>6. ASSUME NEW q \in Reqs, Request(q) \/ Handle(q) PROVE Goal
  BY <1>6 DEF Request, Handle, ReqStart, ReqRestart, ReqStop, ReqForgets,
     ReqStarts, ReqPanics, ReqSignals, osVars, Watched, LivePids
<1> QED
  BY <1>1, <1>2, <1>3, <1>4, <1>5, <1>6
  DEF Next, JobStep, Cancel, vars, osVars, Watched, LivePids

\* Every step of the runner is one of Lifecycle, or changes nothing it sees.
LEMMA LifecycleStep ==
  ASSUME NobodyStarts, ~KeepRunning, TypeOK, TypeOK', RunnerInv, RunnerInv',
         ExitLeavesNothing', [Next]_vars
  PROVE  [Life!LifecycleNext]_(Life!lifecycleVars)
<1> DEFINE Over == exit \in {"finished", "failed", "canceled"}
<1>0. Nil \notin Pids /\ Watched \subseteq Pids /\ Watched' \subseteq Pids
  BY JobAssumption DEF Watched, LivePids
<1>1. AtMostOneProcess /\ AtMostOneProcess'
  BY DEF RunnerInv, Supervision, OneProcess, AtMostOneProcess
<1>2. /\ Down => Down' /\ Watched = {} /\ TheProcess = Nil
      /\ Down' => Watched' = {} /\ TheProcess' = Nil
  BY DownStep, TheProcessIsWatched, <1>1 DEF Down, Watched
<1>3. ASSUME runner # "done" PROVE exit = "none"
  BY <1>3 DEF RunnerInv, Draining
<1>4. ASSUME runner # "done", NEW r \in Runs, Fork(r), UNCHANGED exit
      PROVE  Life!Starts
  <2>1. ~Down
    BY <1>4 DEF Fork, Down
  <2>2. LivePids = {}
    BY <1>4 DEF Fork, RunnerInv, Supervision, OneProcess
  <2>3. PICK p \in Pids : os' = [os EXCEPT ![p] = "alive"]
    BY <1>4 DEF Fork, Unused
  <2>4. p \in Watched'
    BY <1>4, <2>2, <2>3 DEF Fork, RunnerInv, Ending, Watched, LivePids, TypeOK,
                            CommonJobTypeOK, OsVarsOK
  <2>5. ~Down' /\ TheProcess' = p
    BY <1>1, <1>2, <2>4, TheProcessIsWatched
  <2>6. TheProcess = Nil
    BY <1>1, <2>2, TheProcessIsWatched DEF Watched
  <2>7. ~Over /\ Over' = Over
    BY <1>3, <1>4
  <2>8. Down' = Down
    BY <2>1, <2>5 DEF Down
  <2> QED
    BY <2>1, <2>3, <2>5, <2>6, <2>7, <2>8 DEF Life!Starts
<1>5. ASSUME Watched' = Watched PROVE TheProcess' = TheProcess
  BY <1>5 DEF TheProcess
<1>6. ASSUME TheProcess' = TheProcess, Over' = Over
      PROVE  [Life!GoesDown]_(Life!lifecycleVars)
  <2>1. CASE Down' = Down
    BY <1>6, <2>1 DEF Life!lifecycleVars
  <2>2. CASE Down' # Down
    <3>1. Down' /\ TheProcess = Nil
      BY <1>2, <1>6, <2>2 DEF Down
    <3> QED
      BY <1>6, <3>1 DEF Life!GoesDown
  <2> QED
    BY <2>1, <2>2
<1>7. ASSUME Watched' = {}, TheProcess # Nil, UNCHANGED exit PROVE Life!Ends
  <2>1. TheProcess' = Nil
    BY <1>1, <1>7, TheProcessIsWatched
  <2>2. Down' \in BOOLEAN
    BY DEF Down
  <2> QED
    BY <1>7, <2>1, <2>2 DEF Life!Ends
<1>8. ASSUME runner # "done", exit' # exit
      PROVE  [Life!Finishes]_(Life!lifecycleVars)
  <2>1. UNCHANGED <<osVars, jobVars>>
    BY <1>8, ExitStep
  <2>2. Watched' = Watched /\ TheProcess' = TheProcess
    BY <2>1, <1>5 DEF Watched, LivePids, osVars
  <2>3. Down' = Down
    <3>1. \A r \in Runs : pc[r] = "start" => pc'[r] = "start"
      BY <1>8, ExitStep DEF AllDone, JobError, DrainDone, TakeError, runVars,
         TypeOK, CommonJobTypeOK, RunVarsOK
    <3>2. Down' => Down
      BY <2>1, <3>1 DEF Down, LivePids, osVars, jobVars
    <3> QED
      BY <1>2, <3>2 DEF Down
  <2>4. ~Over
    BY <1>3, <1>8
  <2>5. CASE Over'
    <3>1. TheProcess = Nil
      BY <1>1, <2>2, <2>5, TheProcessIsWatched DEF ExitLeavesNothing, Watched
    <3> QED
      BY <2>2, <2>3, <2>5, <3>1 DEF Life!Finishes
  <2>6. CASE ~Over'
    BY <2>2, <2>3, <2>4, <2>6 DEF Life!lifecycleVars
  <2> QED
    BY <2>5, <2>6
<1>9. CASE runner # "done" /\ exit' = exit
  <2>1. CASE Watched' = Watched
    BY <1>5, <1>6, <1>9, <2>1 DEF Life!LifecycleNext
  <2>2. CASE \E r \in Runs : Fork(r)
    BY <1>4, <1>9, <2>2 DEF Life!LifecycleNext
  <2>3. CASE Watched' = {} /\ TheProcess # Nil
    BY <1>7, <1>9, <2>3 DEF Life!LifecycleNext
  <2>4. CASE Watched' = {} /\ TheProcess = Nil
    <3>1. TheProcess' = TheProcess
      BY <1>1, <2>4, TheProcessIsWatched
    <3> QED
      BY <1>6, <1>9, <3>1 DEF Life!LifecycleNext
  <2> QED
    BY <2>1, <2>2, <2>3, <2>4, WatchedStep
<1>10. CASE runner # "done" /\ exit' # exit
  BY <1>8, <1>10 DEF Life!LifecycleNext
<1>11. CASE runner = "done"
  <2>1. UNCHANGED vars
    BY <1>11 DEF Next
  <2> QED
    BY <2>1 DEF vars, jobVars, osVars, runVars, runnerVars, Life!lifecycleVars,
       TheProcess, Watched, LivePids, Down
<1> QED
  BY <1>9, <1>10, <1>11

\* The runner with its job implements Lifecycle: one process at a time, none
\* after a stop that has taken effect, and an end of Run that has waited for
\* the process, for a job that is run once and clients that do not start it.
THEOREM LifecycleImplemented ==
  ASSUME NobodyStarts, ~KeepRunning
  PROVE  Spec => ImplementsLifecycle
<1>1. Init => Life!LifecycleInit
  BY DEF Init, CommonJobInit, Life!LifecycleInit, TheProcess, Watched, LivePids,
         Down
<1>2. TypeOK /\ TypeOK' /\ RunnerInv /\ RunnerInv' /\ ExitLeavesNothing'
        /\ [Next]_vars => [Life!LifecycleNext]_(Life!lifecycleVars)
  BY LifecycleStep
<1> QED
  BY <1>1, <1>2, TypeCorrect, RunnerInvCorrect, ExitLeavesNothingCorrect, PTL
  DEF Spec, ImplementsLifecycle, Life!LifecycleSpec
=============================================================================
