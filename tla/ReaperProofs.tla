----------------------------- MODULE ReaperProofs -----------------------------
(* Theorems about Reaper, for any number of calls and process ids.           *)
EXTENDS Reaper, TLAPS

-----------------------------------------------------------------------------
(* Type correctness.                                                         *)

\* Every variable of Reaper keeps its type, and a call that has started a
\* process has its pid.
THEOREM TypeCorrect == Spec => []TypeOK
<1>1. Init => TypeOK
  <2> SUFFICES ASSUME Init PROVE TypeOK
    OBVIOUS
  <2>1. \A j \in Jobs : job[j] = "idle"
    BY DEF Init
  <2> QED
    BY <2>1 DEF Init, TypeOK
<1>2. TypeOK /\ [Next]_vars => TypeOK'
  <2> SUFFICES ASSUME TypeOK, [Next]_vars PROVE TypeOK'
    OBVIOUS
  <2> USE DEF TypeOK, vars, osVars, jobVars, reaperVars
  <2>1. CASE UNCHANGED vars
    BY <2>1
  <2>2. ASSUME NEW p \in Pids, Orphaned(p) \/ Exit(p) \/ Peek(p) PROVE TypeOK'
    BY <2>2 DEF Orphaned, Exit, Peek, ReaperGoto
  <2>3. ASSUME NEW j \in Jobs, Start(j) PROVE TypeOK'
    BY <2>3 DEF Start, JobGoto
  <2>4. ASSUME NEW j \in Jobs, JobStep(j) PROVE TypeOK'
    <3>1. CASE Register(j)
      BY <3>1 DEF Register, JobGoto
    <3>2. CASE WaitReturns(j)
      BY <3>2 DEF WaitReturns, Collect, JobGoto
    <3>3. CASE WaitFails(j) \/ Unregister(j)
      BY <3>3 DEF WaitFails, Unregister, JobGoto
    <3> QED
      BY <2>4, <3>1, <3>2, <3>3 DEF JobStep
  <2>5. CASE Signalled \/ Ticks \/ PeekNone \/ LeavesManaged \/ TakesOrphan
    BY <2>5 DEF Signalled, Ticks, PeekNone, LeavesManaged, TakesOrphan, ReaperGoto
  <2>6. CASE Reaps \/ ReapsNothing
    BY <2>6 DEF Reaps, ReapsNothing, Collect, ReaperGoto
  <2> QED
    BY <2>1, <2>2, <2>3, <2>4, <2>5, <2>6 DEF Next
<1> QED
  BY <1>1, <1>2, PTL DEF Spec

-----------------------------------------------------------------------------
(* The registry.                                                             *)

\* Every zombie has one party that will collect it: an orphan the reaper, a
\* registered process its wait goroutine.  The lookup of the reaper and its
\* wait4 are two steps, but what it looked up as an orphan stays one, because
\* its pid is not given away meanwhile.
THEOREM ReapingCorrect == ~ReusesEarly => (Spec => []Reaping)
<1> SUFFICES ASSUME ~ReusesEarly PROVE Spec => []Reaping
  OBVIOUS
<1> USE ReaperAssumption
<1>1. Init => Reaping
  BY DEF Init, Reaping, CallsOwn, ProcessesAreOwned, ReaperIsRight, StatusIsKept
<1>2. TypeOK /\ Reaping /\ [Next]_vars => Reaping'
  <2> SUFFICES ASSUME TypeOK, Reaping, [Next]_vars PROVE Reaping'
    OBVIOUS
  <2> USE DEF TypeOK, Reaping, CallsOwn, ProcessesAreOwned, ReaperIsRight,
          StatusIsKept, vars, osVars, jobVars, reaperVars
  <2>1. CASE UNCHANGED vars
    BY <2>1
  <2>2. ASSUME NEW p \in Pids, Orphaned(p) PROVE Reaping'
    BY <2>2 DEF Orphaned, Available, InUse
  <2>3. ASSUME NEW p \in Pids, Exit(p) PROVE Reaping'
    BY <2>3 DEF Exit
  <2>4. ASSUME NEW p \in Pids, Peek(p) PROVE Reaping'
    BY <2>4 DEF Peek, ReaperGoto
  <2>5. ASSUME NEW j \in Jobs, Start(j) PROVE Reaping'
    <3>1. PICK p \in Pids :
            /\ Available(p)
            /\ os' = [os EXCEPT ![p] = "alive"]
            /\ owner' = [owner EXCEPT ![p] = j]
            /\ pid' = [pid EXCEPT ![j] = p]
      BY <2>5 DEF Start
    <3>2. os[p] = "free" /\ owner[p] = "none" /\ p # seen
          /\ \A k \in Jobs : job[k] # "idle" => pid[k] # p
      BY <3>1 DEF Available, InUse
    <3>3. job[j] = "idle" /\ job' = [job EXCEPT ![j] = "started"]
          /\ status' = [status EXCEPT ![j] = "none"]
          /\ UNCHANGED <<managed, reaper, seen, sigchld>>
      BY <2>5 DEF Start, JobGoto
    <3>4. CallsOwn'
      BY <3>1, <3>2, <3>3
    <3>5. ProcessesAreOwned'
      BY <3>1, <3>2, <3>3
    <3>6. ReaperIsRight' /\ StatusIsKept'
      BY <3>1, <3>2, <3>3
    <3> QED
      BY <3>4, <3>5, <3>6
  <2>6. ASSUME NEW j \in Jobs, JobStep(j) PROVE Reaping'
    <3>1. CASE Register(j)
      BY <3>1 DEF Register, JobGoto
    <3>2. CASE WaitReturns(j)
      BY <3>2 DEF WaitReturns, Collect, JobGoto
    <3>3. CASE WaitFails(j)
      BY <3>3 DEF WaitFails, JobGoto
    <3>4. CASE Unregister(j)
      BY <3>4 DEF Unregister, JobGoto
    <3> QED
      BY <2>6, <3>1, <3>2, <3>3, <3>4 DEF JobStep
  <2>7. CASE Signalled \/ Ticks \/ PeekNone \/ LeavesManaged
    BY <2>7 DEF Signalled, Ticks, PeekNone, LeavesManaged, ReaperGoto
  <2>8. CASE TakesOrphan
    BY <2>8 DEF TakesOrphan, ReaperGoto
  <2>9. CASE Reaps
    BY <2>9 DEF Reaps, Collect, ReaperGoto
  <2>10. CASE ReapsNothing
    BY <2>10 DEF ReapsNothing, ReaperGoto
  <2> QED
    BY <2>1, <2>2, <2>3, <2>4, <2>5, <2>6, <2>7, <2>8, <2>9, <2>10 DEF Next
<1> QED
  BY <1>1, <1>2, TypeCorrect, PTL DEF Spec

\* No job whose process lives until it is registered loses its exit status,
\* whatever orphans come and go and whatever other jobs do.
THEOREM StatusIsKeptCorrect == ~ReusesEarly => (Spec => []StatusIsKept)
<1> SUFFICES ASSUME ~ReusesEarly PROVE Spec => []StatusIsKept
  OBVIOUS
<1>1. Reaping => StatusIsKept
  BY DEF Reaping
<1> QED
  BY <1>1, ReapingCorrect, PTL
=============================================================================
