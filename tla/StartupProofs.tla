---------------------------- MODULE StartupProofs ----------------------------
(* Theorems about Startup, for any number of boot jobs and probes.           *)
EXTENDS Startup, TLAPS

-----------------------------------------------------------------------------
(* The inductive invariant behind ReadyBeforeBoot.                           *)

\* A probe that is still to be executed has not succeeded in this round.
OneRound == main = "probing" => todo \cap passed = {}

WaitInv == OneRound /\ ReadyBeforeBoot

-----------------------------------------------------------------------------
(* Type correctness.                                                         *)

\* Every variable of Startup keeps its type.
THEOREM TypeCorrect == Spec => []TypeOK
<1> USE StartupAssumption
<1>1. Init => TypeOK
  BY DEF Init, TypeOK
<1>2. TypeOK /\ [Next]_vars => TypeOK'
  <2> SUFFICES ASSUME TypeOK, [Next]_vars PROVE TypeOK'
    OBVIOUS
  <2> USE DEF TypeOK, Channels, vars, waitVars, signalVars, bootVars
  <2>1. CASE UNCHANGED vars
    BY <2>1
  <2>2. CASE MainStep
    <3>1. CASE WaitTick \/ ProbePasses \/ ProbeFails \/ PathMissing \/ RoundEnds
      <4>1. CASE WaitTick
        BY <4>1 DEF WaitTick
      <4>2. CASE ProbePasses
        BY <4>2 DEF ProbePasses
      <4>3. CASE ProbeFails
        BY <4>3 DEF ProbeFails
      <4>4. CASE PathMissing
        BY <4>4 DEF PathMissing
      <4>5. CASE RoundEnds
        BY <4>5 DEF RoundEnds
      <4> QED
        BY <3>1, <4>1, <4>2, <4>3, <4>4, <4>5
    <3>2. CASE WaitInterrupted
      BY <3>2 DEF WaitInterrupted
    <3>3. CASE BootBegins
      BY <3>3 DEF BootBegins
    <3>4. CASE BootConfigFails
      BY <3>4 DEF BootConfigFails
    <3>5. CASE BootDone \/ BootCanceled \/ DrainDone \/ DrainTimeout
      BY <3>5 DEF BootDone, BootCanceled, DrainDone, DrainTimeout, BootReturns
    <3>6. CASE BootFails \/ DrainError
      BY <3>6 DEF BootFails, DrainError, BootReturns, TakeError
    <3>7. CASE RunStarts \/ RunReturns
      BY <3>7 DEF RunStarts, RunReturns
    <3> QED
      BY <2>2, <3>1, <3>2, <3>3, <3>4, <3>5, <3>6, <3>7 DEF MainStep
  <2>3. CASE Signal
    BY <2>3 DEF Signal
  <2>4. CASE FanOut
    <3>1. CASE FanOutReceives
      BY <3>1 DEF FanOutReceives
    <3>2. CASE FanOutSends("readiness", "probe")
      BY <3>2 DEF FanOutSends
    <3>3. CASE FanOutSends("probe", "proc")
      BY <3>3 DEF FanOutSends
    <3>4. CASE FanOutSends("proc", "recv")
      BY <3>4 DEF FanOutSends
    <3> QED
      BY <2>4, <3>1, <3>2, <3>3, <3>4 DEF FanOut
  <2>5. ASSUME NEW b \in Boots, BootStep(b) PROVE TypeOK'
    <3>1. CASE BootStarts(b)
      BY <3>1 DEF BootStarts, BootGoto
    <3>2. CASE BootStartFails(b) \/ BootExits(b) \/ BootTerminates(b)
      <4>1. \E to \in {"send", "done"} : boot' = [boot EXCEPT ![b] = to]
        BY <3>2 DEF BootStartFails, BootExits, BootTerminates, BootGoto, After
      <4>2. UNCHANGED <<main, waitVars, signalVars, booted, regular, proc, terms,
                        kills>>
        BY <3>2 DEF BootStartFails, BootExits, BootTerminates, BootGoto
      <4> QED
        BY <4>1, <4>2
    <3>3. CASE BootInterrupted(b)
      BY <3>3 DEF BootInterrupted, BootGoto
    <3>4. CASE BootKilled(b)
      BY <3>4 DEF BootKilled, BootGoto
    <3> QED
      BY <2>5, <3>1, <3>2, <3>3, <3>4 DEF BootStep
  <2>7. CASE ServerStops
    BY <2>7 DEF ServerStops
  <2>8. CASE ServerStopped
    BY <2>8 DEF ServerStopped
  <2>9. CASE Cancel
    BY <2>9 DEF Cancel
  <2>6. ASSUME NEW b \in Boots, Exit(b) PROVE TypeOK'
    BY <2>6 DEF Exit
  <2> QED
    BY <2>1, <2>2, <2>3, <2>4, <2>5, <2>6, <2>7, <2>8, <2>9 DEF Next
<1> QED
  BY <1>1, <1>2, PTL DEF Spec

-----------------------------------------------------------------------------
(* What Boot promises.                                                       *)

\* The goroutines of the boot jobs and Boot itself keep the invariant: an
\* error stays with its goroutine until Boot receives it, so that Boot cannot
\* see all of them done while one of them failed.
THEOREM BootSupervisionCorrect == Spec => []BootSupervision
<1>1. Init => BootSupervision
  BY DEF Init, BootSupervision, BootPhase, BootJobs
<1>2. TypeOK /\ BootSupervision /\ [Next]_vars => BootSupervision'
  <2> SUFFICES ASSUME TypeOK, BootSupervision, [Next]_vars
               PROVE  BootSupervision'
    OBVIOUS
  <2> USE DEF BootSupervision, BootPhase, BootJobs, AllDone, TypeOK,
          vars, waitVars, signalVars, bootVars
  <2>1. CASE UNCHANGED vars
    BY <2>1
  <2>2. CASE MainStep
    <3>1. CASE WaitTick \/ ProbePasses \/ ProbeFails \/ PathMissing \/ RoundEnds
      BY <3>1 DEF WaitTick, ProbePasses, ProbeFails, PathMissing, RoundEnds
    <3>2. CASE WaitInterrupted
      BY <3>2 DEF WaitInterrupted
    <3>3. CASE BootBegins
      BY <3>3 DEF BootBegins
    <3>4. CASE BootConfigFails
      BY <3>4 DEF BootConfigFails
    <3>5. CASE BootDone
      BY <3>5 DEF BootDone, BootReturns
    <3>6. CASE BootFails
      BY <3>6 DEF BootFails, BootReturns, TakeError
    <3>7. CASE BootCanceled
      BY <3>7 DEF BootCanceled
    <3>8. CASE DrainDone \/ DrainTimeout
      BY <3>8 DEF DrainDone, DrainTimeout, BootReturns
    <3>9. CASE DrainError
      BY <3>9 DEF DrainError, TakeError
    <3>10. CASE RunStarts \/ RunReturns
      BY <3>10 DEF RunStarts, RunReturns
    <3> QED
      BY <2>2, <3>1, <3>2, <3>3, <3>4, <3>5, <3>6, <3>7, <3>8, <3>9, <3>10
         DEF MainStep
  <2>3. CASE Signal \/ ServerStops \/ ServerStopped \/ Cancel
    BY <2>3 DEF Signal, ServerStops, ServerStopped, Cancel
  <2>4. CASE FanOut
    BY <2>4 DEF FanOut, FanOutReceives, FanOutSends
  <2>5. ASSUME NEW b \in Boots, BootStep(b) PROVE BootSupervision'
    <3>1. CASE BootStarts(b) \/ BootStartFails(b)
      BY <3>1 DEF BootStarts, BootStartFails, BootGoto, After
    <3>2. CASE BootExits(b) \/ BootTerminates(b)
      BY <3>2 DEF BootExits, BootTerminates, BootGoto, After
    <3>3. CASE BootInterrupted(b)
      BY <3>3 DEF BootInterrupted, BootGoto
    <3>4. CASE BootKilled(b)
      BY <3>4 DEF BootKilled, BootGoto
    <3> QED
      BY <2>5, <3>1, <3>2, <3>3, <3>4 DEF BootStep
  <2>6. ASSUME NEW b \in Boots, Exit(b) PROVE BootSupervision'
    BY <2>6 DEF Exit
  <2> QED
    BY <2>1, <2>2, <2>3, <2>4, <2>5, <2>6 DEF Next
<1> QED
  BY <1>1, <1>2, TypeCorrect, PTL DEF Spec

\* Boot reports success only if every boot job that may not fail and was not
\* killed has succeeded, and no process is left that was not killed.
THEOREM BootOkMeansBootedCorrect == Spec => []BootOkMeansBooted
<1>1. BootSupervision => BootOkMeansBooted
  BY DEF BootSupervision, BootPhase, BootJobs, BootOkMeansBooted, AllDone, Alive
<1> QED
  BY <1>1, BootSupervisionCorrect, PTL

\* After a cancellation Boot returns the context's error only when no process
\* is left that was not killed.
THEOREM CanceledBootIsCleanCorrect == Spec => []CanceledBootIsClean
<1>1. BootSupervision => CanceledBootIsClean
  BY DEF BootSupervision, BootPhase, BootJobs, CanceledBootIsClean, AllDone, Alive
<1> QED
  BY <1>1, BootSupervisionCorrect, PTL

-----------------------------------------------------------------------------
(* What the wait for the probes promises.                                    *)

\* A round begins with all probes and executes each of them once; the probe
\* with the missing path that makes Wait return is one that has not succeeded.
THEOREM WaitInvCorrect == Spec => []WaitInv
<1>1. Init => WaitInv
  BY DEF Init, WaitInv, OneRound, ReadyBeforeBoot
<1>2. TypeOK /\ WaitInv /\ [Next]_vars => WaitInv'
  <2> SUFFICES ASSUME TypeOK, WaitInv, [Next]_vars PROVE WaitInv'
    OBVIOUS
  <2> USE StartupAssumption
      DEF WaitInv, OneRound, ReadyBeforeBoot, TypeOK, vars, waitVars, signalVars,
          bootVars
  <2>1. CASE UNCHANGED vars
    BY <2>1
  <2>2. CASE MainStep
    <3>1. CASE WaitTick
      BY <3>1 DEF WaitTick
    <3>2. CASE ProbePasses
      BY <3>2 DEF ProbePasses
    <3>3. CASE ProbeFails
      BY <3>3 DEF ProbeFails
    <3>4. CASE PathMissing
      <4>1. PICK p \in todo \cap FileProbes : p \notin passed
        BY <3>4 DEF PathMissing
      <4> QED
        BY <3>4, <4>1 DEF PathMissing
    <3>5. CASE RoundEnds
      BY <3>5 DEF RoundEnds
    <3>6. CASE WaitInterrupted
      BY <3>6 DEF WaitInterrupted
    <3>7. CASE BootBegins \/ BootConfigFails
      BY <3>7 DEF BootBegins, BootConfigFails
    <3>8. CASE BootDone \/ BootFails \/ BootCanceled
      BY <3>8 DEF BootDone, BootFails, BootCanceled, BootReturns
    <3>9. CASE DrainDone \/ DrainError \/ DrainTimeout
      BY <3>9 DEF DrainDone, DrainError, DrainTimeout, BootReturns
    <3>10. CASE RunStarts \/ RunReturns
      BY <3>10 DEF RunStarts, RunReturns
    <3> QED
      BY <2>2, <3>1, <3>2, <3>3, <3>4, <3>5, <3>6, <3>7, <3>8, <3>9, <3>10
         DEF MainStep
  <2>3. CASE Signal \/ ServerStops \/ ServerStopped \/ Cancel
    BY <2>3 DEF Signal, ServerStops, ServerStopped, Cancel
  <2>4. CASE FanOut
    BY <2>4 DEF FanOut, FanOutReceives, FanOutSends
  <2>5. ASSUME NEW b \in Boots, BootStep(b) PROVE WaitInv'
    BY <2>5 DEF BootStep, BootStarts, BootStartFails, BootExits, BootInterrupted,
                BootTerminates, BootKilled, BootGoto
  <2>6. ASSUME NEW b \in Boots, Exit(b) PROVE WaitInv'
    BY <2>6 DEF Exit
  <2> QED
    BY <2>1, <2>2, <2>3, <2>4, <2>5, <2>6 DEF Next
<1> QED
  BY <1>1, <1>2, TypeCorrect, PTL DEF Spec

\* Nothing is started before a round in which all probes succeeded, unless one
\* that looks for a path did not.
THEOREM ReadyBeforeBootCorrect == Spec => []ReadyBeforeBoot
<1>1. WaitInv => ReadyBeforeBoot
  BY DEF WaitInv
<1> QED
  BY <1>1, WaitInvCorrect, PTL
=============================================================================
