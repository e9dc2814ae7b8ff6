----------------------------- MODULE PidFileProofs -----------------------------
(* Theorems about PidFile, for any number of process ids.                     *)
EXTENDS PidFile, TLAPS

-----------------------------------------------------------------------------
(* Type correctness.                                                         *)

\* Every variable of PidFile keeps its type.
THEOREM TypeCorrect == Spec => []TypeOK
<1>1. Init => TypeOK
  BY DEF Init, TypeOK
<1>2. TypeOK /\ [Next]_vars => TypeOK'
  <2> SUFFICES ASSUME TypeOK, [Next]_vars PROVE TypeOK'
    OBVIOUS
  <2> USE DEF TypeOK, Acquiring, vars
  <2>1. CASE UNCHANGED vars
    BY <2>1
  <2>2. ASSUME NEW p \in Pids, Begin(p) \/ Release(p) PROVE TypeOK'
    BY <2>2 DEF Begin, Release, Goto
  <2>3. ASSUME NEW p \in Pids, Exit(p) \/ Crash(p) \/ OtherStarts(p) \/ OtherEnds(p)
        PROVE  TypeOK'
    BY <2>3 DEF Exit, Crash, OtherStarts, OtherEnds
  <2>4. ASSUME NEW p \in Pids, Acquire(p) PROVE TypeOK'
    <3>1. CASE Creates(p) \/ Exists(p) \/ Writes(p) \/ WriteFails(p)
      BY <3>1 DEF Creates, Exists, Writes, WriteFails, Goto
    <3>2. CASE Reads(p)
      BY <3>2 DEF Reads, Content, Goto
    <3>3. CASE ReadFails(p) \/ ParseFails(p) \/ FindsAlive(p) \/ FindsDead(p)
      BY <3>3 DEF ReadFails, ParseFails, FindsAlive, FindsDead, Goto
    <3>4. CASE Removes(p) \/ RemoveFails(p)
      BY <3>4 DEF Removes, RemoveFails, Goto
    <3> QED
      BY <2>4, <3>1, <3>2, <3>3, <3>4 DEF Acquire
  <2> QED
    BY <2>1, <2>2, <2>3, <2>4 DEF Next
<1> QED
  BY <1>1, <1>2, PTL DEF Spec

-----------------------------------------------------------------------------
(* Mutual exclusion.                                                         *)

\* What the theorems below assume of the environment: instances acquire the
\* file one after the other, and may signal each other.
Orderly == ~Concurrent /\ Foreign = {}

\* The file always is that of the instance that holds it: an instance that is
\* about to remove it has seen it after the last one was written, and with a
\* pid that belonged to nobody.
THEOREM OneInstanceCorrect == Orderly => (Spec => []OneInstance)
<1> SUFFICES ASSUME Orderly PROVE Spec => []OneInstance
  OBVIOUS
<1> USE PidFileAssumption DEF Orderly
<1>1. Init => OneInstance
  BY DEF Init, OneInstance, OneAcquires, FileHasOwner, Acquiring
<1>2. TypeOK /\ OneInstance /\ [Next]_vars => OneInstance'
  <2> SUFFICES ASSUME TypeOK, OneInstance, [Next]_vars PROVE OneInstance'
    OBVIOUS
  <2> USE DEF TypeOK, OneInstance, OneAcquires, FileHasOwner, Acquiring, Holders,
          vars
  <2>1. CASE UNCHANGED vars
    BY <2>1
  <2>2. ASSUME NEW p \in Pids, Begin(p) PROVE OneInstance'
    BY <2>2 DEF Begin, Goto
  <2>3. ASSUME NEW p \in Pids, Release(p) PROVE OneInstance'
    BY <2>3 DEF Release, Goto
  <2>4. ASSUME NEW p \in Pids, Exit(p) \/ Crash(p) PROVE OneInstance'
    BY <2>4 DEF Exit, Crash
  <2>5. ASSUME NEW p \in Pids, OtherStarts(p) \/ OtherEnds(p) PROVE OneInstance'
    BY <2>5 DEF OtherStarts, OtherEnds
  <2>6. ASSUME NEW p \in Pids, Acquire(p) PROVE OneInstance'
    <3>1. CASE Creates(p)
      BY <3>1 DEF Creates, Goto
    <3>2. CASE Writes(p)
      BY <3>2 DEF Writes, Goto
    <3>3. CASE Reads(p)
      BY <3>3 DEF Reads, Content, Goto
    <3>4. CASE FindsDead(p)
      <4>1. \A q \in Pids : pc[q] # "held"
        BY <3>4 DEF FindsDead, Alive, Goto
      <4>2. \A q \in Pids : pc[q] # "write"
        BY <3>4 DEF FindsDead, Goto
      <4> QED
        BY <3>4, <4>1, <4>2 DEF FindsDead, Goto
    <3>5. CASE Exists(p) \/ WriteFails(p) \/ ReadFails(p) \/ ParseFails(p)
               \/ FindsAlive(p) \/ RemoveFails(p)
      BY <3>5 DEF Exists, WriteFails, ReadFails, ParseFails, FindsAlive,
                  RemoveFails, Goto
    <3>6. CASE Removes(p)
      BY <3>6 DEF Removes, Goto
    <3> QED
      BY <2>6, <3>1, <3>2, <3>3, <3>4, <3>5, <3>6 DEF Acquire
  <2> QED
    BY <2>1, <2>2, <2>3, <2>4, <2>5, <2>6 DEF Next
<1> QED
  BY <1>1, <1>2, TypeCorrect, PTL DEF Spec

\* Two instances never hold the file at the same time.
THEOREM OneHolderCorrect == Orderly => (Spec => []AtMostOneHolder)
<1> SUFFICES ASSUME Orderly PROVE Spec => []AtMostOneHolder
  OBVIOUS
<1>1. OneInstance => AtMostOneHolder
  BY DEF OneInstance, FileHasOwner, AtMostOneHolder, Holders
<1> QED
  BY <1>1, OneInstanceCorrect, PTL

\* The instance that holds the file is named in it.
THEOREM HolderIsNamedCorrect == Orderly => (Spec => []HolderIsNamed)
<1> SUFFICES ASSUME Orderly PROVE Spec => []HolderIsNamed
  OBVIOUS
<1>1. OneInstance => HolderIsNamed
  BY DEF OneInstance, FileHasOwner, HolderIsNamed, Holders
<1> QED
  BY <1>1, OneInstanceCorrect, PTL
=============================================================================
