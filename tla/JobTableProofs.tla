---------------------------- MODULE JobTableProofs ----------------------------
(* Theorems about JobTable, for every configuration, number of handlers and  *)
(* capacity, when no handler searches the slice during a tick.               *)
EXTENDS JobTable, FiniteSetTheorems, SequenceTheorems, WellFoundedInduction, TLAPS

-----------------------------------------------------------------------------
(* The inductive invariant behind TableIsComplete and ActsOnNamedJob.        *)

\* The objects that the runner supervises.
Own == First \X {"init"}

\* The slice holds each of them once, except the one that a tick has taken out.
Slice ==
  /\ \A i \in 1 .. len : arr[i] \in Own
  /\ \A i, j \in 1 .. len : NameOf(arr[i]) = NameOf(arr[j]) => i = j
  /\ IF runner = "add"
     THEN /\ len = Cardinality(First) - 1
          /\ {NameOf(o) : o \in InTable} = Names \ {NameOf(Head(todo))}
     ELSE /\ len = Cardinality(First)
          /\ {NameOf(o) : o \in InTable} = Names

Tasks ==
  /\ todo \in Seq(Own)
  /\ runner \in {"exec", "remove", "add", "start"} => todo # <<>>

\* What handler h has found out about the job it was asked for: none of the
\* elements before the present one has its name; only a lazy job has; or it has
\* an object, which is the runner's own if the name is not ambiguous.
Knows(h) ==
  /\ h.pc # "idle" => h.name \in Names
  /\ h.pc \in {"look", "take", "make", "check", "add"} => runner # "add"
  /\ h.pc = "look" => /\ h.n = len /\ h.i \in 1 .. len + 1
                      /\ \A j \in 1 .. h.i - 1 : NameOf(arr[j]) # h.name
  /\ h.pc = "take" => h.i \in 1 .. len /\ NameOf(arr[h.i]) = h.name
  /\ h.pc = "make" => \E e \in First : Config[e].name = h.name /\ Config[e].lazy
  /\ h.pc \in {"check", "add", "serve"} =>
       /\ h.job \in Objects /\ NameOf(h.job) = h.name
       /\ Ignitions(h.name) = {h.job[1]} /\ h.job[1] \in First =>
            h.job[2] = "init"

JobTableInv == TypeOK /\ Slice /\ Tasks /\ \A q \in Reqs : Knows(api[q])

-----------------------------------------------------------------------------
(* The configuration.                                                        *)

\* Every set of naturals has a least element.
LEMMA LeastNatural ==
  ASSUME NEW S \in SUBSET Nat, S # {}
  PROVE  \E m \in S : \A n \in S : m <= n
<1>1. \E R : IsWellFoundedOn(R, Nat) /\ \A x, y \in Nat : <<x, y>> \in R <=> x < y
  <2> DEFINE R == OpToRel(<, Nat)
  <2>1. \A x, y \in Nat : <<x, y>> \in R <=> x < y
    BY DEF OpToRel
  <2>2. IsWellFoundedOn(R, Nat)
    BY NatLessThanWellFounded
  <2> HIDE DEF R
  <2> QED
    BY <2>1, <2>2
<1>2. PICK R : IsWellFoundedOn(R, Nat) /\ \A x, y \in Nat : <<x, y>> \in R <=> x < y
  BY <1>1
<1>3. \A T : T \subseteq Nat /\ T # {} =>
        \E x \in T : \A y \in T : ~(<<y, x>> \in R)
  <2> SUFFICES ASSUME NEW T, T \subseteq Nat, T # {}
               PROVE  \E x \in T : \A y \in T : ~(<<y, x>> \in R)
    OBVIOUS
  <2>1. IsWellFoundedOn(R, Nat)
    BY <1>2
  <2> QED
    BY <2>1, WFMin
<1>4. PICK m \in S : \A n \in S : ~(<<n, m>> \in R)
  <2>1. S \subseteq Nat
    OBVIOUS
  <2> QED
    BY <1>3, <2>1
<1>5. ASSUME NEW n \in S PROVE m <= n
  <2>1. n \in Nat /\ m \in Nat /\ ~(<<n, m>> \in R)
    BY <1>4
  <2>2. ~(n < m)
    BY <1>2, <2>1
  <2> QED
    BY <2>1, <2>2
<1> QED
  BY <1>5

\* The list of a finite set of naturals has each of them once.
LEMMA AscendingLists ==
  ASSUME NEW S \in SUBSET Nat, IsFiniteSet(S), NEW f \in Ascending(S)
  PROVE  /\ Cardinality(S) \in Nat
         /\ f \in [1 .. Cardinality(S) -> S]
         /\ \A i, j \in 1 .. Cardinality(S) : f[i] = f[j] => i = j
         /\ \A e \in S : \E i \in 1 .. Cardinality(S) : f[i] = e
<1> DEFINE n == Cardinality(S)
<1>1. n \in Nat
  BY FS_CardinalityType
<1>2. f \in [1 .. n -> S] /\ \A i, j \in 1 .. n : i < j => f[i] < f[j]
  BY DEF Ascending
<1>3. ASSUME NEW i \in 1 .. n, NEW j \in 1 .. n, f[i] = f[j] PROVE i = j
  <2>0. f[i] \in S /\ f[j] \in S
    BY <1>2
  <2>1. i \in Nat /\ j \in Nat /\ f[i] \in Nat /\ f[j] \in Nat
    <3>1. i \in Nat /\ j \in Nat
      BY <1>1
    <3>2. S \subseteq Nat
      OBVIOUS
    <3> QED
      BY <2>0, <3>1, <3>2
  <2>2. ~(i < j) /\ ~(j < i)
    BY <1>2, <1>3, <2>1
  <2> QED
    BY <2>1, <2>2
<1>4. f \in Injection(1 .. n, S)
  BY <1>2, <1>3 DEF Injection, IsInjective
<1>5. Cardinality(1 .. n) = n
  BY <1>1, FS_Interval
<1>6. f \in Surjection(1 .. n, S)
  BY <1>4, <1>5, FS_Injection
<1> QED
  BY <1>1, <1>2, <1>3, <1>6 DEF Surjection

\* The entries of the configuration.
LEMMA EntryFacts ==
  /\ Len(Config) \in Nat /\ Entries = 1 .. Len(Config)
  /\ \A e \in Entries : Config[e].name \in Names
  /\ First \subseteq Entries /\ First \subseteq Nat
  /\ \A d, e \in First : Config[d].name = Config[e].name => d = e
<1>1. Len(Config) \in Nat /\ Entries = 1 .. Len(Config)
  BY JobTableAssumption DEF Entries
<1>2. ASSUME NEW d \in First, NEW e \in First, Config[d].name = Config[e].name,
             d < e
      PROVE  FALSE
  BY <1>1, <1>2 DEF First
<1>3. ASSUME NEW d \in First, NEW e \in First, Config[d].name = Config[e].name
      PROVE  d = e
  <2>1. d \in Nat /\ e \in Nat
    BY <1>1 DEF First
  <2>2. ~(d < e) /\ ~(e < d)
    BY <1>2, <1>3
  <2> QED
    BY <2>1, <2>2
<1> QED
  BY <1>1, <1>3 DEF First, Names

\* The entries that Runner.Init keeps have all the names, and there is room for
\* their jobs.
LEMMA FirstFacts ==
  /\ IsFiniteSet(First) /\ Cardinality(First) \in Nat
  /\ Cardinality(First) <= Room
  /\ \A name \in Names : \E e \in First : Config[e].name = name
<1>1. IsFiniteSet(Entries) /\ Cardinality(Entries) = Len(Config)
  <2>1. 1 \in Int /\ Len(Config) \in Int /\ Entries = 1 .. Len(Config)
        /\ Len(Config) >= 0
    BY EntryFacts
  <2>2. /\ IsFiniteSet(1 .. Len(Config))
        /\ Cardinality(1 .. Len(Config)) =
             IF 1 > Len(Config) THEN 0 ELSE Len(Config) - 1 + 1
    BY <2>1, FS_Interval
  <2> QED
    BY <2>1, <2>2
<1>2. IsFiniteSet(First) /\ Cardinality(First) <= Cardinality(Entries)
  BY <1>1, EntryFacts, FS_Subset
<1>3. Cardinality(First) \in Nat
  BY <1>2, FS_CardinalityType
<1>4. ASSUME NEW name \in Names PROVE \E e \in First : Config[e].name = name
  <2> DEFINE S == {e \in Entries : Config[e].name = name}
  <2>1. S \subseteq Nat /\ S # {}
    BY <1>4, EntryFacts DEF Names
  <2>2. PICK e \in S : \A d \in S : e <= d
    BY <2>1, LeastNatural
  <2>3. ASSUME NEW d \in 1 .. e - 1 PROVE Config[d].name # name
    <3>1. e \in Nat /\ d \in Nat /\ d < e /\ d \in Entries
      BY <2>2, <2>3, EntryFacts
    <3> QED
      BY <2>2, <3>1
  <2>4. e \in First
    BY <2>2, <2>3 DEF First
  <2> QED
    BY <2>2, <2>4
<1> QED
  BY <1>1, <1>2, <1>3, <1>4, EntryFacts, JobTableAssumption

\* An object is an entry and its maker.
LEMMA ObjectFacts ==
  /\ \A o \in Objects : o[1] \in Entries /\ o # Nil /\ NameOf(o) \in Names
  /\ \A o \in Own : o \in Objects /\ o[1] \in First /\ o[2] = "init"
  /\ \A e \in First : /\ <<e, "init">> \in Own /\ NameOf(<<e, "init">>) = Config[e].name
                      /\ <<e, "init">>[1] = e
  /\ \A e \in Entries, q \in Reqs : /\ <<e, q>> \in Objects
                                    /\ NameOf(<<e, q>>) = Config[e].name
                                    /\ <<e, q>>[1] = e
<1>1. \A o \in Objects : o[1] \in Entries /\ o # Nil /\ NameOf(o) \in Names
  BY JobTableAssumption, EntryFacts DEF Objects, NameOf
<1>2. \A o \in Own : o \in Objects /\ o[1] \in First /\ o[2] = "init"
  BY EntryFacts DEF Own, Objects
<1>3. \A e \in First : /\ <<e, "init">> \in Own
                       /\ NameOf(<<e, "init">>) = Config[e].name
                       /\ <<e, "init">>[1] = e
  BY DEF Own, NameOf
<1>4. \A e \in Entries, q \in Reqs : /\ <<e, q>> \in Objects
                                     /\ NameOf(<<e, q>>) = Config[e].name
                                     /\ <<e, q>>[1] = e
  BY DEF Objects, NameOf
<1> QED
  BY <1>1, <1>2, <1>3, <1>4

-----------------------------------------------------------------------------
(* The slice and the tasks of a tick.                                        *)

\* What a search of the slice finds: every name, unless a tick has taken the
\* job out.
LEMMA SliceFacts ==
  ASSUME SliceOK, Slice
  PROVE  /\ len \in Nat /\ len <= Room
         /\ \A i \in 1 .. len : /\ arr[i] \in Own /\ arr[i] \in Objects /\ arr[i] # Nil
                                /\ NameOf(arr[i]) \in Names
         /\ \A name : Named(name) = {i \in 1 .. len : NameOf(arr[i]) = name}
         /\ \A name : (\E i \in 1 .. len : NameOf(arr[i]) = name) <=>
                        name \in Names /\ (runner = "add" => name # NameOf(Head(todo)))
<1>1. len \in Nat /\ len <= Room
  BY JobTableAssumption DEF SliceOK
<1>2. ASSUME NEW i \in 1 .. len
      PROVE  /\ arr[i] \in Own /\ arr[i] \in Objects /\ arr[i] # Nil
             /\ NameOf(arr[i]) \in Names
  BY <1>2, ObjectFacts DEF Slice
<1>3. \A name : Named(name) = {i \in 1 .. len : NameOf(arr[i]) = name}
  BY <1>2 DEF Named
<1>4. \A name : (\E i \in 1 .. len : NameOf(arr[i]) = name) <=>
                  name \in {NameOf(o) : o \in InTable}
  BY DEF InTable
<1> QED
  BY <1>1, <1>2, <1>3, <1>4 DEF Slice

\* What the runner still has to start are its own jobs.
LEMMA TaskFacts ==
  ASSUME Tasks
  PROVE  /\ todo \in Seq(Objects)
         /\ runner \in {"exec", "remove", "add", "start"} =>
              /\ Head(todo) \in Own /\ Head(todo) \in Objects
              /\ Tail(todo) \in Seq(Own)
<1>1. Own \subseteq Objects
  BY ObjectFacts
<1>2. todo \in Seq(Own)
  BY DEF Tasks
<1>3. todo \in Seq(Objects)
  <2>1. \A i \in 1 .. Len(todo) : todo[i] \in Objects
    BY <1>1, <1>2
  <2> QED
    BY <1>2, <2>1
<1>4. todo # <<>> => Head(todo) \in Own /\ Tail(todo) \in Seq(Own)
  BY <1>2, HeadTailProperties
<1> QED
  BY <1>1, <1>3, <1>4 DEF Tasks

\* A job is started.
LEMMA StartJobTypes ==
  ASSUME JobsOK, NEW o \in Objects, StartJob(o)
  PROVE  JobsOK'
BY DEF JobsOK, StartJob

\* The goroutine of Run goes on without touching the slice.
LEMMA RunnerMoves ==
  ASSUME JobTableInv, UNCHANGED <<tableVars, api>>, JobsOK', over' \in BOOLEAN,
         runner # "add", runner' \in {"boot", "exec", "select", "remove", "start"},
         Tasks'
  PROVE  JobTableInv'
<1> USE DEF JobTableInv, TypeOK, tableVars
<1>1. SliceOK' /\ api' \in [Reqs -> Handlers]
  BY DEF SliceOK
<1>2. RunnerOK'
  <2>1. Own \subseteq Objects /\ todo' \in Seq(Own)
    BY ObjectFacts DEF Tasks
  <2>2. todo' \in Seq(Objects)
    <3>1. \A i \in 1 .. Len(todo') : todo'[i] \in Objects
      BY <2>1
    <3> QED
      BY <2>1, <3>1
  <2> QED
    BY <2>2 DEF RunnerOK
<1>3. Slice'
  BY DEF Slice, InTable
<1>4. \A q \in Reqs : Knows(api[q])'
  BY DEF Knows
<1> QED
  BY <1>1, <1>2, <1>3, <1>4

\* A handler goes on without touching the slice.
LEMMA HandlerMoves ==
  ASSUME JobTableInv, UNCHANGED <<tableVars, runner, todo, over>>, JobsOK',
         NEW q \in Reqs, NEW h \in Handlers, Knows(h), api' = [api EXCEPT ![q] = h]
  PROVE  JobTableInv'
<1> USE DEF JobTableInv, TypeOK, tableVars
<1>1. SliceOK' /\ RunnerOK' /\ Tasks' /\ api' \in [Reqs -> Handlers]
  BY DEF SliceOK, RunnerOK, Tasks
<1>2. Slice'
  BY DEF Slice, InTable
<1>3. ASSUME NEW r \in Reqs PROVE Knows(api[r])'
  <2>1. api'[r] = IF r = q THEN h ELSE api[r]
    BY <1>1
  <2>2. Knows(api'[r])
    BY <2>1
  <2> QED
    BY <2>2 DEF Knows
<1> QED
  BY <1>1, <1>2, <1>3

\* tick takes a job out: the last one takes its place, and no other is lost.
LEMMA RemovesKeeps ==
  ASSUME JobTableInv, ~Overlap, Removes
  PROVE  JobTableInv'
<1> USE DEF JobTableInv, TypeOK
<1> DEFINE n == NameOf(Head(todo))
<1>1. /\ runner = "remove" /\ runner' = "add"
      /\ UNCHANGED <<jobVars, todo, over, api>>
      /\ \A q \in Reqs : api[q].pc \in {"idle", "serve"}
  BY DEF Removes, Undisturbed
<1>2. n \in Names
  BY <1>1, TaskFacts, ObjectFacts
<1>3. PICK i \in 1 .. len :
        /\ NameOf(arr[i]) = n
        /\ arr' = [[arr EXCEPT ![i] = arr[len]] EXCEPT ![len] = Nil]
        /\ len' = len - 1
  <2> DEFINE at == Named(n)
             i == CHOOSE k \in at : \A j \in at : k <= j
  <2>1. at # {} /\ at \subseteq Nat
    <3>1. \E k \in 1 .. len : NameOf(arr[k]) = n
      BY <1>1, <1>2, SliceFacts
    <3>2. at = {k \in 1 .. len : NameOf(arr[k]) = n} /\ len \in Nat
      BY SliceFacts
    <3> QED
      BY <3>1, <3>2
  <2>2. PICK k \in at : \A j \in at : k <= j
    BY <2>1, LeastNatural
  <2>3. i \in at
    BY <2>2
  <2>4. i \in 1 .. len /\ NameOf(arr[i]) = n
    BY <2>3, SliceFacts
  <2>5. /\ arr' = [[arr EXCEPT ![i] = arr[len]] EXCEPT ![len] = Nil]
        /\ len' = len - 1
    BY <2>1 DEF Removes
  <2> QED
    BY <2>4, <2>5
<1>4. len \in Nat /\ len <= Room /\ Room \in Nat /\ len >= 1
  BY <1>3, SliceFacts, JobTableAssumption
<1>5. \A j \in 1 .. len' : /\ arr'[j] = IF j = i THEN arr[len] ELSE arr[j]
                           /\ j \in 1 .. len /\ len \in 1 .. len /\ j # len
  BY <1>3, <1>4 DEF SliceOK
<1>6. SliceOK'
  <2>1. arr[len] \in Objects \cup {Nil}
    BY <1>4 DEF SliceOK
  <2> QED
    BY <1>3, <1>4, <2>1 DEF SliceOK
<1>7. Slice'
  <2>1. \A j \in 1 .. len' : arr'[j] \in Own
    BY <1>5, SliceFacts
  <2>2. \A j, k \in 1 .. len' : NameOf(arr'[j]) = NameOf(arr'[k]) => j = k
    <3>1. \A j, k \in 1 .. len : NameOf(arr[j]) = NameOf(arr[k]) => j = k
      BY DEF Slice
    <3> QED
      BY <1>5, <3>1
  <2>3. len' = Cardinality(First) - 1
    BY <1>1, <1>3 DEF Slice
  <2>4. {NameOf(o) : o \in InTable'} = Names \ {n}
    <3>1. ASSUME NEW j \in 1 .. len' PROVE NameOf(arr'[j]) \in Names \ {n}
      <4>1. PICK k \in 1 .. len : k # i /\ arr'[j] = arr[k]
        BY <1>5
      <4> QED
        BY <1>3, <4>1, SliceFacts DEF Slice
    <3>2. ASSUME NEW m \in Names \ {n} PROVE \E j \in 1 .. len' : NameOf(arr'[j]) = m
      <4>1. PICK k \in 1 .. len : NameOf(arr[k]) = m
        BY <1>1, SliceFacts
      <4>2. k # i
        BY <1>3, <4>1
      <4>3. CASE k = len
        <5>1. i \in 1 .. len'
          BY <1>3, <1>4, <4>2, <4>3
        <5> QED
          BY <1>5, <4>1, <4>3, <5>1
      <4>4. CASE k # len
        <5>1. k \in 1 .. len'
          BY <1>3, <1>4, <4>4
        <5> QED
          BY <1>5, <4>1, <4>2, <5>1
      <4> QED
        BY <4>3, <4>4
    <3> QED
      BY <3>1, <3>2 DEF InTable
  <2> QED
    BY <1>1, <2>1, <2>2, <2>3, <2>4 DEF Slice
<1>8. JobsOK' /\ RunnerOK' /\ Tasks' /\ api' \in [Reqs -> Handlers]
  BY <1>1 DEF JobsOK, RunnerOK, Tasks, jobVars
<1>9. \A q \in Reqs : Knows(api[q])'
  BY <1>1 DEF Knows
<1> QED
  BY <1>6, <1>7, <1>8, <1>9

\* tick puts the job back.
LEMMA AddsKeeps ==
  ASSUME JobTableInv, Adds
  PROVE  JobTableInv'
<1> USE DEF JobTableInv, TypeOK
<1> DEFINE o == Head(todo)
<1>1. /\ runner = "add" /\ runner' = "start"
      /\ UNCHANGED <<jobVars, todo, over, api>>
      /\ \A q \in Reqs : api[q].pc \notin {"look", "take", "make", "check", "add"}
  BY DEF Adds, Knows
<1>2. o \in Own /\ o \in Objects
  BY <1>1, TaskFacts
<1>3. Named(NameOf(o)) = {}
  BY <1>1, SliceFacts
<1>4. len' = len + 1 /\ arr' = [arr EXCEPT ![len + 1] = o]
  BY <1>3 DEF Adds, AddIfNotExists
<1>5. /\ len \in Nat /\ len + 1 = Cardinality(First) /\ len + 1 \in 1 .. Room
      /\ Room \in Nat
  <2>1. len \in Nat /\ len = Cardinality(First) - 1
    BY <1>1, SliceFacts DEF Slice
  <2>2. \A c : c \in Nat /\ c <= Room /\ len = c - 1 /\ Room \in Nat =>
          len + 1 = c /\ len + 1 \in 1 .. Room
    BY <2>1
  <2> QED
    BY <2>1, <2>2, FirstFacts, JobTableAssumption
<1>6. SliceOK'
  BY <1>2, <1>4, <1>5 DEF SliceOK
<1>7. \A j \in 1 .. len' : \/ j \in 1 .. len /\ arr'[j] = arr[j]
                           \/ j = len + 1 /\ arr'[j] = o
  BY <1>4, <1>5 DEF SliceOK
<1>8. Slice'
  <2>1. \A j \in 1 .. len' : arr'[j] \in Own
    BY <1>2, <1>7, SliceFacts
  <2>2. \A j \in 1 .. len : NameOf(arr[j]) # NameOf(o)
    BY <1>1, SliceFacts
  <2>3. \A j, k \in 1 .. len' : NameOf(arr'[j]) = NameOf(arr'[k]) => j = k
    BY <1>7, <2>2 DEF Slice
  <2>4. {NameOf(p) : p \in InTable'} = Names
    <3>1. \A j \in 1 .. len' : NameOf(arr'[j]) \in Names
      BY <1>2, <1>7, SliceFacts, ObjectFacts
    <3>2. ASSUME NEW m \in Names PROVE \E j \in 1 .. len' : NameOf(arr'[j]) = m
      <4>1. CASE m = NameOf(o)
        BY <1>4, <1>5, <1>7, <4>1
      <4>2. CASE m # NameOf(o)
        <5>1. PICK k \in 1 .. len : NameOf(arr[k]) = m
          BY <4>2, SliceFacts
        <5> QED
          BY <1>4, <1>5, <1>7, <5>1
      <4> QED
        BY <4>1, <4>2
    <3> QED
      BY <3>1, <3>2 DEF InTable
  <2> QED
    BY <1>1, <1>4, <1>5, <2>1, <2>3, <2>4 DEF Slice
<1>9. JobsOK' /\ RunnerOK' /\ Tasks' /\ api' \in [Reqs -> Handlers]
  BY <1>1 DEF JobsOK, RunnerOK, Tasks, jobVars
<1>10. \A q \in Reqs : Knows(api[q])'
  BY <1>1 DEF Knows
<1> QED
  BY <1>6, <1>8, <1>9, <1>10

\* The other steps of the goroutine of Run, and the end of a job.
LEMMA RunnerKeeps ==
  ASSUME JobTableInv, ~Overlap, RunnerStep \/ \E o \in Objects : Ends(o)
  PROVE  JobTableInv'
<1> USE DEF JobTableInv, TypeOK, RunnerOK
<1>1. CASE Exec
  <2>1. Jobs \in Seq(Own)
    BY SliceFacts DEF Jobs
  <2> QED
    BY <1>1, <2>1, RunnerMoves DEF Exec, Tasks, JobsOK, jobVars
<1>2. CASE ExecStarts \/ Starts
  <2>1. /\ runner \in {"exec", "start"} /\ StartJob(Head(todo)) /\ todo' = Tail(todo)
        /\ runner' \in {"exec", "select", "remove"}
        /\ runner' # "select" => todo' # <<>>
        /\ UNCHANGED <<tableVars, over, api>>
    BY <1>2 DEF ExecStarts, Starts
  <2>2. JobsOK'
    BY <2>1, TaskFacts, StartJobTypes
  <2>3. Tasks'
    BY <2>1, TaskFacts DEF Tasks
  <2> QED
    BY <2>1, <2>2, <2>3, RunnerMoves
<1>3. CASE Tick
  <2> DEFINE S == {i \in 1 .. len : Restartable(arr[i])}
  <2>1. PICK at \in Ascending(S) : todo' = [j \in DOMAIN at |-> arr[at[j]]]
    BY <1>3 DEF Tick
  <2>2. S \in SUBSET Nat /\ IsFiniteSet(S)
    <3>1. IsFiniteSet(1 .. len)
      BY SliceFacts, FS_Interval
    <3>2. S \subseteq 1 .. len /\ S \subseteq Nat
      BY SliceFacts
    <3> QED
      BY <3>1, <3>2, FS_Subset
  <2>3. Cardinality(S) \in Nat /\ at \in [1 .. Cardinality(S) -> S]
    BY <2>1, <2>2, AscendingLists
  <2>4. todo' \in Seq(Own)
    <3>1. DOMAIN at = 1 .. Cardinality(S)
      BY <2>3
    <3>2. \A j \in 1 .. Cardinality(S) : arr[at[j]] \in Own
      <4>1. \A i \in S : arr[i] \in Own
        BY SliceFacts
      <4> QED
        BY <2>3, <4>1
    <3> HIDE DEF S
    <3> QED
      BY <2>1, <2>3, <3>1, <3>2
  <2>5. Tasks'
    BY <1>3, <2>4 DEF Tick, Tasks
  <2> QED
    BY <1>3, <2>5, RunnerMoves DEF Tick, JobsOK, jobVars
<1>4. CASE JobError
  <2>1. JobsOK'
    BY <1>4 DEF JobError, JobsOK
  <2> QED
    BY <1>4, <2>1, RunnerMoves DEF JobError, Tasks
<1>5. ASSUME NEW o \in Objects, Ends(o) PROVE JobTableInv'
  <2>1. JobsOK'
    BY <1>5 DEF Ends, JobsOK
  <2>2. CASE runner # "add"
    BY <1>5, <2>1, <2>2, RunnerMoves DEF Ends, Tasks
  <2>3. /\ SliceOK' /\ RunnerOK' /\ Tasks' /\ api' \in [Reqs -> Handlers]
        /\ \A q \in Reqs : Knows(api[q])'
    BY <1>5 DEF Ends, SliceOK, Tasks, Knows, tableVars
  <2>4. Slice'
    BY <1>5 DEF Ends, Slice, InTable, tableVars
  <2> QED
    BY <2>1, <2>3, <2>4
<1> QED
  BY <1>1, <1>2, <1>3, <1>4, <1>5, RemovesKeeps, AddsKeeps DEF RunnerStep

-----------------------------------------------------------------------------
(* The handlers.                                                             *)

\* A slot without a request knows nothing.
LEMMA FreeFacts == Free \in Handlers /\ Knows(Free)
<1>1. Free \in Handlers
  BY JobTableAssumption DEF Free, Handlers
<1>2. Free.pc = "idle"
  BY DEF Free
<1> QED
  BY <1>1, <1>2 DEF Knows

\* A handler that only changes itself.
LEMMA MovesKeeps ==
  ASSUME JobTableInv, NEW q \in Reqs, NEW h \in Handlers, Knows(h), Moves(q, h)
  PROVE  JobTableInv'
<1>1. JobsOK'
  BY DEF JobTableInv, TypeOK, JobsOK, Moves, jobVars
<1> QED
  BY <1>1, HandlerMoves DEF Moves

\* A request arrives while no tick has taken a job out.
LEMMA AsksKeeps ==
  ASSUME JobTableInv, ~Overlap, NEW q \in Reqs, Asks(q)
  PROVE  JobTableInv'
<1>1. PICK name \in Names, op \in Ops :
        Moves(q, [Free EXCEPT !.pc = "look", !.op = op, !.name = name,
                              !.n = len, !.i = 1])
  BY DEF Asks
<1> DEFINE h == [Free EXCEPT !.pc = "look", !.op = op, !.name = name,
                             !.n = len, !.i = 1]
<1>2. /\ h.pc = "look" /\ h.op = op /\ h.name = name /\ h.n = len /\ h.i = 1
      /\ h.job = Nil
  BY DEF Free
<1>3. len \in 0 .. Room /\ 1 \in 0 .. Room + 1 /\ 1 \in 1 .. len + 1
  BY JobTableAssumption DEF JobTableInv, TypeOK, SliceOK
<1>4. h \in Handlers
  BY <1>3 DEF Free, Handlers
<1>5. runner # "add"
  BY DEF Asks
<1> HIDE DEF h
<1>6. Knows(h)
  BY <1>2, <1>3, <1>5 DEF Knows
<1>7. Moves(q, h)
  BY <1>1 DEF h
<1> QED
  BY <1>4, <1>6, <1>7, MovesKeeps

\* An element is looked at.  Since every name is in the slice, a search never
\* runs past its end.
LEMMA LooksKeeps ==
  ASSUME JobTableInv, NEW q \in Reqs, Looks(q)
  PROVE  JobTableInv'
<1> USE DEF JobTableInv, TypeOK
<1> DEFINE h == api[q]
<1>1. /\ h \in Handlers /\ h.pc = "look" /\ h.name \in Names /\ h.n = len
      /\ h.i \in 1 .. len + 1 /\ runner # "add"
      /\ \A j \in 1 .. h.i - 1 : NameOf(arr[j]) # h.name
  BY DEF Looks, Knows
<1>2. len \in Nat /\ len <= Room /\ Room \in Nat
  BY SliceFacts, JobTableAssumption
<1>3. h.i \in 1 .. len /\ arr[h.i] # Nil
  <2>1. PICK k \in 1 .. len : NameOf(arr[k]) = h.name
    BY <1>1, SliceFacts
  <2>2. ~(k \in 1 .. h.i - 1)
    BY <1>1, <2>1
  <2>3. h.i \in 1 .. len
    BY <1>1, <1>2, <2>2
  <2> QED
    BY <2>3, SliceFacts
<1>4. CASE NameOf(arr[h.i]) = h.name
  <2> DEFINE g == [h EXCEPT !.pc = "take"]
  <2>1. Moves(q, g)
    BY <1>1, <1>2, <1>3, <1>4 DEF Looks
  <2>2. g \in Handlers /\ g.pc = "take" /\ g.i = h.i /\ g.name = h.name
    BY <1>1 DEF Handlers
  <2> HIDE DEF g
  <2>3. Knows(g)
    BY <1>1, <1>3, <1>4, <2>2 DEF Knows
  <2> QED
    BY <2>1, <2>2, <2>3, MovesKeeps
<1>5. CASE NameOf(arr[h.i]) # h.name
  <2> DEFINE g == [h EXCEPT !.i = h.i + 1]
  <2>1. Moves(q, g)
    BY <1>1, <1>2, <1>3, <1>5 DEF Looks
  <2>2. h.i + 1 \in 1 .. len + 1 /\ h.i + 1 \in 0 .. Room + 1 /\ h.i \in Nat
    BY <1>2, <1>3
  <2>3. /\ g \in Handlers /\ g.pc = "look" /\ g.i = h.i + 1 /\ g.name = h.name
        /\ g.n = h.n
    BY <1>1, <2>2 DEF Handlers
  <2>4. \A j \in 1 .. h.i + 1 - 1 : NameOf(arr[j]) # h.name
    <3>1. \A j \in 1 .. h.i + 1 - 1 : j \in 1 .. h.i - 1 \/ j = h.i
      BY <2>2
    <3> QED
      BY <1>1, <1>5, <3>1
  <2> HIDE DEF g
  <2>5. Knows(g)
    BY <1>1, <2>2, <2>3, <2>4 DEF Knows
  <2> QED
    BY <2>1, <2>3, <2>5, MovesKeeps
<1> QED
  BY <1>4, <1>5

\* The element that was found is taken, unless it is lazy.
LEMMA TakesKeeps ==
  ASSUME JobTableInv, NEW q \in Reqs, Takes(q)
  PROVE  JobTableInv'
<1> USE DEF JobTableInv, TypeOK
<1> DEFINE h == api[q]
<1>1. /\ h \in Handlers /\ h.pc = "take" /\ h.name \in Names /\ runner # "add"
      /\ h.i \in 1 .. len /\ NameOf(arr[h.i]) = h.name
  BY DEF Takes, Knows
<1>2. /\ arr[h.i] \in Objects /\ arr[h.i][1] \in First /\ arr[h.i][2] = "init"
      /\ ~(h.i > len)
  BY <1>1, SliceFacts, ObjectFacts
<1>3. CASE IsLazy(arr[h.i])
  <2> DEFINE g == [h EXCEPT !.pc = "make"]
  <2>1. Moves(q, g)
    BY <1>2, <1>3 DEF Takes
  <2>2. g \in Handlers /\ g.pc = "make" /\ g.name = h.name
    BY <1>1 DEF Handlers
  <2> HIDE DEF g
  <2>3. Knows(g)
    BY <1>1, <1>2, <1>3, <2>2 DEF Knows, IsLazy, NameOf
  <2> QED
    BY <2>1, <2>2, <2>3, MovesKeeps
<1>4. CASE ~IsLazy(arr[h.i])
  <2> DEFINE g == [h EXCEPT !.pc = "check", !.job = arr[h.i]]
  <2>1. Moves(q, g)
    BY <1>2, <1>4 DEF Takes
  <2>2. g \in Handlers /\ g.pc = "check" /\ g.name = h.name /\ g.job = arr[h.i]
    BY <1>1, <1>2 DEF Handlers
  <2> HIDE DEF g
  <2>3. Knows(g)
    BY <1>1, <1>2, <2>2 DEF Knows
  <2> QED
    BY <2>1, <2>2, <2>3, MovesKeeps
<1> QED
  BY <1>3, <1>4

\* A new object is made only where the first entry of the name is lazy, so it
\* never is a second object of an entry that the runner has.
LEMMA MakesKeeps ==
  ASSUME JobTableInv, NEW q \in Reqs, Makes(q)
  PROVE  JobTableInv'
<1> USE DEF JobTableInv, TypeOK
<1> DEFINE h == api[q]
           es == Ignitions(h.name)
           e == CHOOSE e \in es : \A d \in es : e <= d
<1>1. h \in Handlers /\ h.pc = "make" /\ h.name \in Names /\ runner # "add"
  BY DEF Makes, Knows
<1>2. PICK f \in First : Config[f].name = h.name /\ Config[f].lazy
  BY <1>1 DEF Knows
<1>3. CASE es = {}
  BY <1>3, FreeFacts, MovesKeeps DEF Makes
<1>4. CASE es # {}
  <2> DEFINE g == [h EXCEPT !.pc = "check", !.job = <<e, q>>]
  <2>1. Moves(q, g)
    BY <1>4 DEF Makes
  <2>2. e \in es /\ e \in Entries /\ Config[e].name = h.name /\ ~Config[e].lazy
    <3>1. es \subseteq Nat /\ es \subseteq Entries
      BY EntryFacts DEF Ignitions
    <3>2. PICK m \in es : \A d \in es : m <= d
      BY <1>4, <3>1, LeastNatural
    <3>3. e \in es
      BY <3>2
    <3> QED
      BY <3>1, <3>3 DEF Ignitions
  <2> HIDE DEF e
  <2>3. <<e, q>> \in Objects /\ NameOf(<<e, q>>) = h.name /\ <<e, q>>[1] = e
    BY <2>2, ObjectFacts
  <2>4. g \in Handlers /\ g.pc = "check" /\ g.name = h.name /\ g.job = <<e, q>>
    BY <1>1, <2>3 DEF Handlers
  <2>5. e \notin First
    BY <1>2, <2>2, EntryFacts
  <2> HIDE DEF g
  <2>6. Knows(g)
    BY <1>1, <2>3, <2>4, <2>5 DEF Knows
  <2> QED
    BY <2>1, <2>4, <2>6, MovesKeeps
<1> QED
  BY <1>3, <1>4

\* The job is checked, added if it is not there, and served.
LEMMA ServesKeeps ==
  ASSUME JobTableInv, NEW q \in Reqs, Checks(q) \/ HandlerAdds(q) \/ Serves(q)
  PROVE  JobTableInv'
<1> USE DEF JobTableInv, TypeOK
<1> DEFINE h == api[q]
<1>1. /\ h \in Handlers /\ h.pc \in {"check", "add", "serve"} /\ h.name \in Names
      /\ h.pc # "serve" => runner # "add"
      /\ h.job \in Objects /\ NameOf(h.job) = h.name
      /\ Ignitions(h.name) = {h.job[1]} /\ h.job[1] \in First => h.job[2] = "init"
  BY DEF Checks, HandlerAdds, Serves, Knows
<1>2. ASSUME NEW pc \in {"add", "serve"}, pc = "add" => runner # "add",
             NEW g, g = [h EXCEPT !.pc = pc]
      PROVE  g \in Handlers /\ Knows(g)
  <2>1. g \in Handlers /\ g.pc = pc /\ g.name = h.name /\ g.job = h.job
    BY <1>1, <1>2 DEF Handlers
  <2> QED
    BY <1>1, <1>2, <2>1 DEF Knows
<1>3. CASE Checks(q)
  <2>1. CASE Moves(q, Free)
    BY <2>1, FreeFacts, MovesKeeps
  <2>2. CASE Moves(q, [h EXCEPT !.pc = "add"])
    <3>1. runner # "add"
      BY <1>1, <1>3 DEF Checks
    <3> QED
      BY <1>2, <2>2, <3>1, MovesKeeps
  <2> QED
    BY <1>3, <2>1, <2>2 DEF Checks
<1>4. CASE HandlerAdds(q)
  <2>1. h.pc = "add" /\ runner # "add"
    BY <1>1, <1>4 DEF HandlerAdds
  <2>2. Named(h.name) # {}
    <3>1. \E i \in 1 .. len : NameOf(arr[i]) = h.name
      BY <1>1, <2>1, SliceFacts
    <3> QED
      BY <3>1, SliceFacts
  <2>3. /\ UNCHANGED <<tableVars, jobVars, runner, todo, over>>
        /\ api' = [api EXCEPT ![q] = [h EXCEPT !.pc = "serve"]]
    BY <1>1, <1>4, <2>2 DEF HandlerAdds, AddIfNotExists
  <2>4. Moves(q, [h EXCEPT !.pc = "serve"])
    BY <2>3 DEF Moves
  <2> QED
    BY <1>2, <2>4, MovesKeeps
<1>5. CASE Serves(q)
  <2>1. JobsOK'
    <3>1. CASE StartJob(h.job)
      BY <1>1, <3>1, StartJobTypes
    <3>2. CASE /\ up' = up \ {h.job} /\ h.job \notin failing
               /\ phase' = [phase EXCEPT ![h.job] = "stopped"]
               /\ UNCHANGED failing
      BY <3>2 DEF JobsOK
    <3>3. CASE UNCHANGED jobVars
      BY <3>3 DEF JobsOK, jobVars
    <3> QED
      BY <1>5, <3>1, <3>2, <3>3 DEF Serves
  <2> QED
    BY <1>5, <2>1, FreeFacts, HandlerMoves DEF Serves
<1> QED
  BY <1>3, <1>4, <1>5

-----------------------------------------------------------------------------
(* The theorems.                                                             *)

\* Runner.Init has added the first job of every name.
LEMMA JobTableInvInit == Init => JobTableInv
<1> SUFFICES ASSUME Init PROVE JobTableInv
  OBVIOUS
<1>1. PICK kept \in Ascending(First) :
        arr = [i \in 1 .. Room |-> IF i <= len THEN <<kept[i], "init">> ELSE Nil]
  BY DEF Init
<1>2. len = Cardinality(First) /\ len \in Nat /\ len <= Room /\ Room \in Nat
  BY FirstFacts, JobTableAssumption DEF Init
<1>3. /\ \A i \in 1 .. len : kept[i] \in First
      /\ \A i, j \in 1 .. len : kept[i] = kept[j] => i = j
      /\ \A e \in First : \E i \in 1 .. len : kept[i] = e
  BY <1>1, <1>2, AscendingLists, FirstFacts, EntryFacts
<1>4. \A i \in 1 .. len : /\ arr[i] = <<kept[i], "init">> /\ arr[i] \in Own
                          /\ arr[i] \in Objects
                          /\ NameOf(arr[i]) = Config[kept[i]].name
                          /\ NameOf(arr[i]) \in Names
  <2>1. \A i \in 1 .. len : arr[i] = <<kept[i], "init">>
    BY <1>1, <1>2
  <2>2. ASSUME NEW i \in 1 .. len
        PROVE  /\ arr[i] \in Own /\ arr[i] \in Objects
               /\ NameOf(arr[i]) = Config[kept[i]].name
               /\ NameOf(arr[i]) \in Names
    <3>1. kept[i] \in First /\ arr[i] = <<kept[i], "init">>
      BY <1>3, <2>1
    <3>2. arr[i] \in Own /\ NameOf(arr[i]) = Config[kept[i]].name
      BY <3>1, ObjectFacts
    <3> QED
      BY <3>2, ObjectFacts
  <2> QED
    BY <2>1, <2>2
<1>5. SliceOK
  <2>1. \A i \in 1 .. Room : ~(i <= len) => arr[i] = Nil
    BY <1>1
  <2>2. \A i \in 1 .. Room : i <= len => i \in 1 .. len
    BY <1>2
  <2>3. \A i \in 1 .. Room : arr[i] \in Objects \cup {Nil}
    BY <1>4, <2>1, <2>2
  <2>4. arr = [i \in 1 .. Room |-> arr[i]]
    BY <1>1
  <2>5. arr \in [1 .. Room -> Objects \cup {Nil}]
    BY <2>3, <2>4
  <2> QED
    BY <1>2, <2>5 DEF SliceOK
<1>6. Slice
  <2>1. \A i, j \in 1 .. len : NameOf(arr[i]) = NameOf(arr[j]) => i = j
    BY <1>3, <1>4, EntryFacts
  <2>2. {NameOf(o) : o \in InTable} = Names
    <3>1. ASSUME NEW name \in Names PROVE \E i \in 1 .. len : NameOf(arr[i]) = name
      <4>1. PICK e \in First : Config[e].name = name
        BY FirstFacts
      <4> QED
        BY <1>3, <1>4, <4>1
    <3> QED
      BY <1>4, <3>1 DEF InTable
  <2> QED
    BY <1>2, <1>4, <2>1, <2>2 DEF Init, Slice
<1>7. JobsOK /\ RunnerOK /\ Tasks
  <2>1. phase \in [Objects -> {"awaitingReadiness"}] /\ up = {} /\ failing = {}
    BY DEF Init
  <2>2. JobsOK
    BY <2>1 DEF JobsOK
  <2>3. runner = "boot" /\ todo = <<>> /\ over = FALSE
    BY DEF Init
  <2>4. RunnerOK /\ Tasks
    <3>1. \A S : <<>> \in Seq(S)
      OBVIOUS
    <3>2. todo \in Seq(Objects) /\ todo \in Seq(Own)
      BY <2>3, <3>1
    <3> QED
      BY <2>3, <3>2 DEF RunnerOK, Tasks
  <2> QED
    BY <2>2, <2>4
<1>8. api \in [Reqs -> Handlers] /\ \A q \in Reqs : Knows(api[q])
  BY FreeFacts DEF Init
<1> QED
  BY <1>5, <1>6, <1>7, <1>8 DEF JobTableInv, TypeOK

\* The invariant is inductive.
LEMMA JobTableInvStep ==
  ASSUME JobTableInv, ~Overlap, [Next]_vars
  PROVE  JobTableInv'
<1>1. ASSUME NEW q \in Reqs, Asks(q) \/ HandlerStep(q) PROVE JobTableInv'
  BY <1>1, AsksKeeps, LooksKeeps, TakesKeeps, MakesKeeps, ServesKeeps
  DEF HandlerStep
<1>2. CASE UNCHANGED vars
  <2>1. Slice' /\ Tasks' /\ \A q \in Reqs : Knows(api[q])'
    BY <1>2 DEF JobTableInv, Slice, InTable, Tasks, Knows, vars, tableVars
  <2> QED
    BY <1>2, <2>1 DEF JobTableInv, TypeOK, SliceOK, JobsOK, RunnerOK, vars, tableVars,
       jobVars
<1> QED
  BY <1>1, <1>2, RunnerKeeps DEF Next

\* The inductive invariant of the slice of jobs: what is in it between and during
\* ticks, and what a handler may rely on while it searches it, provided that
\* no search overlaps a tick.
THEOREM JobTableInvCorrect == ~Overlap => (Spec => []JobTableInv)
<1> SUFFICES ASSUME ~Overlap PROVE Spec => []JobTableInv
  OBVIOUS
<1>1. Init => JobTableInv
  BY JobTableInvInit
<1>2. JobTableInv /\ [Next]_vars => JobTableInv'
  BY JobTableInvStep
<1> QED
  BY <1>1, <1>2, PTL DEF Spec

\* Between two ticks every configured name is in the slice exactly once, for
\* every configuration and whatever jobs a tick has moved around.
THEOREM TableIsCompleteCorrect == ~Overlap => (Spec => []TableIsComplete)
<1> SUFFICES ASSUME ~Overlap PROVE Spec => []TableIsComplete
  OBVIOUS
<1>1. JobTableInv => TableIsComplete
  <2>1. JobTableInv => Nil \notin InTable
    BY SliceFacts DEF JobTableInv, TypeOK, InTable
  <2> QED
    BY <2>1 DEF JobTableInv, Slice, TableIsComplete
<1> QED
  BY <1>1, JobTableInvCorrect, PTL

\* A request acts on a job of the name it was sent for; on the object that the
\* runner supervises, if the name is not ambiguous.
THEOREM ActsOnNamedJobCorrect == ~Overlap => (Spec => []ActsOnNamedJob)
<1> SUFFICES ASSUME ~Overlap PROVE Spec => []ActsOnNamedJob
  OBVIOUS
<1>1. JobTableInv => ActsOnNamedJob
  BY DEF JobTableInv, Knows, ActsOnNamedJob
<1> QED
  BY <1>1, JobTableInvCorrect, PTL
=============================================================================
