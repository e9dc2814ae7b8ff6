----------------------------- MODULE OutputProofs -----------------------------
(* Theorems about Output, for every number of calls, chunks and options.     *)
EXTENDS Output, TLAPS

-----------------------------------------------------------------------------
(* The inductive invariant behind the four invariants of Output.             *)

\* One call at a time: each has returned when the next one begins.
Sequential ==
  /\ pc[0] # "close"
  /\ \A k \in Starts : pc[k] # "idle" =>
       pc[0] = "idle" /\ \A j \in Starts : j < k => pc[j] = "done"

\* Every open log file is that of the call in progress, and in its field; a
\* call that makes its forwarders finds an open handle in both fields.
Files ==
  /\ Std \subseteq open
  /\ \A s \in Streams : path[s] = "" => field[s] = <<0, s>>
  /\ \A h \in open \ Std :
       /\ pc[h[1]] \in {"pipes", "run", "drain", "close"}
       /\ h[2] \in Opened /\ field[h[2]] = h
  /\ \A k \in Starts : pc[k] = "pipes" => \A s \in Streams : field[s] \in open

\* A forwarder whose call is not cut short has an open target until it ends;
\* it knows whether the chunk it has read last was the end of a line.
Forwarder(p) ==
  /\ pc[p[1]] \in {"idle", "pipes"} =>
       fwd[p] = "none" /\ procs[p[1]] = {} /\ sent[p] = 0
  /\ got[p] <= sent[p]
  /\ fwd[p] = "none" => got[p] = 0
  /\ fwd[p] = "copy" /\ p[1] \notin late =>
       target[p] \in open /\ pc[p[1]] \in {"run", "drain"}
  /\ p \in discards => fwd[p] # "none" /\ p[1] \in late /\ target[p] \notin Std
  /\ p \in continued <=> IsPrefix(got[p])

Forwarding ==
  /\ \A p \in Pipes : Forwarder(p)
  /\ \A c \in out : c[2] <= sent[c[1]]

OutputInv ==
  /\ TypeOK /\ Sequential /\ Files /\ Forwarding
  /\ ChunksArrive /\ ReaderOutlivesWriters /\ Decorated

-----------------------------------------------------------------------------
(* Type correctness.                                                         *)

\* A chunk that a forwarder reads, or a process writes, has a number.
LEMMA ChunkType ==
  ASSUME TypeOK, NEW p \in Pipes
  PROVE  /\ sent[p] \in Nat /\ got[p] \in Nat /\ sent[p] <= MaxChunks
         /\ sent[p] < MaxChunks =>
              /\ sent[p] + 1 \in 1 .. MaxChunks
              /\ sent[p] + 1 \in 0 .. MaxChunks
         /\ got[p] < sent[p] =>
              /\ got[p] + 1 \in 1 .. MaxChunks
              /\ got[p] + 1 \in 0 .. MaxChunks
<1>1. sent[p] \in 0 .. MaxChunks /\ got[p] \in 0 .. MaxChunks /\ MaxChunks \in Nat
  BY OutputAssumption DEF TypeOK, PipeOK
<1> QED
  BY <1>1

\* Call 0 is a call, and every other call is an execution of startOnce.
LEMMA CallNumbers ==
  /\ Calls = {0} \cup Starts
  /\ 0 \notin Starts /\ Starts \subseteq Nat
BY OutputAssumption DEF Calls, Starts

\* A pipe, or a handle, is a call and a stream.
LEMMA PipeShape ==
  /\ \A p \in Pipes : p[1] \in Calls /\ p[2] \in Streams /\ p = <<p[1], p[2]>>
  /\ \A k \in Calls, s \in Streams :
       <<k, s>> \in Pipes /\ <<k, s>>[1] = k /\ <<k, s>>[2] = s
  /\ \A k \in Calls, s \in Streams : <<k, s>> \in Std <=> k = 0
  /\ Std \subseteq Pipes /\ \A h \in Std : h[1] = 0
  /\ Opened \subseteq Streams /\ "stdout" \in Streams
<1>1. \A k \in Calls, s \in Streams :
        <<k, s>> \in Pipes /\ <<k, s>>[1] = k /\ <<k, s>>[2] = s
  BY DEF Pipes
<1>2. \A k \in Calls, s \in Streams : <<k, s>> \in Std <=> k = 0
  BY DEF Std
<1>3. Std \subseteq Pipes /\ \A h \in Std : h[1] = 0
  BY CallNumbers DEF Std, Pipes
<1>4. \A p \in Pipes : p[1] \in Calls /\ p[2] \in Streams /\ p = <<p[1], p[2]>>
  BY DEF Pipes
<1>5. Opened \subseteq Streams /\ "stdout" \in Streams
  BY DEF Streams, Opened
<1> QED
  BY <1>1, <1>2, <1>3, <1>4, <1>5

\* Where the forwarders of a call find their targets.
LEMMA TargetsType ==
  ASSUME TypeOK, NEW k \in Calls
  PROVE  /\ Targets(k) \in [Pipes -> Pipes]
         /\ \A p \in Pipes :
              /\ p[1] # k => Targets(k)[p] = target[p]
              /\ p[1] = k /\ k = 0 => Targets(k)[p] = <<0, p[2]>>
              /\ p[1] = k /\ k # 0 => Targets(k)[p] = field[p[2]]
<1>1. \A p \in Pipes : <<0, p[2]>> \in Pipes /\ field[p[2]] \in Pipes
  BY PipeShape, CallNumbers DEF TypeOK, FileOK
<1> QED
  BY <1>1 DEF Targets, TypeOK, CallOK

\* Variables that do not change keep their types.
LEMMA StutterTypes ==
  /\ ConfOK /\ UNCHANGED confVars => ConfOK'
  /\ FileOK /\ UNCHANGED fileVars => FileOK'
  /\ CallOK /\ UNCHANGED callVars => CallOK'
  /\ PipeOK /\ UNCHANGED pipeVars => PipeOK'
<1>1. ConfOK /\ UNCHANGED confVars => ConfOK'
  BY DEF ConfOK, confVars
<1>2. FileOK /\ UNCHANGED fileVars => FileOK'
  BY DEF FileOK, fileVars
<1>3. CallOK /\ UNCHANGED callVars => CallOK'
  BY DEF CallOK, callVars
<1>4. PipeOK /\ UNCHANGED pipeVars => PipeOK'
  BY DEF PipeOK, pipeVars
<1> QED
  BY <1>1, <1>2, <1>3, <1>4

\* Every step of a call keeps the types.
LEMMA CallTypeStep ==
  ASSUME TypeOK, NEW k \in Calls, CallStep(k)
  PROVE  TypeOK'
<1> USE StutterTypes DEF TypeOK
<1>0. \A s \in Streams : <<k, s>> \in Pipes
  BY PipeShape
<1>1. CASE Opens(k)
  <2>1. open' \subseteq Pipes
    BY <1>0, <1>1, PipeShape DEF Opens, FileOK
  <2>2. field' \in [Streams -> Pipes]
    BY <1>0, <1>1, PipeShape DEF Opens, FileOK
  <2> QED
    BY <1>1, <2>1, <2>2 DEF Opens, Goto, FileOK, CallOK
<1>2. CASE OpenFails(k)
  <2>1. PICK s \in Opened : LET before == (Opened \cap {"stdout"}) \ {s} IN
          /\ open' = open \cup {<<k, b>> : b \in before}
          /\ field' = [b \in Streams |-> IF b \in before THEN <<k, b>>
                                         ELSE field[b]]
    BY <1>2 DEF OpenFails
  <2>2. open' \subseteq Pipes
    BY <1>0, <2>1, PipeShape DEF FileOK
  <2>3. field' \in [Streams -> Pipes]
    BY <1>0, <2>1 DEF FileOK
  <2> QED
    BY <1>2, <2>2, <2>3 DEF OpenFails, Goto, FileOK, CallOK
<1>3. CASE CommandBegins /\ k = 0
  BY <1>3 DEF CommandBegins, Goto, CallOK
<1>4. CASE PipeFails(k)
  <2>1. /\ pc' \in [Calls -> {"idle", "pipes", "run", "drain", "close", "done"}]
        /\ procs' \in [Calls -> SUBSET {"main", "child"}]
    BY <1>4 DEF PipeFails, Goto, CallOK
  <2> QED
    BY <1>4, <2>1 DEF PipeFails, CallOK
<1>5. ASSUME Connects(k) PROVE /\ ConfOK' /\ FileOK' /\ PipeOK'
                              /\ target' \in [Pipes -> Pipes]
  BY <1>5, TargetsType DEF Connects, PipeOK
<1>6. CASE Forks(k)
  <2>1. procs' \in [Calls -> SUBSET {"main", "child"}]
    BY <1>6 DEF Forks, CallOK
  <2> QED
    BY <1>5, <1>6, <2>1 DEF Forks, Connects, Goto, CallOK
<1>7. CASE ForkFails(k)
  BY <1>5, <1>7 DEF ForkFails, Connects, Goto, CallOK
<1>8. CASE Waited(k)
  BY <1>8 DEF Waited, Goto, CallOK
<1>9. CASE Drained(k)
  BY <1>9 DEF Drained, Goto, AfterDrain, CallOK
<1>10. CASE DrainTimesOut(k)
  BY <1>10 DEF DrainTimesOut, Goto, AfterDrain, CallOK
<1>11. CASE Closes(k)
  BY <1>11 DEF Closes, Goto, FileOK, CallOK
<1> QED
  BY <1>1, <1>2, <1>3, <1>4, <1>6, <1>7, <1>8, <1>9, <1>10, <1>11 DEF CallStep

\* What a forwarder does whenever it has read a chunk.
LEMMA ChunkStep ==
  ASSUME TypeOK, NEW p \in Pipes, TakesChunk(p)
  PROVE  /\ fwd[p] = "copy" /\ got[p] < sent[p]
         /\ got' = [got EXCEPT ![p] = got[p] + 1]
         /\ got'[p] = got[p] + 1 /\ got'[p] \in 1 .. MaxChunks
         /\ got' \in [Pipes -> 0 .. MaxChunks]
         /\ continued' \subseteq Pipes
         /\ \A q \in Pipes : q # p => got'[q] = got[q]
         /\ \A q \in Pipes : q # p => (q \in continued' <=> q \in continued)
         /\ p \in continued' <=> IsPrefix(got'[p])
         /\ UNCHANGED <<confVars, fileVars, callVars, sent, fwd>>
BY ChunkType DEF TakesChunk, TypeOK, PipeOK

\* Every step of a process or a forwarder keeps the types.
LEMMA PipeTypeStep ==
  ASSUME TypeOK, NEW p \in Pipes, Writes(p) \/ Forward(p)
  PROVE  TypeOK'
<1> USE StutterTypes DEF TypeOK
<1>1. CASE Writes(p)
  <2>1. sent'[p] = sent[p] + 1 /\ sent' \in [Pipes -> 0 .. MaxChunks]
    BY <1>1, ChunkType DEF Writes, PipeOK
  <2>2. <<p, sent'[p], {}>> \in Pipes \X (1 .. MaxChunks) \X SUBSET Options
    BY <1>1, <2>1, ChunkType DEF Writes
  <2>3. out' \subseteq Pipes \X (1 .. MaxChunks) \X SUBSET Options
    BY <1>1, <2>2 DEF Writes, PipeOK
  <2> QED
    BY <1>1, <2>1, <2>3 DEF Writes, PipeOK
<1>2. CASE Delivers(p)
  <2>1. <<p, got'[p], IF p \in continued THEN {} ELSE decoration>>
          \in Pipes \X (1 .. MaxChunks) \X SUBSET Options
    BY <1>2, ChunkStep DEF Delivers, ConfOK
  <2>2. out' \subseteq Pipes \X (1 .. MaxChunks) \X SUBSET Options
    BY <1>2, <2>1 DEF Delivers, PipeOK
  <2> QED
    BY <1>2, <2>2, ChunkStep DEF Delivers, PipeOK
<1>3. CASE FindsClosed(p) \/ Discards(p)
  BY <1>3, ChunkStep DEF FindsClosed, Discards, PipeOK
<1>4. CASE WriteFails(p)
  <2>1. <<p, got'[p]>> \in Pipes \X (1 .. MaxChunks)
    BY <1>4, ChunkStep DEF WriteFails
  <2>2. failed' \subseteq Pipes \X (1 .. MaxChunks)
    BY <1>4, <2>1 DEF WriteFails, PipeOK
  <2> QED
    BY <1>4, <2>2, ChunkStep DEF WriteFails, PipeOK
<1>5. CASE ReadsEOF(p)
  BY <1>5 DEF ReadsEOF, PipeOK
<1> QED
  BY <1>1, <1>2, <1>3, <1>4, <1>5 DEF Forward

\* Every step keeps the types.
LEMMA TypeStep == TypeOK /\ [Next]_vars => TypeOK'
<1> SUFFICES ASSUME TypeOK, [Next]_vars PROVE TypeOK'
  OBVIOUS
<1>1. ASSUME NEW k \in Calls, Exits(k) PROVE TypeOK'
  BY <1>1, StutterTypes DEF Exits, TypeOK, CallOK
<1>2. CASE UNCHANGED vars
  BY <1>2, StutterTypes DEF TypeOK, vars
<1> QED
  BY <1>1, <1>2, CallTypeStep, PipeTypeStep DEF Next

\* The types hold at first.
LEMMA TypeInit == Init => TypeOK
<1> SUFFICES ASSUME Init PROVE TypeOK
  OBVIOUS
<1>1. FileOK
  BY PipeShape, CallNumbers DEF Init, FileOK
<1>2. CallOK
  BY PipeShape, CallNumbers DEF Init, CallOK
<1>3. PipeOK
  <2>1. 0 \in 0 .. MaxChunks
    BY OutputAssumption
  <2>2. /\ sent \in [Pipes -> 0 .. MaxChunks]
        /\ got \in [Pipes -> 0 .. MaxChunks]
        /\ fwd \in [Pipes -> {"none", "copy", "done"}]
    BY <2>1 DEF Init
  <2>3. continued = {} /\ discards = {} /\ out = {} /\ failed = {}
    BY DEF Init
  <2> QED
    BY <2>2, <2>3 DEF PipeOK
<1>4. ConfOK
  BY DEF Init, ConfOK
<1> QED
  BY <1>1, <1>2, <1>3, <1>4 DEF TypeOK

\* Type correctness: in particular no forwarder reads more than was written.
THEOREM TypeCorrect == Spec => []TypeOK
<1> QED
  BY TypeInit, TypeStep, PTL DEF Spec

-----------------------------------------------------------------------------
(* One call at a time, and the files it has open.                            *)

\* What a step of a call does to the positions: only Opens and OpenFails begin
\* an execution of startOnce.
LEMMA CallStepMoves ==
  ASSUME TypeOK, NEW k \in Calls, CallStep(k)
  PROVE  /\ \A j \in Calls : j # k => pc'[j] = pc[j]
         /\ pc'[k] # "idle" /\ pc[k] # "done"
         /\ pc[k] = "idle" =>
              \/ MayStart(k)
              \/ k = 0 /\ \A j \in Starts : pc[j] = "idle"
         /\ pc'[0] = "close" => pc[0] = "close"
<1> USE CallNumbers DEF TypeOK, CallOK, Goto
<1>1. CASE Opens(k) \/ OpenFails(k)
  BY <1>1 DEF Opens, OpenFails, MayStart
<1>2. CASE CommandBegins /\ k = 0
  BY <1>2 DEF CommandBegins
<1>3. CASE PipeFails(k)
  BY <1>3 DEF PipeFails
<1>4. CASE Forks(k) \/ ForkFails(k) \/ Waited(k)
  BY <1>4 DEF Forks, ForkFails, Waited
<1>5. CASE Drained(k) \/ DrainTimesOut(k)
  BY <1>5 DEF Drained, DrainTimesOut, AfterDrain
<1>6. CASE Closes(k)
  BY <1>6 DEF Closes
<1> QED
  BY <1>1, <1>2, <1>3, <1>4, <1>5, <1>6 DEF CallStep

\* The executions of startOnce follow each other.
LEMMA SequentialStep ==
  ASSUME TypeOK, Sequential, NEW k \in Calls, CallStep(k)
  PROVE  Sequential'
<1>1. pc'[0] # "close"
  BY CallStepMoves DEF Sequential
<1>2. ASSUME NEW i \in Starts, pc'[i] # "idle"
      PROVE  pc'[0] = "idle" /\ \A j \in Starts : j < i => pc'[j] = "done"
  <2>1. CASE k = i /\ pc[i] = "idle"
    <3>1. pc[0] = "idle" /\ (i > 1 => pc[i - 1] = "done")
      BY <1>2, <2>1, CallStepMoves, CallNumbers DEF MayStart
    <3>2. ASSUME NEW j \in Starts, j < i PROVE pc[j] = "done"
      <4>1. i - 1 \in Starts /\ i > 1 /\ (j = i - 1 \/ j < i - 1)
        BY <3>2, OutputAssumption DEF Starts
      <4> QED
        BY <3>1, <4>1 DEF Sequential
    <3> QED
      BY <2>1, <3>1, <3>2, CallStepMoves, CallNumbers
  <2>2. CASE pc[i] # "idle"
    BY <1>2, <2>2, CallStepMoves, CallNumbers DEF Sequential, MayStart
  <2>3. CASE k # i
    BY <1>2, <2>2, <2>3, CallStepMoves, CallNumbers
  <2> QED
    BY <2>1, <2>2, <2>3
<1> QED
  BY <1>1, <1>2 DEF Sequential

\* A stream without a file has no file of its own, and is not shared.
LEMMA OpenedStreams ==
  ASSUME NEW s \in Streams, s \notin Opened
  PROVE  \/ path[s] = "" /\ ~Shared
         \/ Shared /\ path[s] # "" /\ "stdout" \in Opened
BY DEF Opened, Shared, Streams

\* Two executions of startOnce are never in progress together.
LEMMA OneCall ==
  ASSUME Sequential, NEW k \in Starts, NEW j \in Starts, j # k,
         pc[k] \notin {"idle", "done"}
  PROVE  pc[j] \in {"idle", "done"}
BY CallNumbers DEF Sequential

\* When an execution of startOnce begins, no log file is open.
LEMMA NoneOpen ==
  ASSUME TypeOK, Sequential, Files, NEW k \in Calls, MayStart(k), pc[k] = "idle"
  PROVE  open = Std /\ \A j \in Starts : pc[j] \in {"idle", "done"}
<1>1. k \in Starts /\ pc[0] = "idle" /\ (k > 1 => pc[k - 1] = "done")
  BY DEF MayStart
<1>2. ASSUME NEW j \in Starts PROVE pc[j] \in {"idle", "done"}
  <2>1. CASE j < k
    <3>1. k - 1 \in Starts /\ k > 1 /\ (j = k - 1 \/ j < k - 1)
      BY <1>1, <2>1, OutputAssumption DEF Starts
    <3> QED
      BY <1>1, <3>1 DEF Sequential
  <2>2. CASE j > k
    BY <1>1, <2>2, CallNumbers DEF Sequential
  <2> QED
    BY <1>1, <2>1, <2>2, CallNumbers
<1>3. ASSUME NEW h \in open, h \notin Std PROVE FALSE
  <2>1. h[1] \in Calls /\ h[2] \in Streams /\ h = <<h[1], h[2]>>
    BY <1>3, PipeShape DEF TypeOK, FileOK
  <2>2. h[1] \in Starts
    BY <1>3, <2>1, PipeShape, CallNumbers
  <2> QED
    BY <1>2, <1>3, <2>2 DEF Files
<1> QED
  BY <1>2, <1>3 DEF Files

\* The open log files are those of the call in progress.
LEMMA FilesStep ==
  ASSUME TypeOK, Sequential, Sequential', Files, NEW k \in Calls, CallStep(k)
  PROVE  Files'
<1> USE DEF TypeOK, ConfOK, FileOK, CallOK
<1>0. /\ \A h \in open : h[1] \in Calls /\ h[2] \in Streams /\ h = <<h[1], h[2]>>
      /\ \A h \in open : h[1] = 0 => h \in Std
      /\ \A s \in Streams : /\ <<k, s>>[1] = k /\ <<k, s>>[2] = s
                            /\ <<k, s>> \in Std <=> k = 0
                            /\ <<0, s>> \in Std
  <2>1. ASSUME NEW h \in open PROVE /\ h[1] \in Calls /\ h[2] \in Streams
                                    /\ h = <<h[1], h[2]>>
                                    /\ h[1] = 0 => h \in Std
    <3>1. h[1] \in Calls /\ h[2] \in Streams /\ h = <<h[1], h[2]>>
      BY <2>1, PipeShape
    <3> QED
      <4>1. <<h[1], h[2]>> \in Std <=> h[1] = 0
        BY <3>1, PipeShape
      <4> QED
        BY <3>1, <4>1
  <2> QED
    BY <2>1, PipeShape, CallNumbers
<1>1. CASE Opens(k)
  <2>1. /\ k \in Starts /\ pc'[k] = "pipes" /\ open = Std
        /\ \A j \in Starts : j # k => pc'[j] \in {"idle", "done"}
        /\ UNCHANGED path
    BY <1>1, NoneOpen, CallNumbers DEF Opens, MayStart, Goto, confVars
  <2>2. \A s \in Opened : s \in Streams /\ field'[s] = <<k, s>>
    BY <1>1, PipeShape DEF Opens
  <2>3. \A s \in Streams : s \notin Opened =>
          field'[s] = IF Shared THEN <<k, "stdout">> ELSE field[s]
    BY <1>1 DEF Opens
  <2>4. open' = Std \cup {<<k, s>> : s \in Opened}
    BY <1>1, <2>1 DEF Opens
  <2>5. Opened' = Opened
    BY <2>1 DEF Opened, Shared
  <2>6. \A s \in Streams : path[s] = "" => field'[s] = <<0, s>>
    <3>1. \A s \in Streams : path[s] = "" => s \notin Opened /\ ~Shared
      BY DEF Opened, Shared, Streams
    <3> QED
      BY <2>3, <3>1 DEF Files
  <2>7. \A h \in open' \ Std :
          pc'[h[1]] = "pipes" /\ h[2] \in Opened' /\ field'[h[2]] = h
    <3>1. ASSUME NEW h \in open' \ Std
          PROVE  pc'[h[1]] = "pipes" /\ h[2] \in Opened /\ field'[h[2]] = h
      <4>1. PICK s \in Opened : h = <<k, s>>
        BY <2>4, <3>1
      <4> QED
        BY <1>0, <2>1, <2>2, <4>1
    <3> QED
      BY <2>5, <3>1
  <2>8. \A s \in Streams : field'[s] \in open'
    <3>1. ASSUME NEW s \in Streams, s \notin Opened PROVE field'[s] \in open'
      <4>1. CASE Shared /\ "stdout" \in Opened
        BY <2>3, <2>4, <3>1, <4>1
      <4>2. CASE path[s] = ""
        <5>1. field'[s] = <<0, s>> /\ Std \subseteq open'
          BY <2>4, <2>6, <4>2
        <5> QED
          BY <1>0, <5>1
      <4> QED
        BY <3>1, <4>1, <4>2, OpenedStreams
    <3> QED
      BY <2>2, <2>4, <3>1
  <2> QED
    BY <2>1, <2>4, <2>6, <2>7, <2>8 DEF Files
<1>2. CASE OpenFails(k)
  <2>1. /\ k \in Starts /\ pc'[k] = "close" /\ open = Std
        /\ \A j \in Starts : j # k => pc'[j] \in {"idle", "done"}
        /\ UNCHANGED path
    BY <1>2, NoneOpen, CallNumbers DEF OpenFails, MayStart, Goto, confVars
  <2>2. PICK before \in SUBSET Opened :
          /\ open' = open \cup {<<k, b>> : b \in before}
          /\ field' = [b \in Streams |-> IF b \in before THEN <<k, b>>
                                         ELSE field[b]]
    BY <1>2 DEF OpenFails
  <2>3. Opened' = Opened /\ Opened \subseteq Streams
    BY <2>1 DEF Opened, Shared
  <2>4. \A s \in Streams : path[s] = "" => s \notin Opened
    BY DEF Opened
  <2>5. \A h \in open' \ Std :
          pc'[h[1]] = "close" /\ h[2] \in Opened' /\ field'[h[2]] = h
    <3>1. ASSUME NEW h \in open' \ Std
          PROVE  pc'[h[1]] = "close" /\ h[2] \in Opened /\ field'[h[2]] = h
      <4>1. PICK s \in before : h = <<k, s>>
        BY <2>1, <2>2, <3>1
      <4> QED
        BY <1>0, <2>1, <2>2, <2>3, <4>1
    <3> QED
      BY <2>3, <3>1
  <2>6. \A s \in Streams : path[s] = "" => field'[s] = <<0, s>>
    BY <2>2, <2>4 DEF Files
  <2> QED
    BY <2>1, <2>2, <2>5, <2>6 DEF Files
<1>3. CASE Closes(k)
  <2>1. /\ open' = open \ ({field[s] : s \in Opened} \ Std)
        /\ pc[k] = "close" /\ pc' = [pc EXCEPT ![k] = "done"]
        /\ UNCHANGED <<path, field>>
    BY <1>3 DEF Closes, Goto, confVars
  <2>2. k \in Starts
    BY <2>1, CallNumbers DEF Sequential
  <2>3. open' \ Std = {} /\ Std \subseteq open'
    <3>1. ASSUME NEW h \in open', h \notin Std PROVE FALSE
      <4>1. h[2] \in Opened /\ field[h[2]] = h /\ h \in open
        BY <2>1, <3>1 DEF Files
      <4> QED
        BY <2>1, <3>1, <4>1
    <3> QED
      BY <2>1, <3>1 DEF Files
  <2>4. \A j \in Starts : pc'[j] # "pipes"
    BY <2>1, <2>2, OneCall, CallNumbers
  <2> QED
    BY <2>1, <2>3, <2>4 DEF Files
<1>4. CASE UNCHANGED <<path, fileVars>> /\ ~Closes(k) /\ ~Opens(k)
  <2>1. /\ pc[k] \in {"pipes", "run", "drain"} /\ k \in Starts
            => pc'[k] \in {"run", "drain", "close"}
        /\ k \in Starts => pc'[k] # "pipes"
    BY <1>4, CallNumbers DEF CallStep, OpenFails, CommandBegins, PipeFails, Forks,
       ForkFails, Waited, Drained, DrainTimesOut, Goto, AfterDrain
  <2>2. \A j \in Calls : j # k => pc'[j] = pc[j]
    BY CallStepMoves
  <2>3. Opened' = Opened /\ open' = open /\ field' = field /\ path' = path
    BY <1>4 DEF Opened, Shared, fileVars
  <2>4. ASSUME NEW h \in open \ Std
        PROVE  pc'[h[1]] \in {"pipes", "run", "drain", "close"}
    <3>1. h[1] \in Starts
      BY <1>0, <2>4, CallNumbers
    <3>2. pc[h[1]] \in {"pipes", "run", "drain", "close"}
      BY <2>4 DEF Files
    <3>3. CASE h[1] = k /\ pc[k] = "close"
      BY <1>4, <3>3, CallNumbers DEF CallStep, Opens, OpenFails, CommandBegins, PipeFails, Forks,
         ForkFails, Waited, Drained, DrainTimesOut, Goto
    <3> QED
      BY <2>1, <2>2, <3>1, <3>2, <3>3, CallNumbers
  <2> QED
    BY <2>1, <2>2, <2>3, <2>4, CallNumbers DEF Files
<1> QED
  BY <1>1, <1>2, <1>3, <1>4 DEF CallStep, CommandBegins, PipeFails, Forks,
     ForkFails, Connects, Waited, Drained, DrainTimesOut, confVars

-----------------------------------------------------------------------------
(* The forwarders.                                                           *)

\* What a step of a call does to the forwarders: it only begins them, when the
\* pipes are made, and then gives them their target.
LEMMA CallStepFrame ==
  ASSUME TypeOK, NEW k \in Calls, CallStep(k)
  PROVE  /\ UNCHANGED <<confVars, sent, got, continued, discards, out, failed>>
         /\ late \subseteq late'
         /\ \A j \in Calls : procs'[j] # procs[j] => j = k /\ pc[k] = "pipes"
         /\ \A p \in Pipes :
              \/ fwd'[p] = fwd[p] /\ target'[p] = target[p]
              \/ /\ p[1] = k /\ pc[k] = "pipes"
                 /\ fwd'[p] = fwd[p] \/ fwd'[p] = "copy"
                 /\ pc'[k] \in {"run", "drain"} /\ UNCHANGED <<late, open>>
                 /\ target'[p] = IF k = 0 THEN <<0, p[2]>> ELSE field[p[2]]
<1> DEFINE Goal == /\ UNCHANGED <<confVars, sent, got, continued, discards, out,
                                  failed>>
                   /\ late \subseteq late'
                   /\ \A j \in Calls : procs'[j] # procs[j] => j = k /\ pc[k] = "pipes"
                   /\ \A p \in Pipes :
                        \/ fwd'[p] = fwd[p] /\ target'[p] = target[p]
                        \/ /\ p[1] = k /\ pc[k] = "pipes"
                           /\ fwd'[p] = fwd[p] \/ fwd'[p] = "copy"
                           /\ pc'[k] \in {"run", "drain"}
                           /\ UNCHANGED <<late, open>>
                           /\ target'[p] = IF k = 0 THEN <<0, p[2]>>
                                           ELSE field[p[2]]
<1>1. CASE UNCHANGED <<confVars, procs, target, pipeVars>> /\ late \subseteq late'
  BY <1>1 DEF pipeVars
<1>2. CASE PipeFails(k)
  BY <1>2 DEF PipeFails, Goto, TypeOK, CallOK, pipeVars
<1>3. ASSUME Forks(k) \/ ForkFails(k) PROVE Goal
  <2>1. /\ UNCHANGED <<confVars, sent, got, continued, discards, out, failed>>
        /\ UNCHANGED <<late, open>>
    BY <1>3 DEF Forks, ForkFails, Connects, fileVars
  <2>2. \A j \in Calls : procs'[j] # procs[j] => j = k /\ pc[k] = "pipes"
    BY <1>3 DEF Forks, ForkFails, Goto, TypeOK, CallOK
  <2>3. pc[k] = "pipes" /\ pc'[k] \in {"run", "drain"}
    BY <1>3 DEF Forks, ForkFails, Goto, TypeOK, CallOK
  <2>4. /\ target' = Targets(k)
        /\ \A p \in Pipes : IF p[1] = k /\ Piped THEN fwd'[p] = "copy"
                            ELSE fwd'[p] = fwd[p]
    BY <1>3 DEF Forks, ForkFails, Connects
  <2> QED
    BY <2>1, <2>2, <2>3, <2>4, TargetsType
<1> QED
  BY <1>1, <1>2, <1>3 DEF CallStep, Opens, OpenFails, CommandBegins, Waited,
     Drained, DrainTimesOut, Closes, pipeVars

\* A forwarder that is still at work when its call returns is late.
LEMMA CallStepLate ==
  ASSUME TypeOK, NEW p \in Pipes, Forwarder(p), CallStep(p[1]),
         fwd[p] = "copy", p[1] \notin late'
  PROVE  pc'[p[1]] \in {"run", "drain"} /\ UNCHANGED open
<1>1. p[1] \in Calls /\ p[2] \in Streams /\ p = <<p[1], p[2]>>
  BY PipeShape
<1>2. p[1] \notin late
  BY CallStepFrame, <1>1
<1>3. pc[p[1]] \in {"run", "drain"}
  BY <1>2 DEF Forwarder
<1>4. ~Drained(p[1])
  BY <1>1 DEF Drained
<1>5. ~DrainTimesOut(p[1])
  BY <1>1 DEF DrainTimesOut
<1>6. Waited(p[1])
  BY <1>3, <1>4, <1>5 DEF CallStep, Opens, OpenFails, CommandBegins, PipeFails,
     Forks, ForkFails, Closes, Goto
<1> QED
  BY <1>1, <1>6 DEF Waited, Goto, TypeOK, CallOK, fileVars

\* Every step of a call keeps what is known of the forwarders.
LEMMA CallStepForwarding ==
  ASSUME TypeOK, Sequential, Files, Forwarding, NEW k \in Calls, CallStep(k)
  PROVE  Forwarding'
<1>1. ASSUME NEW p \in Pipes PROVE Forwarder(p)'
  <2>1. /\ p[1] \in Calls /\ p[2] \in Streams /\ Forwarder(p)
        /\ <<0, p[2]>> \in Std
    BY <1>1, PipeShape, CallNumbers DEF Forwarding
  <2>2. pc'[p[1]] \in {"idle", "pipes"} =>
          fwd'[p] = "none" /\ procs'[p[1]] = {} /\ sent'[p] = 0
    <3>1. p[1] # k => pc'[p[1]] = pc[p[1]]
      BY <2>1, CallStepMoves
    <3>2. p[1] = k /\ pc'[k] \in {"idle", "pipes"} => pc[k] = "idle"
      BY CallStepMoves DEF CallStep, Opens, OpenFails, CommandBegins, PipeFails,
         Forks, ForkFails, Waited, Drained, DrainTimesOut, Closes, Goto,
         AfterDrain, TypeOK, CallOK
    <3> QED
      BY <2>1, <3>1, <3>2, CallStepFrame DEF Forwarder
  <2>3. got'[p] <= sent'[p] /\ (fwd'[p] = "none" => got'[p] = 0)
    BY <2>1, CallStepFrame DEF Forwarder
  <2>4. fwd'[p] = "copy" /\ p[1] \notin late' =>
          target'[p] \in open' /\ pc'[p[1]] \in {"run", "drain"}
    <3>1. CASE fwd'[p] = fwd[p] /\ target'[p] = target[p] /\ p[1] = k
      BY <2>1, <3>1, CallStepLate, CallStepFrame DEF Forwarder
    <3>2. CASE fwd'[p] = fwd[p] /\ target'[p] = target[p] /\ p[1] # k
      <4> SUFFICES ASSUME fwd[p] = "copy", p[1] \notin late
                   PROVE  target[p] \in open' /\ pc'[p[1]] \in {"run", "drain"}
        BY <3>2, CallStepFrame
      <4>1. target[p] \in open /\ pc[p[1]] \in {"run", "drain"}
        BY <2>1 DEF Forwarder
      <4>2. pc'[p[1]] = pc[p[1]]
        BY <2>1, <3>2, CallStepMoves
      <4>3. ~Closes(k)
        <5>1. pc[k] = "close" => k \in Starts
          BY CallNumbers DEF Sequential
        <5> QED
          BY <2>1, <3>2, <4>1, <5>1, OneCall, CallNumbers
          DEF Closes, Goto, Sequential
      <4>4. open \subseteq open'
        BY <4>3 DEF CallStep, Opens, OpenFails, CommandBegins, PipeFails, Forks,
           ForkFails, Connects, Waited, Drained, DrainTimesOut, fileVars
      <4> QED
        BY <4>1, <4>2, <4>4
    <3>3. CASE /\ p[1] = k /\ pc[k] = "pipes"
               /\ pc'[k] \in {"run", "drain"} /\ UNCHANGED <<late, open>>
               /\ target'[p] = IF k = 0 THEN <<0, p[2]>> ELSE field[p[2]]
      BY <2>1, <3>3, CallNumbers DEF Files
    <3> QED
      BY <1>1, <2>1, <3>1, <3>2, <3>3, CallStepFrame
  <2>5. p \in discards' => fwd'[p] # "none" /\ p[1] \in late' /\ target'[p] \notin Std
    BY <2>1, CallStepFrame DEF Forwarder
  <2>6. p \in continued' <=> (IsPrefix(got[p]))'
    BY <2>1, CallStepFrame DEF Forwarder, IsPrefix, confVars
  <2> QED
    BY <2>2, <2>3, <2>4, <2>5, <2>6 DEF Forwarder
<1>2. \A c \in out' : c[2] <= sent'[c[1]]
  BY CallStepFrame DEF Forwarding
<1> QED
  BY <1>1, <1>2 DEF Forwarding

\* Every step of a call keeps what is known of the chunks.
LEMMA CallStepOutput ==
  ASSUME TypeOK, Forwarding, ChunksArrive, ReaderOutlivesWriters, Decorated,
         NEW k \in Calls, CallStep(k)
  PROVE  ChunksArrive' /\ ReaderOutlivesWriters' /\ Decorated'
<1>0. \A p \in Pipes : p[1] \in Calls /\ Forwarder(p)
  BY PipeShape DEF Forwarding
<1>1. ASSUME NEW p \in Pipes, NEW n \in 1 .. got'[p]
      PROVE  \/ Reached(p, n)' \/ <<p, n>> \in failed'
             \/ p[1] \in late' /\ target'[p] \notin Std
  <2>1. n \in 1 .. got[p] /\ got[p] # 0
    BY <1>1, CallStepFrame, ChunkType
  <2>2. Forwarder(p) /\ sent[p] # 0
    BY <1>0, <2>1, ChunkType DEF Forwarder
  <2>3. pc[p[1]] # "pipes"
    BY <2>2 DEF Forwarder
  <2>4. target'[p] = target[p]
    BY <2>3, CallStepFrame
  <2> QED
    BY <2>1, <2>4, CallStepFrame DEF ChunksArrive, Reached
<1>2. ASSUME NEW p \in Pipes, fwd'[p] = "done"
      PROVE  procs'[p[1]] = {} /\ got'[p] = sent'[p]
  <2>1. fwd[p] = "done" /\ p[1] \in Calls
    BY <1>0, <1>2, CallStepFrame
  <2>2. pc[p[1]] # "pipes"
    BY <1>0, <2>1 DEF Forwarder
  <2> QED
    BY <2>1, <2>2, CallStepFrame DEF ReaderOutlivesWriters
<1>3. ASSUME NEW c \in out'
      PROVE  c[3] = IF fwd'[c[1]] # "none" /\ BeginsLine(c[2])'
                    THEN decoration' ELSE {}
  <2>1. c[1] \in Pipes /\ c[2] \in 1 .. MaxChunks /\ c[2] <= sent[c[1]] /\ c \in out
    BY <1>3, CallStepFrame DEF TypeOK, PipeOK, Forwarding
  <2>2. sent[c[1]] # 0
    BY <2>1
  <2>3. pc[c[1][1]] \notin {"idle", "pipes"}
    BY <1>0, <2>1, <2>2 DEF Forwarder
  <2>4. fwd'[c[1]] = fwd[c[1]]
    BY <2>1, <2>3, CallStepFrame
  <2> QED
    BY <2>1, <2>4, CallStepFrame DEF Decorated, BeginsLine, IsPrefix, confVars
<1> QED
  BY <1>1, <1>2, <1>3 DEF ChunksArrive, ReaderOutlivesWriters, Decorated

\* The steps of processes and forwarders move no call and touch no file.
LEMMA PipeStepFiles ==
  ASSUME Sequential, Files, UNCHANGED <<confVars, fileVars, pc>>
  PROVE  Sequential' /\ Files'
<1>1. Opened' = Opened /\ UNCHANGED <<path, field, open, pc>>
  BY DEF Opened, Shared, confVars, fileVars
<1>2. Sequential'
  BY <1>1 DEF Sequential
<1>3. ASSUME NEW h \in open \ Std
      PROVE  /\ pc'[h[1]] \in {"pipes", "run", "drain", "close"}
             /\ h[2] \in Opened' /\ field'[h[2]] = h
  BY <1>1, <1>3 DEF Files
<1>4. /\ Std \subseteq open'
      /\ \A s \in Streams : path'[s] = "" => field'[s] = <<0, s>>
      /\ \A k \in Starts : pc'[k] = "pipes" => \A s \in Streams : field'[s] \in open'
  BY <1>1 DEF Files
<1> QED
  BY <1>1, <1>2, <1>3, <1>4 DEF Files

\* So does the end of a process.
LEMMA ExitsKeeps ==
  ASSUME OutputInv, NEW k \in Calls, Exits(k)
  PROVE  OutputInv'
<1> USE DEF OutputInv
<1>0. TypeOK'
  BY TypeStep DEF Next
<1>1. /\ UNCHANGED <<confVars, fileVars, pc, late, held, target, pipeVars>>
      /\ \A j \in Calls : procs'[j] \subseteq procs[j]
  BY DEF Exits, TypeOK, CallOK
<1>2. Sequential' /\ Files'
  BY <1>1, PipeStepFiles
<1>3. Forwarding'
  BY <1>1, PipeShape DEF Forwarding, Forwarder, IsPrefix, confVars, fileVars, pipeVars
<1>4. ReaderOutlivesWriters'
  BY <1>1, PipeShape DEF ReaderOutlivesWriters, pipeVars
<1>5. ChunksArrive' /\ Decorated'
  BY <1>1 DEF ChunksArrive, Decorated, Reached, BeginsLine, IsPrefix, confVars,
              pipeVars
<1> QED
  BY <1>0, <1>2, <1>3, <1>4, <1>5

\* A chunk is written: it is the newest one of its pipe.
LEMMA WritesKeeps ==
  ASSUME OutputInv, NEW p \in Pipes, Writes(p)
  PROVE  OutputInv'
<1> USE DEF OutputInv
<1>0. TypeOK' /\ Sequential' /\ Files'
  BY TypeStep, PipeStepFiles DEF Next, Writes, callVars
<1>1. /\ UNCHANGED <<confVars, fileVars, callVars, got, fwd, continued, discards,
                     failed>>
      /\ sent'[p] = sent[p] + 1 /\ procs[p[1]] # {}
      /\ \A q \in Pipes : q # p => sent'[q] = sent[q]
      /\ out' = IF fwd[p] = "none" THEN out \cup {<<p, sent'[p], {}>>} ELSE out
  BY DEF Writes, TypeOK, PipeOK
<1>2. \A q \in Pipes : /\ sent[q] \in Nat /\ got[q] \in Nat /\ sent'[q] >= sent[q]
                       /\ q[1] \in Calls
  BY <1>1, ChunkType, PipeShape
<1>3. ASSUME NEW q \in Pipes PROVE Forwarder(q)'
  BY <1>1, <1>2 DEF Forwarding, Forwarder, IsPrefix, confVars, fileVars, callVars
<1>4. ASSUME NEW c \in out' PROVE c[2] <= sent'[c[1]]
  <2>1. CASE c \in out
    BY <1>1, <1>2, <2>1 DEF Forwarding, TypeOK, PipeOK
  <2>2. CASE c = <<p, sent'[p], {}>>
    BY <1>1, <1>2, <2>2
  <2> QED
    BY <1>1, <1>4, <2>1, <2>2
<1>5. ReaderOutlivesWriters'
  BY <1>1, <1>2 DEF ReaderOutlivesWriters, callVars
<1>6. ChunksArrive'
  BY <1>1 DEF ChunksArrive, Reached, callVars
<1>7. Decorated'
  <2>1. ASSUME NEW c \in out'
        PROVE  c[3] = IF fwd[c[1]] # "none" /\ BeginsLine(c[2])
                      THEN decoration ELSE {}
    <3>1. CASE c \in out
      BY <3>1 DEF Decorated
    <3>2. CASE c = <<p, sent'[p], {}>> /\ fwd[p] = "none"
      <4>1. c[1] = p /\ c[3] = {}
        BY <3>2
      <4> QED
        BY <3>2, <4>1
    <3> QED
      BY <1>1, <2>1, <3>1, <3>2
  <2> QED
    BY <1>1, <2>1 DEF Decorated, BeginsLine, IsPrefix, confVars
<1> QED
  BY <1>0, <1>3, <1>4, <1>5, <1>6, <1>7 DEF Forwarding

\* A chunk is read.  It reaches its target, or is refused by it, or the target
\* is a log file that a call has closed before its forwarder was done.
LEMMA ForwardKeeps ==
  ASSUME OutputInv, NEW p \in Pipes, TakesChunk(p),
         Delivers(p) \/ FindsClosed(p) \/ Discards(p) \/ WriteFails(p)
  PROVE  OutputInv'
<1> USE DEF OutputInv
<1>0. TypeOK' /\ Sequential' /\ Files'
  BY TypeStep, PipeStepFiles DEF Next, Forward, TakesChunk, callVars
<1>1. /\ UNCHANGED <<confVars, fileVars, callVars, sent, fwd>>
      /\ fwd[p] = "copy" /\ got[p] < sent[p] /\ got'[p] = got[p] + 1
      /\ p \in continued' <=> IsPrefix(got'[p])
      /\ \A q \in Pipes : q # p => /\ got'[q] = got[q]
                                   /\ q \in continued' <=> q \in continued
      /\ out \subseteq out' /\ failed \subseteq failed'
  BY ChunkStep DEF Delivers, FindsClosed, Discards, WriteFails
<1>2. \A q \in Pipes : sent[q] \in Nat /\ got[q] \in Nat /\ Forwarder(q)
  BY ChunkType DEF Forwarding
<1>3. \A q \in Pipes : q \in discards' =>
        q \in discards \/ (q = p /\ target[p] \notin open)
  <2>1. CASE UNCHANGED discards
    BY <2>1
  <2>2. CASE FindsClosed(p)
    BY <2>2 DEF FindsClosed
  <2> QED
    BY <2>1, <2>2 DEF Delivers, Discards, WriteFails
<1>4. p \in discards \/ target[p] \notin open =>
        p[1] \in late /\ target[p] \notin Std
  BY <1>1, <1>2 DEF Forwarder, Files
<1>5. ASSUME NEW q \in Pipes PROVE Forwarder(q)'
  <2>1. got'[q] <= sent'[q] /\ (fwd'[q] = "none" => got'[q] = 0)
    BY <1>1, <1>2 DEF Forwarder
  <2>2. q \in continued' <=> IsPrefix(got[q])'
    BY <1>1, <1>2 DEF Forwarder, IsPrefix, confVars
  <2>3. q \in discards' =>
          fwd'[q] # "none" /\ q[1] \in late' /\ target'[q] \notin Std
    BY <1>1, <1>2, <1>3, <1>4 DEF Forwarder, callVars
  <2> QED
    BY <1>1, <1>2, <2>1, <2>2, <2>3 DEF Forwarder, callVars, fileVars
<1>6. ASSUME NEW c \in out'
      PROVE  /\ c[2] <= sent'[c[1]]
             /\ c[3] = IF fwd[c[1]] # "none" /\ BeginsLine(c[2])
                       THEN decoration ELSE {}
  <2>1. CASE c \in out
    BY <1>1, <2>1 DEF Forwarding, Decorated
  <2>2. CASE c \notin out
    <3>1. c = <<p, got'[p], IF p \in continued THEN {} ELSE decoration>>
      BY <1>6, <2>2 DEF Delivers, FindsClosed, Discards, WriteFails
    <3>2. c[1] = p /\ c[2] = got[p] + 1
          /\ c[3] = IF p \in continued THEN {} ELSE decoration
      BY <1>1, <3>1
    <3>3. BeginsLine(got[p] + 1) <=> p \notin continued
      BY <1>2 DEF Forwarder, BeginsLine, IsPrefix
    <3> QED
      BY <1>1, <1>2, <3>2, <3>3
  <2> QED
    BY <2>1, <2>2
<1>7. Decorated'
  BY <1>1, <1>6 DEF Decorated, BeginsLine, IsPrefix, confVars
<1>8. ReaderOutlivesWriters'
  BY <1>1 DEF ReaderOutlivesWriters, callVars
<1>9. ASSUME NEW q \in Pipes, NEW n \in 1 .. got'[q]
      PROVE  \/ Reached(q, n)' \/ <<q, n>> \in failed'
             \/ q[1] \in late' /\ target'[q] \notin Std
  <2>1. CASE n \in 1 .. got[q]
    BY <1>1, <2>1 DEF ChunksArrive, Reached, callVars
  <2>2. CASE q = p /\ n = got'[p]
    <3>1. CASE Delivers(p)
      <4>1. <<p, n, IF p \in continued THEN {} ELSE decoration>> \in out'
        BY <2>2, <3>1 DEF Delivers
      <4> QED
        BY <2>2, <4>1 DEF Reached
    <3>2. CASE WriteFails(p)
      BY <2>2, <3>2 DEF WriteFails
    <3>3. CASE FindsClosed(p) \/ Discards(p)
      BY <1>1, <1>4, <2>2, <3>3 DEF FindsClosed, Discards, callVars
    <3> QED
      BY <3>1, <3>2, <3>3
  <2> QED
    BY <1>1, <1>2, <1>9, <2>1, <2>2
<1> QED
  BY <1>0, <1>5, <1>6, <1>7, <1>8, <1>9 DEF Forwarding, ChunksArrive

\* A forwarder ends when no process can write to its pipe any more.
LEMMA ReadsEOFKeeps ==
  ASSUME OutputInv, NEW p \in Pipes, ReadsEOF(p)
  PROVE  OutputInv'
<1> USE DEF OutputInv
<1>0. TypeOK' /\ Sequential' /\ Files'
  BY TypeStep, PipeStepFiles DEF Next, Forward, ReadsEOF, callVars
<1>1. /\ UNCHANGED <<confVars, fileVars, callVars, sent, got, continued, discards,
                     out, failed>>
      /\ fwd[p] = "copy" /\ fwd'[p] = "done"
      /\ got[p] = sent[p] /\ procs[p[1]] = {}
      /\ \A q \in Pipes : q # p => fwd'[q] = fwd[q]
  BY DEF ReadsEOF, TypeOK, PipeOK
<1>2. Forwarding'
  BY <1>1 DEF Forwarding, Forwarder, IsPrefix, confVars, fileVars, callVars
<1>3. ReaderOutlivesWriters' /\ ChunksArrive'
  BY <1>1 DEF ReaderOutlivesWriters, ChunksArrive, Reached, callVars
<1>4. Decorated'
  BY <1>1 DEF Decorated, BeginsLine, IsPrefix, confVars, TypeOK, PipeOK
<1> QED
  BY <1>0, <1>2, <1>3, <1>4

\* Initially nothing is open, forwarded or written.
LEMMA OutputInvInit == Init => OutputInv
<1> SUFFICES ASSUME Init PROVE OutputInv
  OBVIOUS
<1>1. Sequential
  BY CallNumbers DEF Init, Sequential
<1>2. Files
  BY CallNumbers DEF Init, Files
<1>3. /\ out = {} /\ continued = {} /\ discards = {}
      /\ \A p \in Pipes : fwd[p] = "none" /\ sent[p] = 0 /\ got[p] = 0
      /\ \A k \in Calls : procs[k] = {}
  BY DEF Init
<1>4. ASSUME NEW p \in Pipes PROVE Forwarder(p)
  <2>1. p[1] \in Calls /\ ~IsPrefix(got[p])
    BY <1>3, PipeShape DEF IsPrefix
  <2> QED
    BY <1>3, <2>1 DEF Forwarder
<1>5. ChunksArrive
  BY <1>3 DEF ChunksArrive
<1>6. ReaderOutlivesWriters /\ Decorated
  BY <1>3 DEF ReaderOutlivesWriters, Decorated
<1> QED
  BY <1>1, <1>2, <1>3, <1>4, <1>5, <1>6, TypeInit DEF OutputInv, Forwarding

\* The invariant is inductive.
LEMMA OutputInvStep == OutputInv /\ [Next]_vars => OutputInv'
<1> SUFFICES ASSUME OutputInv, [Next]_vars PROVE OutputInv'
  OBVIOUS
<1>1. ASSUME NEW k \in Calls, CallStep(k) PROVE OutputInv'
  BY <1>1, CallTypeStep, SequentialStep, FilesStep, CallStepForwarding,
     CallStepOutput DEF OutputInv
<1>2. ASSUME NEW p \in Pipes, Forward(p) PROVE OutputInv'
  <2>1. ReadsEOF(p) \/ TakesChunk(p)
    BY <1>2 DEF Forward, Delivers, FindsClosed, Discards, WriteFails
  <2> QED
    BY <1>2, <2>1, ForwardKeeps, ReadsEOFKeeps DEF Forward
<1>3. CASE UNCHANGED vars
  <2>1. UNCHANGED <<confVars, fileVars, callVars, pipeVars>>
    BY <1>3 DEF vars
  <2>2. TypeOK' /\ Sequential' /\ Files'
    BY <1>3, <2>1, TypeStep, PipeStepFiles DEF OutputInv, callVars
  <2>3. Forwarding'
    BY <2>1 DEF OutputInv, Forwarding, Forwarder, IsPrefix, confVars, fileVars,
       callVars, pipeVars
  <2>4. ChunksArrive' /\ ReaderOutlivesWriters' /\ Decorated'
    BY <2>1 DEF OutputInv, ChunksArrive, Reached, ReaderOutlivesWriters,
       Decorated, BeginsLine, IsPrefix, confVars, callVars, pipeVars
  <2> QED
    BY <2>2, <2>3, <2>4 DEF OutputInv
<1> QED
  BY <1>1, <1>2, <1>3, ExitsKeeps, WritesKeeps DEF Next

\* The inductive invariant of the output of a job: which files are open, where
\* each forwarder writes to, and what has become of every chunk it has read.
THEOREM OutputInvCorrect == Spec => []OutputInv
<1> QED
  BY OutputInvInit, OutputInvStep, PTL DEF Spec

\* What a call that is not cut short has forwarded is at its target when it
\* returns; all that is lost is what a target refuses, and what is written to
\* a log file after the drain has timed out.
THEOREM NothingLostCorrect == Spec => []NothingLost
<1>1. OutputInv => NothingLost
  BY DEF OutputInv, NothingLost, DrainsAll, ReaderOutlivesWriters, Forwarding,
         Forwarder, TypeOK, PipeOK
<1> QED
  BY <1>1, OutputInvCorrect, PTL

\* No log file stays open between two calls, and mittnite's streams are never
\* closed.
THEOREM FilesAreClosedCorrect == Spec => []FilesAreClosed
<1>1. OutputInv => FilesAreClosed
  <2> SUFFICES ASSUME OutputInv, \A k \in Starts : pc[k] \in {"idle", "done"},
                      NEW h \in open, h \notin Std
               PROVE  FALSE
    BY DEF OutputInv, Files, FilesAreClosed
  <2>1. h[1] \in Calls /\ h[2] \in Streams /\ h = <<h[1], h[2]>>
    BY PipeShape DEF OutputInv, TypeOK, FileOK
  <2>2. h[1] # 0
    <3>1. <<h[1], h[2]>> \in Std <=> h[1] = 0
      BY <2>1, PipeShape
    <3> QED
      BY <2>1, <3>1
  <2> QED
    BY <2>1, <2>2, CallNumbers DEF OutputInv, Files
<1> QED
  BY <1>1, OutputInvCorrect, PTL

\* No process is killed by SIGPIPE for writing to a pipe of mittnite.
THEOREM ReaderOutlivesWritersCorrect == Spec => []ReaderOutlivesWriters
<1>1. OutputInv => ReaderOutlivesWriters
  BY DEF OutputInv
<1> QED
  BY <1>1, OutputInvCorrect, PTL

\* The begins of lines are decorated, and nothing else, however long the lines
\* are and whatever a target has refused.
THEOREM DecoratedCorrect == Spec => []Decorated
<1>1. OutputInv => Decorated
  BY DEF OutputInv
<1> QED
  BY <1>1, OutputInvCorrect, PTL
=============================================================================
