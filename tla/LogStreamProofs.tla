---------------------------- MODULE LogStreamProofs ----------------------------
(* Theorems about LogStream, for log files, tails, connections and buffers of *)
(* any size.                                                                  *)
EXTENDS LogStream, SequenceTheorems, TLAPS

-----------------------------------------------------------------------------
(* The inductive invariant behind LinesInOrder and TailIsLastLines.           *)

Scanning == {"tail", "next", "put", "poll", "read", "offer", "report", "polled"}

\* What the positions of handler and streamer say about the data they have: in
\* particular, the cells that have been consumed hold what was read of the file.
Coupled ==
  /\ hpc = "start" => spc = "none"
  /\ hpc = "write" <=> held # <<>>
  /\ spc # "done" => todo # <<>>
  /\ spc \in Scanning => /\ scan.cell <= scan.filled /\ scan.filled <= scan.pos
                         /\ scan.pos <= file[Current]
  /\ spc \notin {"tail", "next", "put", "poll"} => buffered = <<>>
  /\ spc \in {"tail", "next", "put"} => Len(buffered) <= tail
  /\ spc = "put" => buffered # <<>>
  /\ spc = "tail" => tail > 0
  /\ spc = "offer" => scan.cell > 0

\* Where the handler, the streamer and the client can be at the same time.
Together ==
  /\ canceled => client # "on"
  /\ client = "closed" => writeErr = "closeSent"
  /\ spc = "none" =>
       /\ todo = logs /\ tailEnd = -1 /\ held = <<>> /\ printed = <<>>
       /\ writeErr = "none" /\ wire \in {<<>>, << <<"refusal">> >>}
       /\ hpc # "done" => wire = <<>>
  /\ hpc = "done" /\ client = "on" => spc = "none"
  /\ todo # logs => todo = <<>> \/ (Len(logs) = 2 /\ todo = Tail(logs))
  /\ writeErr # "none" => todo # logs

\* The stream as the client will see it: what it has printed, what is on the
\* wire, and the line that the handler is going to write.  Of a line it does not
\* matter here whether its text is still that of its slice.
Takes == client = "on" /\ writeErr = "none"

Count == Len(printed) + (IF client = "on" THEN Len(wire) ELSE 0)
                      + (IF held # <<>> /\ Takes THEN 1 ELSE 0)

Identity(message) == IF message \in Messages THEN LineOf(message) ELSE message

Message(k) ==
  IF k <= Len(printed) THEN LineOf(printed[k])
  ELSE IF k <= Len(printed) + Len(wire) THEN Identity(wire[k - Len(printed)])
  ELSE <<held[1], held[2].line>>

Chain ==
  /\ \A k \in 1 .. Count :
       \/ Message(k) \in Streams \X Lines
       \/ /\ k = Count /\ client = "on"
          /\ IF writeErr = "closeSent" THEN Message(k) = <<"close">>
             ELSE hpc = "done" /\ Message(k) = <<"refusal">>
  /\ writeErr = "closeSent" /\ client = "on" =>
       Count > 0 /\ Message(Count) = <<"close">>
  /\ \A i, j \in 1 .. Count :
       i < j /\ Message(j) \in Streams \X Lines =>
         /\ Message(i)[1] = Message(j)[1]
         /\ Message(i)[2] < Message(j)[2]
         /\ ~follow => Message(j)[2] - Message(i)[2] = j - i

\* The line that Scan has returned last.
Position == InCell(scan, scan.cell)

\* How far the stream is behind the scanner.
Progress ==
  /\ spc \in {"open", "fail", "tail"} /\ (Takes \/ todo = logs) =>
       Count = 0 /\ held = <<>>
  /\ spc \in {"tail", "next", "put"} =>
       \A i \in DOMAIN buffered :
         buffered[i].line = Position - Len(buffered) + i
  /\ spc = "tail" =>
       Len(buffered) = IF Position < tail THEN Position ELSE tail
  /\ spc \in {"next", "put"} => scan.cell = scan.filled
  /\ Takes /\ spc \in {"next", "put"} =>
       \A k \in 1 .. Count :
         Message(k) = <<Current, Position - Len(buffered) - Count + k>>
  /\ Takes /\ spc \in {"poll", "read", "offer", "report", "polled"} =>
       LET last == IF spc = "offer" THEN Position - 1 ELSE Position IN
       \A k \in 1 .. Count :
         /\ Message(k)[1] = Current /\ Message(k)[2] <= last
         /\ ~follow /\ spc # "polled" => Message(k)[2] = last - Count + k
  /\ Takes /\ (spc \in {"poll", "report"} \/ (spc = "polled" /\ follow)) =>
       scan.cell = scan.filled
  /\ Takes /\ spc = "poll" => buffered = <<>>

\* What has become of the tail of the first file.
Tailing ==
  /\ tailEnd >= 0 => tail > 0
  /\ spc \in {"open", "fail", "tail"} /\ (Takes \/ todo = logs) => tailEnd = -1
  /\ tailEnd >= 0 => \A k \in 1 .. Count :
       k <= Due => Message(k) = <<logs[1], tailEnd - Due + k>>
  /\ tailEnd >= 0 /\ Takes =>
       /\ todo = logs
       /\ spc \in {"next", "put"} =>
            tailEnd = Position /\ Count + Len(buffered) = Due
       /\ spc \notin {"next", "put"} => Count >= Due
  /\ tailEnd >= 0 /\ writeErr = "closeSent" /\ client = "on" => Count > Due
  /\ tailEnd >= 0 /\ client = "closed" => Len(printed) >= Due

StreamInv ==
  TypeOK /\ Coupled /\ Together /\ Chain /\ Progress /\ Tailing

-----------------------------------------------------------------------------
(* The inductive invariant behind IntactInSmallLogs.                          *)

\* More than half of the buffer, and a line that is read afterwards.
Large(s) == file[s] > Buffer \div 2 + 1

Excused(message) ==
  message \in Messages /\ message[3] = "later" => Large(message[1])

\* A slice in use of the current file lies before the cells that its scanner will
\* refill, or the file is large.  A slice of another buffer has no cell.
HeldText ==
  held # <<>> =>
    /\ held[2].text = "later" => Large(held[1])
    /\ held[2].cell > 0 =>
         held[1] = Current /\ (held[2].cell <= scan.cell \/ Large(Current))

ListText ==
  \A i \in DOMAIN buffered :
    /\ buffered[i].text = "later" => Large(Current)
    /\ buffered[i].cell <= scan.cell \/ Large(Current)

SentText ==
  /\ \A i \in DOMAIN wire : Excused(wire[i])
  /\ \A i \in DOMAIN printed : Excused(printed[i])

TextInv == TypeOK /\ Coupled /\ HeldText /\ ListText /\ SentText

-----------------------------------------------------------------------------
(* The list of files.                                                        *)

\* What remains of the list when a file is finished.
LEMMA Files ==
  /\ \A s : Head(<<s>>) = s /\ Tail(<<s>>) = <<>> /\ Len(<<s>>) = 1
  /\ Head(<<"stdout", "stderr">>) = "stdout"
  /\ Tail(<<"stdout", "stderr">>) = <<"stderr">>
  /\ Len(<<"stdout", "stderr">>) = 2
<1>1. \A s : Head(<<s>>) = s /\ Tail(<<s>>) = <<>> /\ Len(<<s>>) = 1
  OBVIOUS
<1>2. /\ Head(<<"stdout", "stderr">>) = "stdout"
      /\ Tail(<<"stdout", "stderr">>) = <<"stderr">>
      /\ Len(<<"stdout", "stderr">>) = 2
  OBVIOUS
<1> QED
  BY <1>1, <1>2

\* The file that is being read.
LEMMA CurrentFile ==
  ASSUME StreamerOK, todo # <<>>
  PROVE  Current \in Streams /\ Tail(todo) \in {<<>>, <<"stderr">>}
BY Files DEF StreamerOK, Current, Streams

-----------------------------------------------------------------------------
(* The scanner.                                                              *)

\* The scanner is inside the file, and has consumed a part of its buffer.
Placed(s) ==
  /\ s \in [pos : 0 .. MaxLines, filled : 0 .. Buffer, cell : 0 .. Buffer]
  /\ s.cell <= s.filled /\ s.filled <= s.pos /\ s.pos <= file[Current]

\* The buffer is reused from a cell inside of it.
LEMMA BaseInBuffer ==
  ASSUME Placed(scan), Refills
  PROVE  Base \in 0 .. scan.cell /\ Base < Buffer
<1> USE LogStreamAssumption DEF Placed
<1>1. CASE scan.cell > Buffer \div 2
  BY <1>1 DEF Base
<1>2. CASE ~(scan.cell > Buffer \div 2)
  <2>1. Buffer \div 2 < Buffer /\ Buffer \div 2 \in Nat
    OBVIOUS
  <2> QED
    BY <1>2, <2>1 DEF Base
<1> QED
  BY <1>1, <1>2

\* A scanner that is not at the end of the file stays inside of it, and the
\* slices of its buffer show lines of the file, overwritten or not.
LEMMA ScanStays ==
  ASSUME Placed(scan), file[Current] \in 0 .. MaxLines, ~AtEnd
  PROVE  /\ Placed(Scanned) /\ Scanned.cell > 0
         /\ Token(Scanned) \in Slices
         /\ \A slice \in Slices : AfterScan(slice) \in Slices
<1> USE LogStreamAssumption DEF Placed
<1>1. CASE ~Refills
  <2>1. scan.cell < scan.filled
    BY <1>1 DEF Refills
  <2>2. Scanned = [scan EXCEPT !.cell = @ + 1]
    BY <1>1 DEF Scanned
  <2>3. /\ Scanned.pos = scan.pos /\ Scanned.filled = scan.filled
        /\ Scanned.cell = scan.cell + 1
    BY <2>2
  <2>4. Placed(Scanned) /\ Scanned.cell > 0
    BY <2>1, <2>2, <2>3
  <2>5. Token(Scanned) \in Slices
    BY <2>1, <2>3 DEF Token, InCell, Slices, Lines, Texts
  <2>6. \A slice \in Slices : AfterScan(slice) = slice
    BY <1>1 DEF AfterScan
  <2> QED
    BY <2>4, <2>5, <2>6
<1>2. CASE Refills
  <2> DEFINE unread == file[Current] - scan.pos
             filled == IF Base + unread < Buffer THEN Base + unread ELSE Buffer
  <2>1. Base \in 0 .. scan.cell /\ Base < Buffer
    BY <1>2, BaseInBuffer
  <2>2. unread \in Nat /\ unread > 0
    BY <1>2 DEF AtEnd, Refills
  <2>3. Scanned = [pos |-> scan.pos + filled - Base, filled |-> filled,
                   cell |-> Base + 1]
    BY <1>2 DEF Scanned
  <2>4. /\ Scanned.pos = scan.pos + filled - Base /\ Scanned.filled = filled
        /\ Scanned.cell = Base + 1
    BY <2>3
  <2>5. /\ filled \in 0 .. Buffer /\ Base + 1 <= filled
        /\ filled - Base <= unread
    BY <2>1, <2>2
  <2> HIDE DEF filled
  <2>6. Placed(Scanned) /\ Scanned.cell > 0
    BY <2>1, <2>2, <2>3, <2>4, <2>5
  <2>7. \A c \in Base + 1 .. filled : InCell(Scanned, c) \in Lines
    BY <2>1, <2>4, <2>5 DEF InCell, Lines
  <2>8. Token(Scanned) \in Slices
    BY <2>1, <2>4, <2>5, <2>7 DEF Token, Slices, Texts
  <2>9. ASSUME NEW slice \in Slices PROVE AfterScan(slice) \in Slices
    BY <2>4, <2>7 DEF AfterScan, Slices, Texts
  <2> QED
    BY <2>6, <2>8, <2>9
<1> QED
  BY <1>1, <1>2

\* It is one line further then, whichever part of the buffer it reuses, and what
\* has become of a slice still stands for the same line.
LEMMA ScanAdvances ==
  ASSUME Placed(scan), file[Current] \in 0 .. MaxLines, ~AtEnd
  PROVE  /\ InCell(Scanned, Scanned.cell) = InCell(scan, scan.cell) + 1
         /\ \A slice \in Slices : AfterScan(slice).line = slice.line
<1> USE LogStreamAssumption DEF Placed
<1>1. InCell(Scanned, Scanned.cell) = InCell(scan, scan.cell) + 1
  <2>1. CASE ~Refills
    BY <2>1 DEF Scanned, InCell
  <2>2. CASE Refills
    <3> DEFINE unread == file[Current] - scan.pos
               filled == IF Base + unread < Buffer THEN Base + unread ELSE Buffer
    <3>1. Base \in Nat
      BY <2>2, BaseInBuffer
    <3>2. filled \in Int
      BY <3>1
    <3>3. Scanned = [pos |-> scan.pos + filled - Base, filled |-> filled,
                     cell |-> Base + 1]
      BY <2>2 DEF Scanned
    <3> HIDE DEF filled
    <3>4. InCell(Scanned, Scanned.cell) = (scan.pos + filled - Base) - filled + (Base + 1)
      BY <3>3 DEF InCell
    <3>5. InCell(scan, scan.cell) = scan.pos
      BY <2>2 DEF InCell, Refills
    <3> QED
      BY <3>1, <3>2, <3>4, <3>5
  <2> QED
    BY <2>1, <2>2
<1>2. \A slice \in Slices : AfterScan(slice).line = slice.line
  BY DEF AfterScan, Slices
<1> QED
  BY <1>1, <1>2

-----------------------------------------------------------------------------
(* Type correctness.                                                         *)

\* The list of seekTail after a line has been read, before that is appended.
Kept == [i \in DOMAIN buffered |-> AfterScan(buffered[i])]

\* It is a list of slices, and as long as before.
LEMMA KeptSlices ==
  ASSUME buffered \in Seq(Slices),
         \A slice \in Slices : AfterScan(slice) \in Slices
  PROVE  Kept \in Seq(Slices) /\ Len(Kept) = Len(buffered)
<1>1. Len(buffered) \in Nat /\ DOMAIN buffered = 1 .. Len(buffered)
  BY LenProperties
<1>2. \A i \in DOMAIN buffered : buffered[i] \in Slices
  BY <1>1, ElementOfSeq
<1>3. Kept \in [1 .. Len(buffered) -> Slices]
  BY <1>1, <1>2 DEF Kept
<1>4. Kept \in Seq(Slices)
  BY <1>1, <1>3, SeqDef
<1> QED
  BY <1>1, <1>3, <1>4, LenProperties

\* A new scanner is at the begin of its buffer.
LEMMA FreshPlaced ==
  ASSUME NEW n \in Nat, n <= file[Current], file[Current] \in 0 .. MaxLines
  PROVE  Placed(Fresh(n))
BY LogStreamAssumption DEF Placed, Fresh

\* What a send to the client does to the wire.
LEMMA Transmitted ==
  ASSUME HandlerOK, NEW message, Transmits(message),
         message \in Messages \cup {<<"close">>, <<"refusal">>}
  PROVE  /\ wire' \in Seq(Messages \cup {<<"close">>, <<"refusal">>})
         /\ Len(wire') <= MaxWire
<1> DEFINE OnWire == Messages \cup {<<"close">>, <<"refusal">>}
<1>1. wire \in Seq(OnWire) /\ Len(wire) \in Nat /\ MaxWire \in Nat
  BY LogStreamAssumption, LenProperties DEF HandlerOK
<1>2. Append(wire, message) \in Seq(OnWire) /\ Len(Append(wire, message)) = Len(wire) + 1
  <2> HIDE DEF OnWire
  <2> QED
    BY <1>1, AppendProperties DEF OnWire
<1>3. wire' = wire \/ (wire' = Append(wire, message) /\ Len(wire) < MaxWire)
  BY DEF Transmits
<1>4. Len(wire) <= MaxWire
  BY DEF HandlerOK
<1>5. wire' \in Seq(OnWire) /\ Len(wire') <= MaxWire
  <2> HIDE DEF OnWire
  <2> QED
    BY <1>1, <1>2, <1>3, <1>4
<1> QED
  BY <1>5

\* The slice in the hand of the handler.
LEMMA HeldSlice ==
  ASSUME HandlerOK, held # <<>>
  PROVE  /\ held = <<held[1], held[2]>>
         /\ held[1] \in Streams /\ held[2] \in Slices
         /\ held[2].line \in Lines /\ held[2].text \in Texts
         /\ held[2].cell \in 0 .. Buffer
BY DEF HandlerOK, Slices

\* Every step of the handler, the client and the job keeps the types.
LEMMA HandlerTypeStep ==
  ASSUME TypeOK, Coupled,
         \/ \E s \in Streams : Appends(s)
         \/ Prints \/ ClientEnds \/ Quits \/ HandlerStep \/ Panics
  PROVE  TypeOK' /\ Coupled'
<1> USE DEF TypeOK, ConfOK, StreamerOK, ClientOK, confVars, handlerVars,
        streamerVars, clientVars
<1>1. ASSUME NEW s \in Streams, Appends(s) PROVE TypeOK' /\ Coupled'
  <2>1. TypeOK'
    <3>1. ConfOK'
      BY <1>1, LogStreamAssumption DEF Appends
    <3>2. HandlerOK' /\ StreamerOK' /\ ClientOK'
      BY <1>1 DEF Appends, HandlerOK
    <3> QED
      BY <3>1, <3>2
  <2>2. \A t \in Streams : file[t] <= file'[t] /\ file[t] \in Nat /\ file'[t] \in Nat
    BY <1>1 DEF Appends
  <2>3. Coupled'
    <3>1. CASE todo = <<>>
      BY <1>1, <3>1 DEF Appends, Coupled, Scanning
    <3>2. CASE todo # <<>>
      <4>1. Current \in Streams /\ Current' = Current
        BY <1>1, <3>2, CurrentFile DEF Appends, Current
      <4> QED
        BY <1>1, <2>2, <4>1, <3>2 DEF Appends, Coupled, Scanning
    <3> QED
      BY <3>1, <3>2
  <2> QED
    BY <2>1, <2>3
<1> USE DEF HandlerOK
<1>2. CASE Prints
  <2> DEFINE OnWire == Messages \cup {<<"close">>, <<"refusal">>}
  <2>1. /\ Head(wire) \in OnWire /\ Tail(wire) \in Seq(OnWire)
        /\ Len(Tail(wire)) = Len(wire) - 1 /\ Len(wire) \in Nat
    <3> HIDE DEF OnWire
    <3> QED
      BY <1>2, HeadTailProperties, LenProperties DEF Prints, OnWire
  <2>2. printed' \in Seq(Messages)
    <3>1. CASE Head(wire) = <<"refusal">>
      BY <1>2, <3>1 DEF Prints
    <3>2. CASE Head(wire) # <<"refusal">>
      <4>1. Head(wire) \in Messages /\ printed' = Append(printed, Head(wire))
        BY <1>2, <2>1, <3>2 DEF Prints
      <4> QED
        BY <4>1, AppendProperties
    <3> QED
      BY <3>1, <3>2
  <2>3. wire' \in Seq(OnWire) /\ Len(wire') <= MaxWire
    <3> HIDE DEF OnWire
    <3> QED
      BY <1>2, <2>1, LogStreamAssumption DEF Prints
  <2> QED
    BY <1>2, <2>2, <2>3 DEF Prints, Coupled, Current
<1>3. CASE ClientEnds \/ Quits
  <2>1. /\ wire' = <<>> /\ client' \in {"closed", "lost", "quit"}
        /\ UNCHANGED <<confVars, file, hpc, held, canceled, writeErr, streamerVars,
                       panicked, printed>>
    BY <1>3 DEF ClientEnds, Quits, Disconnects
  <2>2. wire' \in Seq(Messages \cup {<<"close">>, <<"refusal">>}) /\ Len(wire') <= MaxWire
    BY <2>1, LogStreamAssumption
  <2>3. HandlerOK'
    BY <2>1, <2>2
  <2>4. ConfOK' /\ StreamerOK' /\ ClientOK' /\ Coupled'
    BY <2>1 DEF Coupled, Current
  <2> QED
    BY <2>3, <2>4
<1>4. CASE EntersSelect
  BY <1>4 DEF EntersSelect, Coupled, Current
<1>5. CASE Refuses
  BY <1>5, Transmitted DEF Refuses, Coupled, Current
<1>6. CASE Serves
  BY <1>6 DEF Serves, Coupled, Current, Scanning
<1>7. CASE DisconnectSeen
  BY <1>7 DEF DisconnectSeen, Coupled, Current
<1>8. CASE WritesLine
  <2>1. held # <<>>
    BY <1>8 DEF WritesLine, Coupled
  <2>2. <<held[1], held[2].line, held[2].text>> \in Messages
    BY <2>1, HeldSlice DEF Messages, Slices
  <2> QED
    BY <1>8, <2>2, Transmitted DEF WritesLine, Coupled, Current
<1>9. CASE HandlerReturns
  BY <1>9 DEF HandlerReturns, Coupled, Current
<1>10. CASE Panics
  BY <1>10 DEF Panics, Coupled, Current
<1> QED
  BY <1>1, <1>2, <1>3, <1>4, <1>5, <1>6, <1>7, <1>8, <1>9, <1>10 DEF HandlerStep

\* The slice stays one when its scanner is given up or goes on.
LEMMA HeldStays ==
  ASSUME HandlerOK
  PROVE  /\ HeldIsFrozen =>
              /\ held' \in {<<>>} \cup (Streams \X Slices)
              /\ held' = <<>> <=> held = <<>>
              /\ held # <<>> =>
                   held' = <<held[1], [line |-> held[2].line, text |-> held[2].text,
                                       cell |-> 0]>>
         /\ \A slice \in Slices : held # <<>> =>
              [held EXCEPT ![2] = slice] = <<held[1], slice>>
<1>1. CASE held = <<>>
  BY <1>1 DEF HeldIsFrozen
<1>2. CASE held # <<>>
  <2>1. PICK s \in Streams, b \in Slices : held = <<s, b>>
    BY <1>2 DEF HandlerOK
  <2>2. [held EXCEPT ![2].cell = 0] = <<s, [b EXCEPT !.cell = 0]>>
    BY <2>1
  <2>3. [b EXCEPT !.cell = 0] = [line |-> b.line, text |-> b.text, cell |-> 0]
    BY DEF Slices
  <2>4. [line |-> b.line, text |-> b.text, cell |-> 0] \in Slices
    BY LogStreamAssumption DEF Slices
  <2>5. \A slice \in Slices : [held EXCEPT ![2] = slice] = <<s, slice>>
    BY <2>1
  <2>6. <<s, [line |-> b.line, text |-> b.text, cell |-> 0]>> # <<>>
    OBVIOUS
  <2> QED
    BY <1>2, <2>1, <2>2, <2>3, <2>4, <2>5, <2>6 DEF HeldIsFrozen
<1> QED
  BY <1>1, <1>2

\* Nor is a slice lost in a line that is too long.
LEMMA OverrunStays ==
  ASSUME NEW slice \in Slices
  PROVE  /\ Overrun(slice) \in Slices
         /\ Overrun(slice).line = slice.line /\ Overrun(slice).cell = slice.cell
         /\ Overrun(slice).text = "later" => slice.text = "later"
BY DEF Overrun, Slices, Texts

\* What the next handler's slice is like when the streamer reads on or fails to.
LEMMA HeldReads ==
  ASSUME HandlerOK, Reads \/ ScanFails,
         \A slice \in Slices : ~AtEnd => AfterScan(slice) \in Slices
  PROVE  /\ held' \in {<<>>} \cup (Streams \X Slices)
         /\ held' = <<>> <=> held = <<>>
         /\ held # <<>> =>
              /\ held'[1] = held[1]
              /\ \/ held'[2] = held[2] \/ held'[2] = Overrun(held[2])
                 \/ Reads /\ ~AtEnd /\ held'[2] = AfterScan(held[2])
<1>1. CASE held' = held
  BY <1>1 DEF HandlerOK
<1>2. CASE held' # held
  <2>1. held # <<>>
    BY <1>2 DEF Reads, ScanFails
  <2>2. held[1] \in Streams /\ held[2] \in Slices /\ Overrun(held[2]) \in Slices
    BY <2>1, HeldSlice, OverrunStays
  <2>3. CASE Reads
    <3>1. ~AtEnd /\ held' = [held EXCEPT ![2] = AfterScan(held[2])]
      BY <1>2, <2>1, <2>3 DEF Reads
    <3>2. held' = <<held[1], AfterScan(held[2])>> /\ AfterScan(held[2]) \in Slices
      BY <2>1, <2>2, <3>1, HeldStays
    <3> QED
      BY <2>1, <2>2, <2>3, <3>1, <3>2
  <2>4. CASE ScanFails
    <3>1. held' = [held EXCEPT ![2] = Overrun(held[2])]
      BY <1>2, <2>1, <2>4 DEF ScanFails
    <3>2. held' = <<held[1], Overrun(held[2])>>
      BY <2>1, <2>2, <3>1, HeldStays
    <3> QED
      BY <2>1, <2>2, <3>2
  <2> QED
    BY <2>3, <2>4
<1> QED
  BY <1>1, <1>2

\* The list of seekTail when its scanner fails.
LEMMA OverrunSlices ==
  ASSUME buffered \in Seq(Slices),
         \/ UNCHANGED buffered
         \/ buffered' = [i \in DOMAIN buffered |-> Overrun(buffered[i])]
  PROVE  /\ buffered' \in Seq(Slices) /\ Len(buffered') = Len(buffered)
         /\ DOMAIN buffered' = DOMAIN buffered
         /\ \A i \in DOMAIN buffered :
              /\ buffered'[i].line = buffered[i].line
              /\ buffered'[i].cell = buffered[i].cell
              /\ buffered'[i].text = "later" => buffered[i].text = "later"
<1>1. CASE UNCHANGED buffered
  BY <1>1
<1>2. CASE buffered' = [i \in DOMAIN buffered |-> Overrun(buffered[i])]
  <2>1. Len(buffered) \in Nat /\ DOMAIN buffered = 1 .. Len(buffered)
        /\ \A i \in DOMAIN buffered : buffered[i] \in Slices
    BY LenProperties, ElementOfSeq
  <2>2. buffered' \in [1 .. Len(buffered) -> Slices]
    BY <1>2, <2>1, OverrunStays
  <2>3. buffered' \in Seq(Slices)
    BY <2>1, <2>2, SeqDef
  <2>4. Len(buffered') = Len(buffered) /\ DOMAIN buffered' = DOMAIN buffered
    BY <2>1, <2>2, <2>3, LenProperties
  <2>5. \A i \in DOMAIN buffered : buffered'[i] = Overrun(buffered[i])
    BY <1>2
  <2> QED
    BY <2>1, <2>3, <2>4, <2>5, OverrunStays
<1> QED
  BY <1>1, <1>2

\* The next file, if there is one, has not been opened.
LEMMA NextFile ==
  ASSUME StreamerOK, todo # <<>>, FinishesFile
  PROVE  /\ todo' \in {<<>>, <<"stderr">>}
         /\ spc' \in {"open", "done"} /\ (spc' = "done" <=> todo' = <<>>)
BY CurrentFile DEF FinishesFile

\* Every step of the streamer keeps the types.
LEMMA StreamerTypeStep ==
  ASSUME TypeOK, Coupled, StreamerStep
  PROVE  TypeOK' /\ Coupled'
<1> USE DEF TypeOK, confVars, clientVars
<1>1. ConfOK' /\ ClientOK' /\ UNCHANGED <<file, logs, tail>>
  BY DEF StreamerStep, ConfOK, ClientOK
<1>2. todo # <<>> /\ Current \in Streams /\ file[Current] \in 0 .. MaxLines
  <2>1. todo # <<>>
    BY DEF StreamerStep, Coupled, StreamerGoto, Opens, TailScans, TailScanned,
           TailChecks, TailPuts, Polls, Reads, ScanFails, Reported, Offers, Polled,
           SendsEOF, SendsError
  <2> QED
    BY <2>1, CurrentFile DEF ConfOK
<1>3. spc \in Scanning => Placed(scan)
  BY <1>2 DEF Coupled, Placed, StreamerOK
<1>4. UNCHANGED <<canceled, panicked>>
  BY DEF StreamerStep
<1>5. CASE Opens
  <2>1. Placed(Fresh(IF tail = 0 THEN file[Current] ELSE 0))
    BY <1>2, FreshPlaced
  <2>2. StreamerOK' /\ Current' = Current
    BY <1>5, <2>1 DEF Opens, StreamerOK, Placed, Current
  <2>3. HandlerOK' /\ (held' = <<>> <=> held = <<>>)
    BY <1>4, <1>5, HeldStays DEF Opens, HandlerOK
  <2>4. /\ scan' = Fresh(IF tail = 0 THEN file[Current] ELSE 0)
        /\ spc' = "tail" => tail > 0
    BY <1>5 DEF Opens
  <2>5. buffered' = <<>> /\ Len(buffered') = 0
    BY <1>5 DEF Opens, Coupled
  <2>6. Coupled'
    BY <1>1, <1>2, <1>5, <2>1, <2>2, <2>3, <2>4, <2>5
       DEF Opens, Coupled, Placed, ConfOK
  <2> QED
    BY <1>1, <2>2, <2>3, <2>6
<1>6. CASE TailScans
  <2>1. Placed(Scanned) /\ Token(Scanned) \in Slices
        /\ \A slice \in Slices : AfterScan(slice) \in Slices
    BY <1>2, <1>3, <1>6, ScanStays DEF TailScans, Scanning
  <2>2. buffered \in Seq(Slices) /\ Len(buffered) \in Nat /\ Len(buffered) <= tail
        /\ tail \in Int /\ tail <= MaxTail
    BY <1>6, LenProperties, LogStreamAssumption
       DEF TailScans, Coupled, StreamerOK, ConfOK
  <2>3. Kept \in Seq(Slices) /\ Len(Kept) = Len(buffered)
    BY <2>1, <2>2, KeptSlices
  <2> DEFINE rest == IF Len(buffered) >= tail THEN Tail(Kept) ELSE Kept
  <2>4. buffered' = Append(rest, Token(Scanned)) /\ scan' = Scanned
    BY <1>6 DEF TailScans, Kept
  <2>5. rest \in Seq(Slices) /\ Len(rest) < tail /\ Len(rest) \in Nat
    <3>1. CASE Len(buffered) >= tail
      <4>1. tail > 0
        BY <1>6 DEF TailScans, Coupled
      <4>2. Kept # <<>>
        BY <2>2, <2>3, <3>1, <4>1, EmptySeq
      <4> QED
        BY <2>2, <2>3, <3>1, <4>1, <4>2, HeadTailProperties
    <3>2. CASE ~(Len(buffered) >= tail)
      BY <2>2, <2>3, <3>2
    <3> QED
      BY <3>1, <3>2
  <2> HIDE DEF rest
  <2>6. buffered' \in Seq(Slices) /\ Len(buffered') <= tail /\ Len(buffered') \in Nat
    BY <2>1, <2>2, <2>4, <2>5, AppendProperties
  <2>7. StreamerOK' /\ Current' = Current
    BY <1>6, <2>1, <2>2, <2>4, <2>6, LogStreamAssumption
       DEF TailScans, StreamerOK, Placed, Current
  <2>8. HandlerOK'
    BY <1>4, <1>6 DEF TailScans, HandlerOK
  <2>9. Coupled'
    BY <1>1, <1>2, <1>6, <2>1, <2>4, <2>6, <2>7 DEF TailScans, Coupled, Placed
  <2> QED
    BY <1>1, <2>7, <2>8, <2>9
<1>7. CASE TailScanned
  <2>0. /\ buffered' \in Seq(Slices) /\ Len(buffered') = Len(buffered)
        /\ scan.pos \in 0 .. MaxLines
    BY <1>7, OverrunSlices DEF TailScanned, StreamerOK
  <2>1. HandlerOK' /\ StreamerOK' /\ Current' = Current
    BY <1>4, <1>7, <2>0 DEF TailScanned, StreamerGoto, HandlerOK, StreamerOK, Current
  <2>2. Coupled'
    BY <1>1, <1>2, <1>7, <2>0, <2>1 DEF TailScanned, StreamerGoto, Coupled, Scanning
  <2> QED
    BY <1>1, <2>1, <2>2
<1>8. CASE TailChecks
  <2>1. HandlerOK' /\ StreamerOK' /\ Current' = Current
    BY <1>4, <1>8 DEF TailChecks, HandlerOK, StreamerOK, Current
  <2>2. Coupled'
    BY <1>1, <1>2, <1>8, <2>1 DEF TailChecks, Coupled, Scanning
  <2> QED
    BY <1>1, <2>1, <2>2
<1>9. CASE TailPuts
  <2>1. /\ Head(buffered) \in Slices /\ Tail(buffered) \in Seq(Slices)
        /\ Len(Tail(buffered)) <= Len(buffered) /\ Len(buffered) \in Nat
        /\ Len(Tail(buffered)) \in Nat
    BY <1>9, HeadTailProperties, LenProperties
       DEF TailPuts, StreamerGoto, Coupled, StreamerOK
  <2>2. [Head(buffered) EXCEPT !.cell = 0] \in Slices
    BY <2>1, LogStreamAssumption DEF Slices
  <2>3. HandlerOK' /\ held' # <<>>
    BY <1>2, <1>4, <1>9, <2>2 DEF TailPuts, HandlerTakes, HandlerOK
  <2>4. StreamerOK' /\ Current' = Current
    BY <1>9, <2>1, LogStreamAssumption DEF TailPuts, StreamerGoto, StreamerOK, Current
  <2>5. Coupled'
    BY <1>1, <1>2, <1>9, <2>1, <2>3, <2>4
       DEF TailPuts, StreamerGoto, HandlerTakes, Coupled, Scanning, ConfOK
  <2> QED
    BY <1>1, <2>3, <2>4, <2>5
<1>10. CASE Polls
  <2>0. Placed(scan)
    BY <1>3, <1>10 DEF Polls, Scanning
  <2>1. Placed(Fresh(scan.pos))
    <3>1. scan.pos \in Nat /\ scan.pos <= file[Current]
      BY <2>0, LogStreamAssumption DEF Placed
    <3> QED
      BY <1>2, <3>1, FreshPlaced
  <2>2. todo' \in {todo, <<>>, <<"stderr">>} /\ spc' \in {"read", "open", "done"}
        /\ (spc' = "read" => todo' = todo)
        /\ (spc' = "done" <=> todo' = <<>>)
    BY <1>2, <1>10, NextFile DEF Polls
  <2>3. buffered' = <<>> /\ buffered' \in Seq(Slices) /\ Len(buffered') = 0
    BY <1>10 DEF Polls
  <2>4. StreamerOK'
    BY <1>10, <2>1, <2>2, <2>3, LogStreamAssumption DEF Polls, StreamerOK, Placed
  <2>5. HandlerOK' /\ (held' = <<>> <=> held = <<>>)
    BY <1>4, <1>10, HeldStays DEF Polls, HandlerOK
  <2>6. Coupled'
    BY <1>1, <1>2, <1>10, <2>1, <2>2, <2>3, <2>5
       DEF Polls, Coupled, Scanning, Placed, Current
  <2> QED
    BY <1>1, <2>4, <2>5, <2>6
<1>11. CASE Reads
  <2>1. CASE AtEnd
    <3>1. HandlerOK' /\ StreamerOK' /\ Current' = Current
      BY <1>4, <1>11, <2>1 DEF Reads, HandlerOK, StreamerOK, Current
    <3>2. Coupled'
      BY <1>1, <1>2, <1>11, <2>1, <3>1 DEF Reads, Coupled, Scanning
    <3> QED
      BY <1>1, <3>1, <3>2
  <2>2. CASE ~AtEnd
    <3>1. Placed(Scanned) /\ Scanned.cell > 0
          /\ \A slice \in Slices : AfterScan(slice) \in Slices
      BY <1>2, <1>3, <1>11, <2>2, ScanStays DEF Reads, Scanning
    <3>2. scan' = Scanned
      BY <1>11, <2>2 DEF Reads
    <3>3. StreamerOK' /\ Current' = Current
      BY <1>11, <2>2, <3>1, <3>2 DEF Reads, StreamerOK, Placed, Current
    <3>4. held' \in {<<>>} \cup (Streams \X Slices) /\ (held' = <<>> <=> held = <<>>)
      BY <1>11, <3>1, HeldReads
    <3>5. HandlerOK'
      BY <1>4, <1>11, <2>2, <3>4 DEF Reads, HandlerOK
    <3>6. Coupled'
      BY <1>1, <1>2, <1>11, <2>2, <3>1, <3>2, <3>3, <3>4
         DEF Reads, Coupled, Scanning, Placed
    <3> QED
      BY <1>1, <3>3, <3>5, <3>6
  <2> QED
    BY <2>1, <2>2
<1>12. CASE Offers
  <2>1. StreamerOK' /\ Current' = Current
    BY <1>12 DEF Offers, StreamerOK, Current
  <2>2. HandlerOK' /\ (hpc' = "write" <=> held' # <<>>)
        /\ (hpc' = "start" => hpc = "start")
    <3>1. CASE HandlerTakes(Token(scan))
      <4>1. Placed(scan) /\ scan.cell > 0
        BY <1>3, <1>12 DEF Offers, Scanning, Coupled
      <4>2. Token(scan) \in Slices
        BY <4>1, LogStreamAssumption DEF Token, Placed, InCell, Slices, Lines,
             Texts
      <4> QED
        BY <1>2, <1>4, <1>12, <3>1, <4>2 DEF Offers, HandlerTakes, HandlerOK
    <3>2. CASE UNCHANGED <<hpc, held>>
      BY <1>4, <1>12, <3>2 DEF Offers, HandlerOK, Coupled
    <3> QED
      BY <1>12, <3>1, <3>2 DEF Offers
  <2>3. Coupled'
    BY <1>1, <1>2, <1>12, <2>1, <2>2 DEF Offers, Coupled, Scanning
  <2> QED
    BY <1>1, <2>1, <2>2, <2>3
<1>16. CASE ScanFails
  <2>1. \A slice \in Slices : ~AtEnd => AfterScan(slice) \in Slices
    BY <1>2, <1>3, <1>16, ScanStays DEF ScanFails, StreamerGoto, Scanning
  <2>2. held' \in {<<>>} \cup (Streams \X Slices) /\ (held' = <<>> <=> held = <<>>)
    BY <1>16, <2>1, HeldReads
  <2>3. HandlerOK' /\ StreamerOK' /\ Current' = Current
    BY <1>4, <1>16, <2>2 DEF ScanFails, StreamerGoto, HandlerOK, StreamerOK, Current
  <2>4. Coupled'
    BY <1>1, <1>2, <1>16, <2>2, <2>3 DEF ScanFails, StreamerGoto, Coupled, Scanning
  <2> QED
    BY <1>1, <2>3, <2>4
<1>17. CASE Reported
  <2>1. HandlerOK' /\ StreamerOK' /\ Current' = Current
    BY <1>4, <1>17 DEF Reported, StreamerGoto, HandlerOK, StreamerOK, Current
  <2>2. Coupled'
    BY <1>1, <1>2, <1>17, <2>1 DEF Reported, StreamerGoto, Coupled, Scanning
  <2> QED
    BY <1>1, <2>1, <2>2
<1>13. CASE Polled
  <2>1. HandlerOK' /\ StreamerOK' /\ Current' = Current
    BY <1>4, <1>13 DEF Polled, StreamerGoto, HandlerOK, StreamerOK, Current
  <2>2. Coupled'
    BY <1>1, <1>2, <1>13, <2>1 DEF Polled, StreamerGoto, Coupled, Scanning
  <2> QED
    BY <1>1, <2>1, <2>2
<1>14. CASE SendsEOF
  <2>1. HandlerOK'
    BY <1>4, <1>14, Transmitted DEF SendsEOF, SendsClose, HandlerOK
  <2>2. StreamerOK'
    BY <1>2, <1>14, NextFile DEF SendsEOF, StreamerOK
  <2>3. Coupled'
    BY <1>1, <1>2, <1>14, NextFile DEF SendsEOF, Coupled, Scanning
  <2> QED
    BY <1>1, <2>1, <2>2, <2>3
<1>15. CASE SendsError
  <2>1. HandlerOK'
    BY <1>4, <1>15 DEF SendsError, HandlerOK
  <2>2. StreamerOK'
    BY <1>2, <1>15, NextFile DEF SendsError, StreamerOK
  <2>3. Coupled'
    BY <1>1, <1>2, <1>15, NextFile DEF SendsError, Coupled, Scanning
  <2> QED
    BY <1>1, <2>1, <2>2, <2>3
<1> QED
  BY <1>5, <1>6, <1>7, <1>8, <1>9, <1>10, <1>11, <1>12, <1>13, <1>14, <1>15, <1>16,
     <1>17 DEF StreamerStep

\* Every step keeps the types.
LEMMA TypeStep == TypeOK /\ Coupled /\ [Next]_vars => TypeOK' /\ Coupled'
<1> SUFFICES ASSUME TypeOK, Coupled, [Next]_vars PROVE TypeOK' /\ Coupled'
  OBVIOUS
<1>1. CASE UNCHANGED vars
  BY <1>1 DEF TypeOK, ConfOK, HandlerOK, StreamerOK, ClientOK, Coupled, Current, vars,
     confVars, handlerVars, streamerVars, clientVars
<1> QED
  BY <1>1, HandlerTypeStep, StreamerTypeStep DEF Next

\* They hold in the beginning.
LEMMA TypeInit == Init => TypeOK /\ Coupled
<1> SUFFICES ASSUME Init PROVE TypeOK /\ Coupled
  OBVIOUS
<1>1. logs \in {<<"stdout">>, <<"stderr">>, <<"stdout", "stderr">>}
  BY DEF Init, Streams
<1>2. ConfOK
  <2>1. missing \subseteq Streams
    BY <1>1 DEF Init, Streams
  <2>2. file \in [Streams -> 0 .. MaxLines]
    BY LogStreamAssumption DEF Init, Lines
  <2> QED
    BY <2>1, <2>2 DEF Init, ConfOK
<1>3. HandlerOK /\ ClientOK
  <2>1. Len(wire) = 0 /\ \A S : wire \in Seq(S) /\ printed \in Seq(S)
    BY DEF Init
  <2>2. Len(wire) <= MaxWire
    BY <2>1, LogStreamAssumption
  <2> QED
    BY <2>1, <2>2 DEF Init, HandlerOK, ClientOK
<1>4. StreamerOK
  BY <1>1, LogStreamAssumption, EmptySeq DEF Init, StreamerOK, Fresh
<1>5. Coupled
  <2>1. todo # <<>>
    <3>1. todo = logs
      BY DEF Init
    <3> QED
      BY <1>1, <3>1
  <2> QED
    BY <2>1 DEF Init, Coupled, Scanning
<1> QED
  BY <1>2, <1>3, <1>4, <1>5 DEF TypeOK

\* Every variable of LogStream keeps its type, for files, tails and buffers of
\* any size; what a slice shows is a line of the file, if not the right one.
THEOREM TypeCorrect == Spec => [](TypeOK /\ Coupled)
BY TypeStep, TypeInit, PTL DEF Spec

-----------------------------------------------------------------------------
(* The stream of messages.                                                   *)

\* The lengths of its parts.
LEMMA Lengths ==
  ASSUME TypeOK
  PROVE  /\ Len(printed) \in Nat /\ Len(wire) \in Nat /\ Count \in Nat
         /\ Len(printed) <= Count
         /\ Count <= Len(printed) + Len(wire) + (IF held # <<>> THEN 1 ELSE 0)
         /\ client # "on" => Count = Len(printed)
         /\ Takes => Count = Len(printed) + Len(wire) + (IF held # <<>> THEN 1 ELSE 0)
         /\ ~Takes => Count <= Len(printed) + Len(wire)
<1>1. Len(printed) \in Nat /\ Len(wire) \in Nat
  BY LenProperties DEF TypeOK, HandlerOK, ClientOK
<1>2. CASE held # <<>> /\ Takes
  <2>1. Count = Len(printed) + Len(wire) + 1
    BY <1>2 DEF Count, Takes
  <2> QED
    BY <1>1, <1>2, <2>1 DEF Takes
<1>3. CASE ~(held # <<>> /\ Takes)
  <2>1. Count = Len(printed) + (IF client = "on" THEN Len(wire) ELSE 0) + 0
    BY <1>3 DEF Count
  <2> QED
    BY <1>1, <1>3, <2>1 DEF Takes
<1> QED
  BY <1>2, <1>3

\* No line is taken for another message.
LEMMA NoLine ==
  /\ <<"close">> \notin Streams \X Lines
  /\ <<"refusal">> \notin Streams \X Lines
  /\ <<"close">> # <<"refusal">>
<1>1. <<"close">> # <<"refusal">>
  OBVIOUS
<1>2. \A a, b, c : <<a>> # <<b, c>>
  OBVIOUS
<1> QED
  BY <1>1, <1>2

\* What identifies a message.
LEMMA Identities ==
  /\ \A m \in Messages : Identity(m) = LineOf(m) /\ LineOf(m) \in Streams \X Lines
  /\ \A s, n, x : LineOf(<<s, n, x>>) = <<s, n>>
  /\ <<"close">> \notin Messages /\ Identity(<<"close">>) = <<"close">>
  /\ <<"refusal">> \notin Messages /\ Identity(<<"refusal">>) = <<"refusal">>
<1>1. \A m \in Messages : Identity(m) = LineOf(m) /\ LineOf(m) \in Streams \X Lines
  BY DEF Identity, LineOf, Messages
<1>2. \A s, n, x : LineOf(<<s, n, x>>) = <<s, n>>
  BY DEF LineOf
<1>3. \A a, s, n, x : <<a>> # <<s, n, x>>
  OBVIOUS
<1>4. <<"close">> \notin Messages /\ <<"refusal">> \notin Messages
  BY <1>3 DEF Messages
<1> QED
  BY <1>1, <1>2, <1>4 DEF Identity

\* What has been printed are lines.
LEMMA PrintedLines ==
  ASSUME TypeOK
  PROVE  \A k \in 1 .. Len(printed) :
           /\ Message(k) = LineOf(printed[k]) /\ printed[k] \in Messages
           /\ LineOf(printed[k]) \in Streams \X Lines
<1>1. \A k \in 1 .. Len(printed) : printed[k] \in Messages
  BY Lengths, ElementOfSeq DEF TypeOK, ClientOK
<1> QED
  BY <1>1, Lengths, Identities DEF Message

\* Nothing happens to the stream.
Untouched == Count' = Count /\ \A k \in 1 .. Count : Message(k)' = Message(k)

\* Most steps do not touch it, although the slice in the handler's hand may be
\* frozen.
LEMMA UntouchedByMost ==
  ASSUME TypeOK, UNCHANGED <<printed, wire, client, writeErr>>,
         held' = <<>> <=> held = <<>>,
         held # <<>> => held'[1] = held[1] /\ held'[2].line = held[2].line
  PROVE  Untouched
<1>1. Count' = Count
  BY DEF Count, Takes
<1>2. ASSUME NEW k \in 1 .. Count PROVE Message(k)' = Message(k)
  BY <1>2, Lengths DEF Message
<1> QED
  BY <1>1, <1>2 DEF Untouched

\* It does not matter to it when the handler writes.
LEMMA UntouchedByWriting ==
  ASSUME TypeOK, Coupled, WritesLine
  PROVE  Untouched
<1> DEFINE OnWire == Messages \cup {<<"close">>, <<"refusal">>}
           message == <<held[1], held[2].line, held[2].text>>
<1>1. /\ held # <<>> /\ held' = <<>> /\ UNCHANGED <<printed, client, writeErr>>
      /\ wire' = IF Takes THEN Append(wire, message) ELSE wire
  BY DEF WritesLine, Transmits, Takes, Coupled, clientVars
<1>2. wire \in Seq(OnWire) /\ message \in Messages
  BY <1>1, HeldSlice DEF TypeOK, HandlerOK, Messages
<1>3. Identity(message) = <<held[1], held[2].line>>
  <2>1. LineOf(message) = <<held[1], held[2].line>>
    BY Identities
  <2> QED
    BY <1>2, <2>1, Identities
<1> HIDE DEF message
<1>4. /\ Len(Append(wire, message)) = Len(wire) + 1
      /\ \A i \in 1 .. Len(wire) : Append(wire, message)[i] = wire[i]
      /\ Append(wire, message)[Len(wire) + 1] = message
  <2>1. message \in OnWire
    BY <1>2
  <2> HIDE DEF OnWire
  <2> QED
    BY <1>2, <2>1, AppendProperties
<1>5. Count' = Count
  <2>1. CASE Takes
    BY <1>1, <1>4, <2>1, Lengths DEF Count, Takes
  <2>2. CASE ~Takes
    BY <1>1, <2>2 DEF Count, Takes
  <2> QED
    BY <2>1, <2>2
<1>6. ASSUME NEW k \in 1 .. Count PROVE Message(k)' = Message(k)
  <2>1. CASE Takes
    BY <1>1, <1>3, <1>4, <1>6, <2>1, Lengths DEF Message
  <2>2. CASE ~Takes
    BY <1>1, <1>6, <2>2, Lengths DEF Message
  <2> QED
    BY <2>1, <2>2
<1> QED
  BY <1>5, <1>6 DEF Untouched

\* Nor when the client prints a line.
LEMMA UntouchedByPrinting ==
  ASSUME TypeOK, Prints, Head(wire) # <<"refusal">>
  PROVE  Untouched
<1> DEFINE OnWire == Messages \cup {<<"close">>, <<"refusal">>}
<1>1. /\ wire # <<>> /\ client = "on" /\ wire' = Tail(wire)
      /\ printed' = Append(printed, Head(wire))
      /\ UNCHANGED <<held, client, writeErr>>
  BY DEF Prints, handlerVars
<1>2. wire \in Seq(OnWire) /\ printed \in Seq(Messages)
  BY DEF TypeOK, HandlerOK, ClientOK
<1>3. Head(wire) \in OnWire
  <2> HIDE DEF OnWire
  <2> QED
    BY <1>1, <1>2, HeadTailProperties
<1>4. Head(wire) \in Messages /\ Identity(Head(wire)) = LineOf(Head(wire))
  BY <1>3, Identities DEF Prints
<1>5. /\ Len(wire') = Len(wire) - 1
      /\ \A i \in 1 .. Len(wire) - 1 : wire'[i] = wire[i + 1]
      /\ Head(wire) = wire[1]
  <2> HIDE DEF OnWire
  <2> QED
    BY <1>1, <1>2, HeadTailProperties, LenProperties
<1>6. /\ Len(printed') = Len(printed) + 1
      /\ \A i \in 1 .. Len(printed) : printed'[i] = printed[i]
      /\ printed'[Len(printed) + 1] = Head(wire)
  BY <1>1, <1>2, <1>4, AppendProperties
<1>7. Len(wire) \in Nat /\ Len(printed) \in Nat /\ Len(wire) > 0
  <2> HIDE DEF OnWire
  <2> QED
    BY <1>1, <1>2, EmptySeq, LenProperties
<1>8. Count' = Count
  BY <1>1, <1>5, <1>6, <1>7 DEF Count, Takes
<1>9. ASSUME NEW k \in 1 .. Count PROVE Message(k)' = Message(k)
  <2>1. CASE k <= Len(printed)
    BY <1>6, <1>7, <2>1 DEF Message
  <2>2. CASE k = Len(printed) + 1
    BY <1>4, <1>5, <1>6, <1>7, <2>2 DEF Message
  <2>3. CASE k > Len(printed) + 1
    BY <1>1, <1>5, <1>6, <1>7, <1>9, <2>3, Lengths DEF Message
  <2> QED
    BY <1>7, <1>9, <2>1, <2>2, <2>3, Lengths
<1> QED
  BY <1>8, <1>9 DEF Untouched

\* When the client goes, only what it has printed remains.
LEMMA CutByClient ==
  ASSUME TypeOK, client' # "on", UNCHANGED printed
  PROVE  /\ Count' = Len(printed) /\ Count' <= Count
         /\ \A k \in 1 .. Count' : Message(k)' = Message(k)
<1>1. Count' = Len(printed)
  BY Lengths DEF Count, Takes
<1>2. ASSUME NEW k \in 1 .. Len(printed) PROVE Message(k)' = Message(k)
  BY <1>2, Lengths DEF Message
<1> QED
  BY <1>1, <1>2, Lengths

\* A line that the handler receives is the last message, if the client is still
\* to get it.
LEMMA ExtendedByHanding ==
  ASSUME TypeOK, Coupled, NEW slice \in Slices, HandlerTakes(slice),
         UNCHANGED <<printed, wire, client, writeErr>>
  PROVE  IF Takes
         THEN /\ Count' = Count + 1
              /\ \A k \in 1 .. Count : Message(k)' = Message(k)
              /\ Message(Count)' = <<Current, slice.line>>
         ELSE Untouched
<1>1. held = <<>> /\ held' = <<Current, slice>> /\ held' # <<>>
  BY DEF HandlerTakes, Coupled
<1>2. CASE Takes
  <2>1. Count = Len(printed) + Len(wire) /\ Count' = Count + 1
    <3>1. Takes'
      BY <1>2 DEF Takes
    <3>2. Count' = Len(printed) + Len(wire) + 1
      BY <1>1, <3>1 DEF Count, Takes
    <3> QED
      BY <1>1, <1>2, <3>2, Lengths
  <2>2. ASSUME NEW k \in 1 .. Count PROVE Message(k)' = Message(k)
    BY <2>1, <2>2, Lengths DEF Message
  <2>3. Message(Count)' = <<held'[1], held'[2].line>>
    BY <2>1, Lengths DEF Message
  <2> QED
    BY <1>1, <1>2, <2>1, <2>2, <2>3
<1>3. CASE ~Takes
  <2>1. Count' = Count
    BY <1>3 DEF Count, Takes
  <2>2. ASSUME NEW k \in 1 .. Count PROVE Message(k)' = Message(k)
    BY <1>3, <2>2, Lengths DEF Message
  <2> QED
    BY <1>3, <2>1, <2>2 DEF Untouched
<1> QED
  BY <1>2, <1>3

\* So is another message of the handler.
LEMMA ExtendedBySending ==
  ASSUME TypeOK, held = <<>>, held' = <<>>, UNCHANGED <<printed, client>>,
         NEW message \in {<<"close">>, <<"refusal">>}, Transmits(message)
  PROVE  IF Takes
         THEN /\ Count' = Count + 1
              /\ \A k \in 1 .. Count : Message(k)' = Message(k)
              /\ Message(Count)' = message
         ELSE Untouched
<1> DEFINE OnWire == Messages \cup {<<"close">>, <<"refusal">>}
<1>1. CASE Takes
  <2>1. wire' = Append(wire, message)
    BY <1>1 DEF Transmits, Takes
  <2>2. wire \in Seq(OnWire) /\ message \in OnWire
    BY DEF TypeOK, HandlerOK
  <2>3. /\ Len(wire') = Len(wire) + 1
        /\ \A i \in 1 .. Len(wire) : wire'[i] = wire[i]
        /\ wire'[Len(wire) + 1] = message
    <3> HIDE DEF OnWire
    <3> QED
      BY <2>1, <2>2, AppendProperties
  <2>4. Count = Len(printed) + Len(wire) /\ Count' = Len(printed) + Len(wire) + 1
    <3>1. Count' = Len(printed) + Len(wire')
      <4>1. Len(printed) \in Nat /\ Len(wire') \in Nat
        BY <2>3, Lengths
      <4>2. Count' = Len(printed) + Len(wire') + 0
        BY <1>1 DEF Count, Takes
      <4> QED
        BY <4>1, <4>2
    <3> QED
      BY <1>1, <2>3, <3>1, Lengths
  <2>5. ASSUME NEW k \in 1 .. Count PROVE Message(k)' = Message(k)
    BY <2>3, <2>4, <2>5, Lengths DEF Message
  <2>6. Message(Count)' = message
    <3>1. Message(Count)' = Identity(message)
      BY <2>3, <2>4, Lengths DEF Message
    <3> QED
      BY <3>1, Identities
  <2> QED
    BY <1>1, <2>4, <2>5, <2>6, Lengths
<1>2. CASE ~Takes
  <2>1. wire' = wire
    BY <1>2 DEF Transmits, Takes
  <2>2. Count' = Count
    BY <2>1 DEF Count, Takes
  <2>3. ASSUME NEW k \in 1 .. Count PROVE Message(k)' = Message(k)
    BY <1>2, <2>1, <2>3, Lengths DEF Message
  <2> QED
    BY <1>2, <2>2, <2>3 DEF Untouched
<1> QED
  BY <1>1, <1>2

-----------------------------------------------------------------------------
(* Handler, streamer and client.                                             *)

\* The first message on the wire.
LEMMA FirstOnWire ==
  ASSUME TypeOK, client = "on", wire # <<>>
  PROVE  /\ Len(printed) + 1 \in 1 .. Count
         /\ Message(Len(printed) + 1) = Identity(Head(wire))
<1> DEFINE OnWire == Messages \cup {<<"close">>, <<"refusal">>}
<1>1. wire \in Seq(OnWire)
  BY DEF TypeOK, HandlerOK
<1>2. Len(wire) \in Nat /\ Len(wire) > 0 /\ Head(wire) = wire[1]
  <2> HIDE DEF OnWire
  <2> QED
    BY <1>1, EmptySeq, HeadTailProperties
<1>3. Count = Len(printed) + Len(wire) + (IF held # <<>> /\ Takes THEN 1 ELSE 0)
  BY DEF Count
<1>4. Len(printed) \in Nat
  BY Lengths
<1>5. CASE held # <<>> /\ Takes
  <2>1. Count = Len(printed) + Len(wire) + 1
    BY <1>3, <1>5
  <2> QED
    BY <1>2, <1>4, <1>5, <2>1 DEF Message
<1>6. CASE ~(held # <<>> /\ Takes)
  <2>1. Count = Len(printed) + Len(wire) + 0
    BY <1>3, <1>6
  <2> QED
    BY <1>2, <1>4, <1>6, <2>1 DEF Message
<1> QED
  BY <1>5, <1>6

\* If that is the close frame, then it is the last message, and was sent.
LEMMA CloseIsLast ==
  ASSUME TypeOK, Chain, client = "on", wire # <<>>, Head(wire) = <<"close">>
  PROVE  writeErr = "closeSent" /\ Count = Len(printed) + 1
<1>1. PICK k \in 1 .. Count : k = Len(printed) + 1 /\ Message(k) = <<"close">>
  BY FirstOnWire, Identities
<1>2. \/ Message(k) \in Streams \X Lines
      \/ k = Count /\ (IF writeErr = "closeSent" THEN Message(k) = <<"close">>
                       ELSE Message(k) = <<"refusal">>)
  BY DEF Chain
<1> QED
  BY <1>1, <1>2, NoLine

\* The files that remain when one has been finished are not all.
LEMMA FilesRemain ==
  ASSUME TypeOK, Together, todo # <<>>, StreamerStep, FinishesFile
  PROVE  /\ todo' # logs'
         /\ todo' = <<>> \/ (Len(logs') = 2 /\ todo' = Tail(logs'))
<1>1. logs \in {<<"stdout">>, <<"stderr">>, <<"stdout", "stderr">>} /\ logs' = logs
  BY DEF TypeOK, ConfOK, Streams, StreamerStep, confVars
<1>2. todo' = Tail(todo)
  BY DEF FinishesFile
<1>3. todo' = <<>> \/ (Len(logs) = 2 /\ todo' = Tail(logs))
  BY <1>1, <1>2, Files DEF Together
<1>4. todo' # logs
  BY <1>1, <1>3, Files
<1> QED
  BY <1>1, <1>3, <1>4

\* Where they are relative to each other.
LEMMA TogetherStep ==
  ASSUME TypeOK, Coupled, Together, Chain, [Next]_vars
  PROVE  Together'
<1> USE DEF Together, confVars, handlerVars, streamerVars, clientVars
<1>1. CASE UNCHANGED vars
  BY <1>1 DEF vars
<1>2. ASSUME NEW s \in Streams, Appends(s) PROVE Together'
  BY <1>2 DEF Appends
<1>3. CASE Prints
  <2>1. CASE spc = "none"
    <3>1. wire = << <<"refusal">> >>
      BY <1>3, <2>1 DEF Prints
    <3>2. Head(wire) = <<"refusal">> /\ Tail(wire) = <<>>
      BY <3>1, Files
    <3> QED
      BY <1>3, <2>1, <3>2 DEF Prints
  <2>2. CASE spc # "none"
    BY <1>3, <2>2 DEF Prints
  <2> QED
    BY <2>1, <2>2
<1>4. CASE ClientEnds
  BY <1>4, CloseIsLast DEF ClientEnds, Disconnects
<1>5. CASE Quits
  BY <1>5 DEF Quits, Disconnects
<1>6. CASE HandlerStep
  <2>1. CASE Refuses
    <3>1. spc = "none" /\ wire = <<>>
      BY <2>1 DEF Refuses, Coupled
    <3>2. Append(<<>>, <<"refusal">>) = << <<"refusal">> >>
      OBVIOUS
    <3>3. wire' \in {<<>>, << <<"refusal">> >>}
      BY <2>1, <3>1, <3>2 DEF Refuses, Transmits
    <3> QED
      BY <2>1, <3>1, <3>3 DEF Refuses
  <2>2. CASE Serves
    BY <2>2 DEF Serves, Coupled
  <2>3. CASE DisconnectSeen
    BY <2>3 DEF DisconnectSeen
  <2>4. CASE WritesLine
    <3>1. spc # "none"
      BY <2>4 DEF WritesLine, Coupled
    <3> QED
      BY <2>4, <3>1 DEF WritesLine
  <2>6. CASE EntersSelect
    BY <2>6 DEF EntersSelect
  <2>5. CASE HandlerReturns
    <3>1. client # "on"
      BY <2>5 DEF HandlerReturns
    <3> QED
      BY <2>5, <3>1 DEF HandlerReturns
  <2> QED
    BY <1>6, <2>1, <2>2, <2>3, <2>4, <2>5, <2>6 DEF HandlerStep
<1>7. CASE Panics
  BY <1>7 DEF Panics
<1>8. CASE StreamerStep
  <2>1. UNCHANGED <<logs, canceled, client, printed>> /\ spc # "none"
    BY <1>8 DEF StreamerStep, Opens, TailScans, TailScanned, TailChecks, TailPuts,
       Polls, Reads, ScanFails, Reported, Offers, Polled, SendsEOF, SendsError,
       StreamerGoto
  <2>2. spc' # "none"
    BY <1>8 DEF StreamerStep, Opens, TailScans, TailScanned, TailChecks, TailPuts,
       Polls, Reads, ScanFails, Reported, Offers, Polled, SendsEOF, SendsError,
       StreamerGoto, FinishesFile
  <2>3. writeErr # "none" => writeErr' = writeErr
    BY <1>8 DEF StreamerStep, Opens, TailScans, TailScanned, TailChecks, TailPuts,
       Polls, Reads, ScanFails, Reported, Offers, Polled, SendsEOF, SendsClose,
       SendsError
  <2>4. hpc' = "done" <=> hpc = "done"
    BY <1>8 DEF StreamerStep, Opens, TailScans, TailScanned, TailChecks, TailPuts,
       Polls, Reads, ScanFails, Reported, Offers, Polled, SendsEOF, SendsError,
       HandlerTakes
  <2>5. \/ todo' = todo /\ writeErr' = writeErr
        \/ FinishesFile
    BY <1>8 DEF StreamerStep, Opens, TailScans, TailScanned, TailChecks, TailPuts,
       Polls, Reads, ScanFails, Reported, Offers, Polled, SendsEOF, SendsError
  <2>6. CASE FinishesFile
    <3>1. todo # <<>>
      <4>1. spc # "done"
        BY <1>8 DEF StreamerStep, Opens, TailScans, TailScanned, TailChecks,
           TailPuts, Polls, Reads, ScanFails, Reported, Offers, Polled, SendsEOF,
           SendsError, StreamerGoto
      <4> QED
        BY <4>1 DEF Coupled
    <3>2. todo' # logs' /\ (todo' = <<>> \/ (Len(logs') = 2 /\ todo' = Tail(logs')))
      BY <1>8, <2>6, <3>1, FilesRemain
    <3> QED
      BY <2>1, <2>2, <2>3, <2>4, <3>2
  <2>7. CASE todo' = todo /\ writeErr' = writeErr
    BY <2>1, <2>2, <2>4, <2>7
  <2> QED
    BY <2>5, <2>6, <2>7
<1> QED
  BY <1>1, <1>2, <1>3, <1>4, <1>5, <1>6, <1>7, <1>8 DEF Next

-----------------------------------------------------------------------------
(* The scanner and the stream.                                               *)

\* The positions that the data allows the scanner.
LEMMA ScannerPlaced ==
  ASSUME TypeOK, Coupled, spc \in Scanning
  PROVE  /\ todo # <<>> /\ Current \in Streams /\ file[Current] \in 0 .. MaxLines
         /\ Placed(scan) /\ Position \in Int
         /\ scan.pos \in Nat /\ scan.filled \in Nat /\ scan.cell \in Nat
<1>1. todo # <<>>
  BY DEF Coupled, Scanning
<1>2. Current \in Streams /\ file[Current] \in 0 .. MaxLines
  BY <1>1, CurrentFile DEF TypeOK, ConfOK
<1>3. Placed(scan)
  BY <1>2 DEF Coupled, Placed, TypeOK, StreamerOK
<1> QED
  BY <1>1, <1>2, <1>3, LogStreamAssumption DEF Placed, Position, InCell

\* A line that seekTail reads is added to its list, in place of the first one
\* when the list is full; the slices in the list stay those of their lines.
LEMMA TailScansLine ==
  ASSUME TypeOK, Coupled, TailScans, todo' = todo, file' = file
  PROVE  LET lost == IF Len(buffered) >= tail THEN 1 ELSE 0 IN
         /\ Len(buffered') = Len(buffered) + 1 - lost
         /\ \A i \in 1 .. Len(buffered) - lost :
              buffered'[i] = AfterScan(buffered[i + lost])
         /\ \A i \in 1 .. Len(buffered) - lost :
              buffered'[i].line = buffered[i + lost].line
         /\ buffered'[Len(buffered')] = Token(scan')
         /\ buffered'[Len(buffered')].line = Position + 1
         /\ Position' = Position + 1
<1> DEFINE lost == IF Len(buffered) >= tail THEN 1 ELSE 0
           rest == IF Len(buffered) >= tail THEN Tail(Kept) ELSE Kept
<1>1. /\ scan' = Scanned /\ ~AtEnd /\ spc = "tail" /\ tail > 0
      /\ buffered' = Append(rest, Token(scan'))
  BY DEF TailScans, Kept, Coupled
<1>2. Placed(scan) /\ file[Current] \in 0 .. MaxLines
  BY <1>1, ScannerPlaced DEF Scanning
<1>3. /\ InCell(Scanned, Scanned.cell) = Position + 1
      /\ Token(Scanned) \in Slices
      /\ \A slice \in Slices :
           AfterScan(slice) \in Slices /\ AfterScan(slice).line = slice.line
  BY <1>1, <1>2, ScanAdvances, ScanStays DEF Position
<1>4. /\ buffered \in Seq(Slices) /\ Len(buffered) \in Nat
      /\ DOMAIN buffered = 1 .. Len(buffered)
      /\ \A i \in DOMAIN buffered : buffered[i] \in Slices
  <2>1. buffered \in Seq(Slices)
    BY DEF TypeOK, StreamerOK
  <2> QED
    BY <2>1, LenProperties, ElementOfSeq
<1>5. /\ Kept \in Seq(Slices) /\ Len(Kept) = Len(buffered)
      /\ \A i \in DOMAIN buffered : Kept[i] = AfterScan(buffered[i])
  BY <1>3, <1>4, KeptSlices DEF Kept
<1>6. /\ rest \in Seq(Slices) /\ Len(rest) = Len(buffered) - lost /\ Len(rest) \in Nat
      /\ \A i \in 1 .. Len(rest) : rest[i] = Kept[i + lost]
  <2>1. CASE Len(buffered) >= tail
    <3>1. Kept # <<>>
      BY <1>1, <1>4, <1>5, <2>1, EmptySeq DEF TypeOK, ConfOK
    <3> QED
      BY <1>4, <1>5, <2>1, <3>1, HeadTailProperties
  <2>2. CASE ~(Len(buffered) >= tail)
    BY <1>4, <1>5, <2>2
  <2> QED
    BY <2>1, <2>2
<1> HIDE DEF rest
<1>7. /\ Len(buffered') = Len(rest) + 1
      /\ \A i \in 1 .. Len(rest) : buffered'[i] = rest[i]
      /\ buffered'[Len(rest) + 1] = Token(scan')
  BY <1>1, <1>3, <1>6, AppendProperties
<1>8. Position' = Position + 1 /\ Token(scan').line = Position + 1
  BY <1>1, <1>3 DEF Position, InCell, Token
<1>9. lost \in {0, 1}
  OBVIOUS
<1> HIDE DEF lost
<1>10. Len(buffered') = Len(buffered) + 1 - lost
  BY <1>4, <1>6, <1>7, <1>9
<1>11. ASSUME NEW i \in 1 .. Len(buffered) - lost
       PROVE  i + lost \in DOMAIN buffered /\ buffered'[i] = AfterScan(buffered[i + lost])
  <2>1. i + lost \in DOMAIN buffered
    BY <1>4, <1>9
  <2>2. i \in 1 .. Len(rest)
    BY <1>6
  <2> QED
    BY <1>5, <1>6, <1>7, <2>1, <2>2
<1>12. \A i \in 1 .. Len(buffered) - lost : buffered'[i].line = buffered[i + lost].line
  BY <1>3, <1>4, <1>11
<1>13. buffered'[Len(buffered')] = Token(scan')
  BY <1>6, <1>7
<1> QED
  BY <1>8, <1>10, <1>11, <1>12, <1>13 DEF lost

\* Reading on moves the scanner by one line.
LEMMA ReadsLine ==
  ASSUME TypeOK, Coupled, Reads, ~AtEnd, todo' = todo, file' = file
  PROVE  spc' = "offer" /\ Position' = Position + 1
<1>1. scan' = Scanned /\ spc = "read" /\ spc' = "offer"
  BY DEF Reads
<1>2. Placed(scan) /\ file[Current] \in 0 .. MaxLines
  BY <1>1, ScannerPlaced DEF Scanning
<1>3. InCell(Scanned, Scanned.cell) = InCell(scan, scan.cell) + 1
  BY <1>2, ScanAdvances
<1> QED
  BY <1>1, <1>3 DEF Position, InCell

\* The handler's slice stays one of the same line.
LEMMA HeldShows ==
  ASSUME TypeOK, Coupled, Reads \/ ScanFails
  PROVE  /\ held' = <<>> <=> held = <<>>
         /\ held # <<>> => held'[1] = held[1] /\ held'[2].line = held[2].line
<1>1. \A slice \in Slices :
        ~AtEnd => AfterScan(slice) \in Slices /\ AfterScan(slice).line = slice.line
  <2>1. spc \in Scanning
    BY DEF Reads, ScanFails, StreamerGoto, Scanning
  <2> QED
    BY <2>1, ScannerPlaced, ScanStays, ScanAdvances
<1>2. HandlerOK
  BY DEF TypeOK
<1> QED
  BY <1>1, <1>2, HeldReads, HeldSlice, OverrunStays

\* What the handler's slice becomes when the streamer changes the scanner.
LEMMA HeldFrozen ==
  ASSUME TypeOK, HeldIsFrozen
  PROVE  /\ held' = <<>> <=> held = <<>>
         /\ held # <<>> => /\ held'[1] = held[1] /\ held'[2].line = held[2].line
                           /\ held'[2].text = held[2].text /\ held'[2].cell = 0
BY HeldStays DEF TypeOK

\* The first slice of the list goes to the handler.
LEMMA PutsLine ==
  ASSUME TypeOK, Coupled, TailPuts
  PROVE  /\ HandlerTakes([Head(buffered) EXCEPT !.cell = 0])
         /\ [Head(buffered) EXCEPT !.cell = 0] \in Slices
         /\ [Head(buffered) EXCEPT !.cell = 0].line = buffered[1].line
         /\ [Head(buffered) EXCEPT !.cell = 0].text = buffered[1].text
         /\ [Head(buffered) EXCEPT !.cell = 0].cell = 0
         /\ Len(buffered) \in Nat /\ Len(buffered) > 0
         /\ Len(buffered') = Len(buffered) - 1
         /\ \A i \in 1 .. Len(buffered') : buffered'[i] = buffered[i + 1]
<1>1. buffered \in Seq(Slices) /\ buffered # <<>> /\ buffered' = Tail(buffered)
  BY DEF TailPuts, StreamerGoto, TypeOK, StreamerOK, Coupled
<1>2. /\ Len(buffered) \in Nat /\ Len(buffered) > 0
      /\ Len(buffered') = Len(buffered) - 1
      /\ \A i \in 1 .. Len(buffered') : buffered'[i] = buffered[i + 1]
      /\ Head(buffered) = buffered[1] /\ Head(buffered) \in Slices
  BY <1>1, EmptySeq, HeadTailProperties, LenProperties
<1>3. [Head(buffered) EXCEPT !.cell = 0]
        = [line |-> buffered[1].line, text |-> buffered[1].text, cell |-> 0]
  BY <1>2 DEF Slices
<1>4. [line |-> buffered[1].line, text |-> buffered[1].text, cell |-> 0] \in Slices
  BY <1>2, LogStreamAssumption DEF Slices
<1> QED
  BY <1>2, <1>3, <1>4 DEF TailPuts

\* A step at which nothing happens to the stream, and nothing to the streamer
\* either.
Quiet ==
  /\ Untouched /\ UNCHANGED <<client, writeErr, streamerVars, confVars>>
  /\ hpc = "done" => hpc' = "done"
  /\ held = <<>> => held' = <<>>

\* What the other goroutines and the job do to the stream.
LEMMA OthersEffect ==
  ASSUME TypeOK, Coupled, Together, Chain, [Next]_vars, ~StreamerStep
  PROVE  \/ Quiet
         \/ ClientEnds \/ Quits \/ Refuses \/ Serves
         \/ Prints /\ spc = "none" /\ Count' = 0
<1> USE DEF confVars, handlerVars, streamerVars, clientVars
<1>1. ASSUME UNCHANGED <<printed, wire, client, writeErr, held, streamerVars, confVars>>,
             hpc = "done" => hpc' = "done"
      PROVE  Quiet
  BY <1>1, UntouchedByMost DEF Quiet
<1>2. CASE Prints /\ Head(wire) # <<"refusal">>
  BY <1>2, UntouchedByPrinting DEF Quiet, Prints
<1>3. CASE Prints /\ Head(wire) = <<"refusal">>
  <2>1. client = "on" /\ wire # <<>> /\ wire' = Tail(wire)
        /\ UNCHANGED <<printed, held, client, spc>>
    BY <1>3 DEF Prints
  <2>2. PICK k \in 1 .. Count : Message(k) = <<"refusal">>
    BY <1>3, <2>1, FirstOnWire, Identities
  <2>3. hpc = "done"
    BY <2>2, NoLine DEF Chain
  <2>4. spc = "none"
    BY <2>1, <2>3 DEF Together
  <2>5. wire = << <<"refusal">> >> /\ printed = <<>> /\ held = <<>>
    BY <2>1, <2>4 DEF Together
  <2>6. wire' = <<>> /\ printed' = <<>> /\ held' = <<>>
    BY <2>1, <2>5, Files
  <2>7. Count' = 0
    BY <2>6 DEF Count
  <2> QED
    BY <1>3, <2>4, <2>7
<1>4. CASE WritesLine
  <2>1. held' = <<>> /\ UNCHANGED <<client, writeErr, streamerVars, confVars>>
        /\ hpc # "done"
    BY <1>4 DEF WritesLine
  <2> QED
    BY <1>4, <2>1, UntouchedByWriting DEF Quiet
<1>5. CASE \/ \E s \in Streams : Appends(s)
           \/ EntersSelect \/ DisconnectSeen \/ HandlerReturns \/ Panics
           \/ UNCHANGED vars
  <2>1. UNCHANGED <<printed, wire, client, writeErr, held, streamerVars, confVars>>
    BY <1>5 DEF vars, Appends, EntersSelect, DisconnectSeen, HandlerReturns, Panics
  <2>2. hpc = "done" => hpc' = "done"
    BY <1>5 DEF vars, Appends, EntersSelect, DisconnectSeen, HandlerReturns, Panics
  <2> QED
    BY <1>1, <2>1, <2>2
<1> QED
  BY <1>2, <1>3, <1>4, <1>5 DEF Next, HandlerStep

\* Nor does the streamer touch it, unless it hands over a line or ends a file.
LEMMA StreamerEffect ==
  ASSUME TypeOK, Coupled, StreamerStep
  PROVE  \/ /\ Untouched /\ UNCHANGED <<hpc, writeErr>>
            /\ held = <<>> <=> held' = <<>>
            /\ \/ Opens \/ TailScans \/ TailScanned \/ TailChecks \/ Polls \/ Reads
               \/ ScanFails \/ Reported \/ Offers \/ Polled \/ SendsError
         \/ TailPuts
         \/ Offers /\ spc' = "read" /\ HandlerTakes(Token(scan))
         \/ SendsEOF
<1> USE DEF confVars, handlerVars, streamerVars, clientVars
<1>1. UNCHANGED <<client, printed, file>>
  BY DEF StreamerStep
<1>2. ASSUME UNCHANGED <<wire, writeErr, hpc, held>>
      PROVE  Untouched /\ UNCHANGED <<hpc, writeErr>> /\ (held = <<>> <=> held' = <<>>)
  BY <1>1, <1>2, UntouchedByMost
<1>3. CASE Opens \/ Polls
  <2>1. HeldIsFrozen /\ UNCHANGED <<wire, writeErr, hpc>>
    BY <1>3 DEF Opens, Polls
  <2> QED
    BY <1>1, <1>3, <2>1, HeldFrozen, UntouchedByMost
<1>4. CASE Reads \/ ScanFails
  <2>1. UNCHANGED <<wire, writeErr, hpc>>
    BY <1>4 DEF Reads, ScanFails
  <2> QED
    BY <1>1, <1>4, <2>1, HeldShows, UntouchedByMost
<1>5. CASE TailScans \/ TailScanned \/ TailChecks \/ Reported \/ Polled \/ SendsError
  <2>1. UNCHANGED <<wire, writeErr, hpc, held>>
    BY <1>5 DEF TailScans, TailScanned, TailChecks, Reported, Polled, SendsError
  <2> QED
    BY <1>2, <1>5, <2>1
<1>6. CASE Offers
  BY <1>2, <1>6 DEF Offers
<1> QED
  BY <1>3, <1>4, <1>5, <1>6 DEF StreamerStep

\* At the end of the last file a close frame is the last message, or the stream
\* stays as it is: when the frame is too late, and when nothing is sent any more.
LEMMA SendsEOFEffect ==
  ASSUME TypeOK, Coupled, StreamerStep, SendsEOF
  PROVE  /\ hpc = "wait" /\ hpc' = "wait" /\ ~Takes'
         /\ \/ /\ Takes /\ writeErr' = "closeSent"
               /\ Count' = Count + 1
               /\ \A k \in 1 .. Count : Message(k)' = Message(k)
               /\ Message(Count)' = <<"close">>
            \/ /\ Untouched
               /\ \/ writeErr' = writeErr \/ client # "on"
                  \/ Takes /\ writeErr' = "timeout"
<1>1. /\ hpc = "wait" /\ hpc' = "wait" /\ held = <<>> /\ held' = <<>>
      /\ SendsClose /\ UNCHANGED <<client, printed>>
  BY DEF StreamerStep, SendsEOF, Coupled, clientVars
<1>2. CASE writeErr = "none" /\ Transmits(<<"close">>) /\ writeErr' = "closeSent"
  BY <1>1, <1>2, ExtendedBySending DEF Takes
<1>3. CASE writeErr = "none" /\ client = "on" /\ writeErr' = "timeout" /\ UNCHANGED wire
  <2>1. Takes /\ ~Takes'
    BY <1>3 DEF Takes
  <2>2. Count' = Count
    BY <1>1, <1>3 DEF Count
  <2>3. ASSUME NEW k \in 1 .. Count PROVE Message(k)' = Message(k)
    BY <1>1, <1>3, <2>3, Lengths DEF Message
  <2> QED
    BY <1>1, <1>3, <2>1, <2>2, <2>3 DEF Untouched
<1>4. CASE writeErr # "none" /\ UNCHANGED <<wire, writeErr>>
  BY <1>1, <1>4, UntouchedByMost DEF Takes
<1> QED
  BY <1>1, <1>2, <1>3, <1>4 DEF SendsClose

-----------------------------------------------------------------------------
(* The order of the stream.                                                  *)

\* It stays when nothing happens to the stream,
LEMMA ChainKept ==
  ASSUME Chain, TypeOK, Untouched, UNCHANGED <<client, writeErr, follow>>,
         hpc = "done" => hpc' = "done"
  PROVE  Chain'
<1>1. Count' = Count /\ Count \in Nat /\ \A k \in 1 .. Count : Message(k)' = Message(k)
  BY Lengths DEF Untouched
<1>2. \A k \in 1 .. Count' :
        \/ Message(k)' \in Streams \X Lines
        \/ /\ k = Count' /\ client' = "on"
           /\ IF writeErr' = "closeSent" THEN Message(k)' = <<"close">>
              ELSE hpc' = "done" /\ Message(k)' = <<"refusal">>
  BY <1>1 DEF Chain, Lines
<1>3. writeErr' = "closeSent" /\ client' = "on" => Count' > 0 /\ Message(Count)' = <<"close">>
  BY <1>1 DEF Chain
<1>4. \A i, j \in 1 .. Count' :
       i < j /\ Message(j)' \in Streams \X Lines =>
         /\ Message(i)'[1] = Message(j)'[1]
         /\ Message(i)'[2] < Message(j)'[2]
         /\ ~follow' => Message(j)'[2] - Message(i)'[2] = j - i
  BY <1>1 DEF Chain
<1> QED
  BY <1>2, <1>3, <1>4 DEF Chain

\* when the close frame is too late,
LEMMA ChainTimedOut ==
  ASSUME Chain, TypeOK, Untouched, Takes, hpc # "done", writeErr' = "timeout",
         UNCHANGED <<client, follow>>
  PROVE  Chain'
<1>1. Count' = Count /\ Count \in Nat /\ \A k \in 1 .. Count : Message(k)' = Message(k)
  BY Lengths DEF Untouched
<1>2. \A k \in 1 .. Count : Message(k) \in Streams \X Lines
  BY DEF Chain, Takes
<1>3. \A k \in 1 .. Count' : Message(k)' \in Streams \X Lines
  BY <1>1, <1>2 DEF Lines
<1>4. \A i, j \in 1 .. Count' :
       i < j /\ Message(j)' \in Streams \X Lines =>
         /\ Message(i)'[1] = Message(j)'[1]
         /\ Message(i)'[2] < Message(j)'[2]
         /\ ~follow' => Message(j)'[2] - Message(i)'[2] = j - i
  BY <1>1, <1>2 DEF Chain
<1> QED
  BY <1>3, <1>4 DEF Chain

\* when the client goes,
LEMMA ChainCut ==
  ASSUME Chain, TypeOK, TypeOK', client' # "on", UNCHANGED <<printed, follow>>
  PROVE  Chain'
<1>1. /\ Count' = Len(printed) /\ Count' <= Count /\ Count \in Nat /\ Count' \in Nat
      /\ \A k \in 1 .. Count' : Message(k)' = Message(k)
  BY CutByClient, Lengths
<1>2. \A k \in 1 .. Count' : k \in 1 .. Count /\ Message(k) \in Streams \X Lines
  BY <1>1, PrintedLines
<1>3. \A k \in 1 .. Count' : Message(k)' \in Streams \X Lines
  BY <1>1, <1>2 DEF Lines
<1>4. \A i, j \in 1 .. Count' :
       i < j /\ Message(j)' \in Streams \X Lines =>
         /\ Message(i)'[1] = Message(j)'[1]
         /\ Message(i)'[2] < Message(j)'[2]
         /\ ~follow' => Message(j)'[2] - Message(i)'[2] = j - i
  BY <1>1, <1>2 DEF Chain
<1> QED
  BY <1>3, <1>4 DEF Chain

\* and when a message is added to lines: a later line, or one that is no line.
LEMMA ChainExtended ==
  ASSUME Chain, TypeOK, client = "on", client' = "on",
         writeErr = "none", hpc # "done", UNCHANGED follow,
         Count' = Count + 1,
         \A k \in 1 .. Count : Message(k)' = Message(k),
         \/ /\ writeErr' = "none" /\ Message(Count)' \in Streams \X Lines
            /\ \A k \in 1 .. Count :
                 /\ Message(k)[1] = Message(Count)'[1]
                 /\ Message(k)[2] < Message(Count)'[2]
                 /\ ~follow => Message(Count)'[2] - Message(k)[2] = Count + 1 - k
         \/ writeErr' = "closeSent" /\ Message(Count)' = <<"close">>
         \/ writeErr' = "none" /\ hpc' = "done" /\ Message(Count)' = <<"refusal">>
  PROVE  Chain'
<1>1. Count \in Nat
  BY Lengths
<1>2. \A k \in 1 .. Count :
        Message(k) \in Streams \X Lines /\ Message(k)' \in Streams \X Lines
  BY DEF Chain, Lines
<1>3. \A k \in 1 .. Count' : k \in 1 .. Count \/ k = Count'
  BY <1>1
<1>4. Streams \X Lines = (Streams \X Lines)'
  BY DEF Lines
<1>5. \A k \in 1 .. Count' :
        \/ Message(k)' \in Streams \X Lines
        \/ /\ k = Count' /\ client' = "on"
           /\ IF writeErr' = "closeSent" THEN Message(k)' = <<"close">>
              ELSE hpc' = "done" /\ Message(k)' = <<"refusal">>
  <2>1. \A k : k = Count' => Message(k)' = Message(Count)'
    OBVIOUS
  <2> QED
    BY <1>2, <1>3, <2>1
<1>6. writeErr' = "closeSent" /\ client' = "on" => Count' > 0 /\ Message(Count)' = <<"close">>
  BY <1>1, NoLine
<1>7. ASSUME NEW i \in 1 .. Count', NEW j \in 1 .. Count', i < j,
             Message(j)' \in Streams \X Lines
      PROVE  /\ Message(i)'[1] = Message(j)'[1]
             /\ Message(i)'[2] < Message(j)'[2]
             /\ ~follow' => Message(j)'[2] - Message(i)'[2] = j - i
  <2>1. i \in 1 .. Count /\ Message(i)' = Message(i)
    BY <1>1, <1>7
  <2>2. CASE j \in 1 .. Count
    <3>1. Message(j)' = Message(j) /\ Message(j) \in Streams \X Lines
      BY <1>2, <2>2
    <3> QED
      BY <1>7, <2>1, <2>2, <3>1 DEF Chain
  <2>3. CASE j = Count'
    <3>1. Message(j)' = Message(Count)'
      BY <2>3
    <3>2. \A k \in 1 .. Count :
                 /\ Message(k)[1] = Message(Count)'[1]
                 /\ Message(k)[2] < Message(Count)'[2]
                 /\ ~follow => Message(Count)'[2] - Message(k)[2] = Count + 1 - k
      BY <1>7, <3>1, NoLine
    <3>3. /\ Message(i)[1] = Message(Count)'[1]
          /\ Message(i)[2] < Message(Count)'[2]
          /\ ~follow => Message(Count)'[2] - Message(i)[2] = Count + 1 - i
      BY <2>1, <3>2
    <3>4. j = Count + 1 /\ follow' = follow /\ follow \in BOOLEAN
      BY <2>3 DEF TypeOK, ConfOK
    <3>5. Message(i)'[1] = Message(j)'[1]
      BY <2>1, <3>1, <3>3
    <3>6. Message(i)'[2] < Message(j)'[2]
      BY <2>1, <3>1, <3>3
    <3>7. ~follow' => Message(j)'[2] - Message(i)'[2] = j - i
      BY <2>1, <3>1, <3>3, <3>4, <1>1
    <3> QED
      BY <3>5, <3>6, <3>7
  <2> QED
    BY <1>3, <2>2, <2>3
<1> QED
  BY <1>5, <1>6, <1>7 DEF Chain

\* A line that the streamer hands over follows on the last one.
LEMMA ChainHandsOver ==
  ASSUME TypeOK, Coupled, Chain, Progress, NEW slice \in Slices,
         HandlerTakes(slice), UNCHANGED <<printed, wire, client, writeErr, follow>>,
         Current \in Streams,
         \/ spc = "put" /\ slice.line = Position - Len(buffered) + 1
         \/ spc = "offer" /\ slice.line = Position,
         Position \in Int, Len(buffered) \in Nat
  PROVE  Chain'
<1>1. Count \in Nat /\ hpc = "wait" /\ hpc' = "write"
  BY Lengths DEF HandlerTakes
<1>2. slice.line \in Lines
  BY DEF Slices
<1>3. CASE ~Takes
  <2>1. Untouched
    BY <1>3, ExtendedByHanding
  <2> QED
    BY <1>1, <2>1, ChainKept
<1>4. CASE Takes
  <2>1. /\ Count' = Count + 1
        /\ \A k \in 1 .. Count : Message(k)' = Message(k)
        /\ Message(Count)' = <<Current, slice.line>>
    BY <1>4, ExtendedByHanding
  <2>2. Message(Count)' \in Streams \X Lines
    BY <1>2, <2>1
  <2>3. ASSUME NEW k \in 1 .. Count
        PROVE  /\ Message(k)[1] = Current /\ Message(k)[2] < slice.line
               /\ ~follow => slice.line - Message(k)[2] = Count + 1 - k
    <3>1. CASE spc = "put"
      <4>1. Message(k) = <<Current, Position - Len(buffered) - Count + k>>
        BY <1>4, <2>3, <3>1 DEF Progress
      <4>2. slice.line = Position - Len(buffered) + 1
        BY <3>1
      <4> QED
        BY <1>1, <4>1, <4>2
    <3>2. CASE spc = "offer"
      <4>1. /\ Message(k)[1] = Current /\ Message(k)[2] <= Position - 1
            /\ ~follow => Message(k)[2] = Position - 1 - Count + k
        BY <1>4, <2>3, <3>2 DEF Progress
      <4>2. slice.line = Position
        BY <3>2
      <4>3. Message(k) \in Streams \X Lines
        BY <1>1, <1>4, <2>3 DEF Chain, Takes
      <4>4. Message(k)[2] \in Int
        BY <4>3 DEF Lines
      <4> QED
        BY <1>1, <4>1, <4>2, <4>4
    <3> QED
      BY <3>1, <3>2
  <2>4. \A k \in 1 .. Count :
          /\ Message(k)[1] = Message(Count)'[1]
          /\ Message(k)[2] < Message(Count)'[2]
          /\ ~follow => Message(Count)'[2] - Message(k)[2] = Count + 1 - k
    BY <2>1, <2>3
  <2>5. client = "on" /\ client' = "on" /\ writeErr = "none" /\ writeErr' = "none"
    BY <1>4 DEF Takes
  <2> QED
    BY <1>1, <2>1, <2>2, <2>4, <2>5, ChainExtended
<1> QED
  BY <1>3, <1>4

\* The messages are in order: lines of one file first, and only the last one can
\* be the close frame or the refusal.
LEMMA ChainStep ==
  ASSUME TypeOK, Coupled, Together, Chain, Progress, [Next]_vars, TypeOK'
  PROVE  Chain'
<1> USE DEF confVars, handlerVars, streamerVars, clientVars
<1>1. CASE StreamerStep
  <2>1. UNCHANGED <<client, printed, follow, file>>
    BY <1>1 DEF StreamerStep
  <2>2. CASE Untouched /\ UNCHANGED <<hpc, writeErr>>
    BY <2>1, <2>2, ChainKept
  <2>3. CASE TailPuts
    <3>1. spc = "put" /\ UNCHANGED <<wire, writeErr>>
      BY <2>3 DEF TailPuts, StreamerGoto
    <3>2. Current \in Streams /\ Position \in Int
      BY <3>1, ScannerPlaced DEF Scanning
    <3>3. Len(buffered) \in Nat /\ Len(buffered) > 0
          /\ buffered[1].line = Position - Len(buffered) + 1
      <4>1. Len(buffered) \in Nat /\ Len(buffered) > 0 /\ 1 \in DOMAIN buffered
        BY <2>3, PutsLine, LenProperties DEF TypeOK, StreamerOK
      <4> QED
        BY <3>1, <4>1 DEF Progress
    <3> QED
      BY <2>1, <2>3, <3>1, <3>2, <3>3, PutsLine, ChainHandsOver
  <2>4. CASE Offers /\ spc' = "read" /\ HandlerTakes(Token(scan))
    <3>1. spc = "offer" /\ UNCHANGED <<wire, writeErr>>
      BY <2>4 DEF Offers
    <3>2. /\ Current \in Streams /\ Position \in Int /\ Placed(scan)
          /\ file[Current] \in 0 .. MaxLines /\ scan.cell > 0
      BY <3>1, ScannerPlaced DEF Scanning, Coupled
    <3>3. Token(scan) \in Slices /\ Token(scan).line = Position
      BY <3>2, LogStreamAssumption
         DEF Token, Slices, Lines, Texts, InCell, Placed, Position
    <3>4. Len(buffered) \in Nat
      BY LenProperties DEF TypeOK, StreamerOK
    <3> QED
      BY <2>1, <2>4, <3>1, <3>2, <3>3, <3>4, ChainHandsOver
  <2>5. CASE SendsEOF
    <3>1. hpc = "wait" /\ hpc' = "wait"
      BY <1>1, <2>5, SendsEOFEffect
    <3>2. CASE /\ Takes /\ writeErr' = "closeSent" /\ Count' = Count + 1
               /\ \A k \in 1 .. Count : Message(k)' = Message(k)
               /\ Message(Count)' = <<"close">>
      BY <2>1, <3>1, <3>2, ChainExtended DEF Takes
    <3>3. CASE Untouched /\ writeErr' = writeErr
      BY <2>1, <3>1, <3>3, ChainKept
    <3>4. CASE client # "on"
      BY <2>1, <3>4, ChainCut
    <3>5. CASE Untouched /\ Takes /\ writeErr' = "timeout"
      BY <2>1, <3>1, <3>5, ChainTimedOut
    <3> QED
      BY <1>1, <2>5, <3>2, <3>3, <3>4, <3>5, SendsEOFEffect
  <2> QED
    BY <1>1, <2>2, <2>3, <2>4, <2>5, StreamerEffect
<1>2. CASE Quiet
  <2>1. /\ Untouched /\ UNCHANGED <<client, writeErr, follow>>
        /\ hpc = "done" => hpc' = "done"
    BY <1>2 DEF Quiet
  <2> QED
    BY <2>1, ChainKept
<1>3. CASE ClientEnds \/ Quits
  <2>1. client' # "on" /\ UNCHANGED <<printed, follow>>
    BY <1>3 DEF ClientEnds, Quits, Disconnects
  <2> QED
    BY <2>1, ChainCut
<1>4. CASE Refuses
  <2>1. /\ hpc = "start" /\ spc = "none" /\ hpc' = "done"
        /\ held = <<>> /\ held' = <<>> /\ writeErr = "none" /\ writeErr' = "none"
        /\ UNCHANGED <<printed, client, follow, writeErr>>
        /\ Transmits(<<"refusal">>)
    BY <1>4 DEF Refuses, Coupled, Together
  <2>2. CASE client = "on"
    <3>1. /\ Count' = Count + 1
          /\ \A k \in 1 .. Count : Message(k)' = Message(k)
          /\ Message(Count)' = <<"refusal">>
      BY <2>1, <2>2, ExtendedBySending DEF Takes
    <3> QED
      BY <2>1, <2>2, <3>1, ChainExtended
  <2>3. CASE client # "on"
    BY <2>1, <2>3, ChainCut
  <2> QED
    BY <2>2, <2>3
<1>5. CASE Serves
  <2>1. UNCHANGED <<printed, wire, client, writeErr, held, follow>> /\ hpc = "start"
    BY <1>5 DEF Serves
  <2> QED
    BY <2>1, UntouchedByMost, ChainKept
<1>6. CASE Prints /\ spc = "none" /\ Count' = 0
  <2>1. writeErr' # "closeSent"
    BY <1>6 DEF Prints, Together
  <2> QED
    BY <1>6, <2>1 DEF Chain
<1> QED
  BY <1>1, <1>2, <1>3, <1>4, <1>5, <1>6, OthersEffect

-----------------------------------------------------------------------------
(* The stream and the scanner.                                               *)

\* The distance between them stays when neither moves.
LEMMA ProgressKept ==
  ASSUME Progress, TypeOK, Untouched,
         UNCHANGED <<client, writeErr, spc, todo, scan, buffered, confVars>>,
         held = <<>> => held' = <<>>
  PROVE  Progress'
<1> USE DEF confVars
<1>1. /\ Count' = Count /\ Count \in Nat /\ \A k \in 1 .. Count : Message(k)' = Message(k)
      /\ (Takes' <=> Takes) /\ Position' = Position /\ (Current' = Current)
  BY Lengths DEF Untouched, Takes, Position, InCell, Current
<1>2. spc' \in {"open", "fail", "tail"} /\ (Takes' \/ todo' = logs') =>
       Count' = 0 /\ held' = <<>>
  BY <1>1 DEF Progress
<1>3. /\ spc' \in {"tail", "next", "put"} =>
          \A i \in DOMAIN buffered' :
            buffered'[i].line = Position' - Len(buffered') + i
      /\ spc' = "tail" =>
          Len(buffered') = IF Position' < tail' THEN Position' ELSE tail'
      /\ spc' \in {"next", "put"} => scan'.cell = scan'.filled
  BY <1>1 DEF Progress
<1>4. Takes' /\ spc' \in {"next", "put"} =>
       \A k \in 1 .. Count' :
         Message(k)' = <<Current', Position' - Len(buffered') - Count' + k>>
  BY <1>1 DEF Progress
<1>5. Takes' /\ spc' \in {"poll", "read", "offer", "report", "polled"} =>
       \A k \in 1 .. Count' :
         /\ Message(k)'[1] = Current'
         /\ Message(k)'[2] <= IF spc' = "offer" THEN Position' - 1 ELSE Position'
         /\ ~follow' /\ spc' # "polled" =>
              Message(k)'[2] =
                (IF spc' = "offer" THEN Position' - 1 ELSE Position') - Count' + k
  BY <1>1 DEF Progress
<1>6. /\ Takes' /\ (spc' \in {"poll", "report"} \/ (spc' = "polled" /\ follow')) =>
           scan'.cell = scan'.filled
      /\ Takes' /\ spc' = "poll" => buffered' = <<>>
  BY <1>1 DEF Progress
<1> QED
  BY <1>2, <1>3, <1>4, <1>5, <1>6 DEF Progress

\* When a file has been finished, the stream has ended for its successor.
LEMMA ProgressFinished ==
  ASSUME Progress, spc' \in {"open", "done"}, ~Takes', todo' # logs'
  PROVE  Progress'
BY DEF Progress

\* The distance between them while the first file is read for its last lines.
LEMMA ProgressTail ==
  ASSUME TypeOK, Coupled, Together, Progress, StreamerStep, Untouched,
         UNCHANGED writeErr, held = <<>> <=> held' = <<>>,
         TailScans \/ TailScanned \/ TailChecks
  PROVE  Progress'
<1>1. /\ UNCHANGED <<client, logs, follow, tail, file>> /\ (Takes' <=> Takes)
      /\ Count' = Count /\ Count \in Nat
      /\ \A k \in 1 .. Count : Message(k)' = Message(k)
  BY Lengths DEF StreamerStep, Untouched, Takes, confVars, clientVars
<1>2. /\ UNCHANGED todo /\ Current' = Current /\ spc \in Scanning
  BY DEF TailScans, TailScanned, TailChecks, StreamerGoto, Current, Scanning
<1>3. /\ Position \in Int /\ scan.cell \in Nat /\ scan.pos \in Nat /\ scan.filled \in Nat
  BY <1>2, ScannerPlaced
<1>4. Len(buffered) \in Nat /\ DOMAIN buffered = 1 .. Len(buffered)
  BY LenProperties DEF TypeOK, StreamerOK
<1>5. CASE TailScans
  <2> DEFINE lost == IF Len(buffered) >= tail THEN 1 ELSE 0
  <2>1. /\ Len(buffered') = Len(buffered) + 1 - lost
        /\ \A i \in 1 .. Len(buffered) - lost :
             buffered'[i].line = buffered[i + lost].line
        /\ buffered'[Len(buffered')].line = Position + 1
        /\ Position' = Position + 1
    BY <1>1, <1>2, <1>5, TailScansLine
  <2>2. lost \in {0, 1} /\ (lost = 1 <=> Len(buffered) >= tail)
    OBVIOUS
  <2> HIDE DEF lost
  <2>3. spc = "tail" /\ spc' = "tail" /\ held' = held /\ tail \in Int /\ tail > 0
    BY <1>5 DEF TailScans, Coupled, TypeOK, ConfOK
  <2>6. Len(buffered') = IF Position' < tail' THEN Position' ELSE tail'
    <3>1. Len(buffered) = IF Position < tail THEN Position ELSE tail
      BY <2>3 DEF Progress
    <3> QED
      BY <1>1, <1>3, <1>4, <2>1, <2>2, <2>3, <3>1
  <2>7. \A i \in 1 .. Len(buffered') :
          buffered'[i].line = Position' - Len(buffered') + i
    <3> SUFFICES ASSUME NEW i \in 1 .. Len(buffered')
                 PROVE  buffered'[i].line = Position' - Len(buffered') + i
      OBVIOUS
    <3>1. CASE i = Len(buffered')
      BY <1>3, <1>4, <2>1, <2>2, <3>1
    <3>2. CASE i # Len(buffered')
      <4>1. i \in 1 .. Len(buffered) - lost /\ i + lost \in DOMAIN buffered
        BY <1>4, <2>1, <2>2, <3>2
      <4>2. buffered[i + lost].line = Position - Len(buffered) + (i + lost)
        BY <2>3, <4>1 DEF Progress
      <4> QED
        BY <1>3, <1>4, <2>1, <2>2, <4>1, <4>2
    <3> QED
      BY <3>1, <3>2
  <2>8. DOMAIN buffered' = 1 .. Len(buffered')
    <3>1. TypeOK'
      BY StreamerTypeStep
    <3> QED
      BY <3>1, LenProperties DEF TypeOK, StreamerOK
  <2> QED
    BY <1>1, <1>2, <2>3, <2>6, <2>7, <2>8 DEF Progress
<1>6. CASE TailScanned
  <2>1. /\ spc = "tail" /\ spc' = "next" /\ UNCHANGED <<scan, held>>
        /\ scan.cell = scan.filled /\ Position' = Position
    BY <1>6 DEF TailScanned, StreamerGoto, Refills, Position, InCell
  <2>2. Takes => Count = 0
    BY <2>1 DEF Progress
  <2>3. /\ Len(buffered') = Len(buffered) /\ DOMAIN buffered' = DOMAIN buffered
        /\ \A i \in DOMAIN buffered : buffered'[i].line = buffered[i].line
    BY <1>6, OverrunSlices DEF TailScanned, TypeOK, StreamerOK
  <2>4. \A i \in DOMAIN buffered' : buffered'[i].line = Position' - Len(buffered') + i
    BY <2>1, <2>3 DEF Progress
  <2> QED
    BY <1>1, <1>2, <2>1, <2>2, <2>4 DEF Progress
<1>7. CASE TailChecks
  <2>1. /\ spc = "next" /\ UNCHANGED <<scan, buffered, held>> /\ Position' = Position
        /\ scan.cell = scan.filled
        /\ spc' = "put" \/ (spc' = "poll" /\ (buffered = <<>> \/ canceled))
    BY <1>7 DEF TailChecks, Position, InCell, Progress
  <2>2. CASE spc' = "put"
    BY <1>1, <1>2, <2>1, <2>2 DEF Progress
  <2>3. CASE spc' = "poll" /\ ~Takes
    BY <1>1, <2>3 DEF Progress
  <2>4. CASE spc' = "poll" /\ Takes
    <3>1. buffered = <<>> /\ Len(buffered) = 0
      BY <2>1, <2>4 DEF Together, Takes
    <3>2. \A k \in 1 .. Count : Message(k) = <<Current, Position - Count + k>>
      <4>1. \A k \in 1 .. Count : Message(k) = <<Current, Position - 0 - Count + k>>
        BY <2>1, <2>4, <3>1 DEF Progress
      <4> QED
        BY <1>1, <1>3, <4>1
    <3>3. \A k \in 1 .. Count : /\ Message(k)[1] = Current /\ Message(k)[2] <= Position
                                /\ Message(k)[2] = Position - Count + k
      BY <1>1, <1>3, <3>2
    <3> QED
      BY <1>1, <1>2, <2>1, <2>4, <3>1, <3>3 DEF Progress
  <2> QED
    BY <2>1, <2>2, <2>3, <2>4
<1> QED
  BY <1>5, <1>6, <1>7

\* The distance while the file is read to its end and beyond.
LEMMA ProgressPoll ==
  ASSUME TypeOK, Coupled, Together, Chain, Progress, StreamerStep,
         Untouched, UNCHANGED <<hpc, writeErr>>, held = <<>> <=> held' = <<>>,
         \/ Opens \/ Polls \/ Reads \/ ScanFails \/ Reported \/ Offers \/ Polled
         \/ SendsError
  PROVE  Progress'
<1>1. /\ UNCHANGED <<client, logs, follow, tail, file>> /\ (Takes' <=> Takes)
      /\ Count' = Count /\ Count \in Nat
      /\ \A k \in 1 .. Count : Message(k)' = Message(k)
  BY Lengths DEF StreamerStep, Untouched, Takes, confVars, clientVars
<1>2. \A k \in 1 .. Count : Takes /\ spc \in {"read", "offer", "report"} =>
         LET last == IF spc = "offer" THEN Position - 1 ELSE Position IN
         /\ Message(k)[1] = Current /\ Message(k)[2] <= last
         /\ ~follow => Message(k)[2] = last - Count + k
  BY DEF Progress
<1>3. Takes => ~canceled
  BY DEF Takes, Together
<1>4. CASE Opens
  <2>1. /\ spc = "open" /\ todo' = todo /\ buffered' = <<>> /\ Len(buffered') = 0
        /\ scan'.cell = 0 /\ scan'.filled = 0
        /\ spc' \in {"fail", "tail", "poll"}
        /\ spc' = "tail" => scan'.pos = 0 /\ tail > 0
    BY <1>4 DEF Opens, Coupled, Fresh
  <2>2. Takes \/ todo = logs => Count = 0 /\ held = <<>>
    BY <2>1 DEF Progress
  <2>3. spc' = "tail" => Position' = 0
    BY <2>1 DEF Position, InCell
  <2> QED
    BY <1>1, <2>1, <2>2, <2>3 DEF Progress
<1>5. CASE Polls
  <2>1. CASE canceled
    <3>1. spc' \in {"open", "done"} /\ FinishesFile /\ todo # <<>>
      BY <1>5, <2>1 DEF Polls, FinishesFile, Coupled
    <3>2. todo' # logs'
      BY <3>1, FilesRemain
    <3> QED
      BY <1>1, <1>3, <2>1, <3>1, <3>2, ProgressFinished
  <2>2. CASE ~canceled
    <3>1. /\ spc = "poll" /\ spc' = "read" /\ todo' = todo /\ buffered' = <<>>
          /\ scan' = Fresh(scan.pos) /\ Current' = Current
      BY <1>5, <2>2 DEF Polls, Current
    <3>2. /\ Position' = scan.pos /\ scan.pos \in Nat /\ Position \in Int
          /\ scan.cell \in Nat /\ scan.filled \in Nat
      BY <3>1, ScannerPlaced DEF Position, InCell, Fresh, Scanning
    <3>3. Takes => Position = scan.pos
      BY <3>1, <3>2 DEF Progress, Position, InCell
    <3>4. Takes => \A k \in 1 .. Count :
             /\ Message(k)[1] = Current /\ Message(k)[2] <= Position
             /\ ~follow => Message(k)[2] = Position - Count + k
      BY <3>1 DEF Progress
    <3> QED
      BY <1>1, <3>1, <3>2, <3>3, <3>4 DEF Progress
  <2> QED
    BY <2>1, <2>2
<1>6. CASE Reads
  <2>1. spc = "read" /\ todo' = todo /\ Current' = Current
    BY <1>6 DEF Reads, Current
  <2>2. CASE AtEnd
    <3>1. spc' = "polled" /\ scan' = scan /\ Position' = Position /\ scan.cell = scan.filled
      BY <1>6, <2>2 DEF Reads, AtEnd, Position, InCell
    <3> QED
      BY <1>1, <1>2, <2>1, <3>1 DEF Progress
  <2>3. CASE ~AtEnd
    <3>1. spc' = "offer" /\ Position' - 1 = Position
      <4>1. Position' = Position + 1 /\ Position \in Int
        BY <1>1, <1>6, <2>1, <2>3, ReadsLine, ScannerPlaced DEF Scanning
      <4> QED
        BY <1>1, <1>6, <2>1, <2>3, <4>1, ReadsLine
    <3> QED
      BY <1>1, <1>2, <2>1, <3>1 DEF Progress
  <2> QED
    BY <2>2, <2>3
<1>7. CASE Offers
  <2>1. /\ spc = "offer" /\ UNCHANGED <<todo, scan>> /\ Current' = Current
        /\ Position' = Position /\ Position \in Int
    BY <1>7, ScannerPlaced DEF Offers, Current, Position, InCell, Scanning
  <2>2. \/ spc' = "read" /\ follow
        \/ spc' = "polled" /\ (~follow \/ ~Takes)
    <3>1. ~HandlerTakes(Token(scan))
      BY DEF HandlerTakes
    <3> QED
      BY <1>3, <1>7, <3>1 DEF Offers, TypeOK, ConfOK
  <2>3. ASSUME Takes, NEW k \in 1 .. Count
        PROVE  Message(k)[1] = Current /\ Message(k)[2] <= Position
    <3>1. hpc # "done"
      BY <2>1, <2>3 DEF Takes, Together
    <3>2. Message(k) \in Streams \X Lines
      BY <2>3, <3>1 DEF Chain, Takes
    <3>3. Message(k)[2] \in Int
      BY <3>2 DEF Lines
    <3> QED
      BY <1>2, <2>1, <2>3, <3>3
  <2> QED
    BY <1>1, <2>1, <2>2, <2>3 DEF Progress
<1>8. CASE Polled
  <2>1. /\ spc = "polled" /\ UNCHANGED <<todo, scan, buffered>> /\ Current' = Current
        /\ Position' = Position /\ buffered = <<>>
        /\ spc' = "eof" \/ (spc' = "poll" /\ follow)
    BY <1>8 DEF Polled, StreamerGoto, Coupled, Current, Position, InCell
  <2>2. Takes => \A k \in 1 .. Count : Message(k)[1] = Current /\ Message(k)[2] <= Position
    BY <2>1 DEF Progress
  <2>3. Takes /\ follow => scan.cell = scan.filled
    BY <2>1 DEF Progress
  <2> QED
    BY <1>1, <2>1, <2>2, <2>3 DEF Progress
<1>10. CASE ScanFails \/ Reported
  <2>1. /\ UNCHANGED <<todo, scan>> /\ Current' = Current /\ Position' = Position
        /\ \/ spc = "read" /\ spc' = "report" /\ scan.cell = scan.filled
           \/ spc = "report" /\ spc' = "polled"
    BY <1>10
       DEF ScanFails, Reported, StreamerGoto, Refills, Current, Position, InCell
  <2>2. Takes => scan.cell = scan.filled
    BY <2>1 DEF Progress
  <2> QED
    BY <1>1, <1>2, <2>1, <2>2 DEF Progress
<1>9. CASE SendsError
  <2>1. spc = "fail" /\ FinishesFile /\ todo # <<>> /\ spc' \in {"open", "done"}
    BY <1>9 DEF SendsError, FinishesFile, Coupled
  <2>2. todo' # logs'
    BY <2>1, FilesRemain
  <2>3. Takes => Count = 0 /\ held = <<>>
    BY <2>1 DEF Progress
  <2> QED
    BY <1>1, <2>1, <2>2, <2>3 DEF Progress
<1> QED
  BY <1>4, <1>5, <1>6, <1>7, <1>8, <1>9, <1>10

\* The distance when a line is handed over.
LEMMA ProgressHandsOver ==
  ASSUME TypeOK, Coupled, Together, Chain, Progress, StreamerStep,
         TailPuts \/ (Offers /\ spc' = "read" /\ HandlerTakes(Token(scan)))
  PROVE  Progress'
<1>1. /\ UNCHANGED <<client, logs, follow, tail, file, todo, scan, writeErr, printed, wire>>
      /\ (Takes' <=> Takes) /\ Position' = Position /\ Current' = Current
  BY DEF StreamerStep, Takes, confVars, clientVars, TailPuts, Offers, Position,
     InCell, Current
<1>2. Count \in Nat /\ spc \in Scanning
  BY Lengths DEF TailPuts, Offers, StreamerGoto, Scanning
<1>3. Position \in Int /\ Current \in Streams /\ Placed(scan)
      /\ file[Current] \in 0 .. MaxLines
  BY <1>2, ScannerPlaced
<1>4. CASE TailPuts
  <2> DEFINE slice == [Head(buffered) EXCEPT !.cell = 0]
  <2>1. /\ HandlerTakes(slice) /\ slice \in Slices /\ slice.line = buffered[1].line
        /\ Len(buffered) \in Nat /\ Len(buffered) > 0
        /\ Len(buffered') = Len(buffered) - 1
        /\ \A i \in 1 .. Len(buffered') : buffered'[i] = buffered[i + 1]
        /\ spc = "put" /\ spc' = "next"
    BY <1>4, PutsLine DEF TailPuts, StreamerGoto
  <2> HIDE DEF slice
  <2>2. DOMAIN buffered = 1 .. Len(buffered) /\ DOMAIN buffered' = 1 .. Len(buffered')
    <3>1. TypeOK'
      BY StreamerTypeStep
    <3> QED
      BY <3>1, LenProperties DEF TypeOK, StreamerOK
  <2>3. \A i \in DOMAIN buffered : buffered[i].line = Position - Len(buffered) + i
    BY <2>1 DEF Progress
  <2>4. \A i \in DOMAIN buffered' : buffered'[i].line = Position - Len(buffered') + i
    <3> SUFFICES ASSUME NEW i \in DOMAIN buffered'
                 PROVE  buffered'[i].line = Position - Len(buffered') + i
      OBVIOUS
    <3>1. i + 1 \in DOMAIN buffered /\ i \in Nat
      BY <2>1, <2>2
    <3> QED
      BY <1>3, <2>1, <2>2, <2>3, <3>1
  <2>5. slice.line = Position - Len(buffered) + 1
    BY <2>1, <2>2, <2>3
  <2>6. Takes => \A k \in 1 .. Count' :
                   Message(k)' = <<Current, Position - Len(buffered') - Count' + k>>
    <3> SUFFICES ASSUME Takes, NEW k \in 1 .. Count'
                 PROVE  Message(k)' = <<Current, Position - Len(buffered') - Count' + k>>
      OBVIOUS
    <3>1. /\ Count' = Count + 1
          /\ \A j \in 1 .. Count : Message(j)' = Message(j)
          /\ Message(Count)' = <<Current, slice.line>>
      BY <1>1, <2>1, ExtendedByHanding
    <3>2. CASE k \in 1 .. Count
      <4>1. Message(k) = <<Current, Position - Len(buffered) - Count + k>>
        BY <2>1, <3>2 DEF Progress
      <4>2. Position - Len(buffered) - Count + k = Position - Len(buffered') - Count' + k
        BY <1>2, <1>3, <2>1, <3>1
      <4>3. Message(k)' = Message(k)
        BY <3>1, <3>2
      <4> QED
        BY <4>1, <4>2, <4>3
    <3>3. CASE k = Count'
      <4>1. Message(k)' = <<Current, slice.line>>
        BY <3>1, <3>3
      <4>2. Position - Len(buffered) + 1 = Position - Len(buffered') - Count' + k
        BY <1>2, <1>3, <2>1, <3>1, <3>3
      <4> QED
        BY <2>5, <4>1, <4>2
    <3> QED
      BY <1>2, <3>1, <3>2, <3>3
  <2>7. scan.cell = scan.filled
    BY <2>1 DEF Progress
  <2> QED
    BY <1>1, <2>1, <2>4, <2>6, <2>7 DEF Progress
<1>5. CASE Offers /\ spc' = "read" /\ HandlerTakes(Token(scan))
  <2>1. spc = "offer" /\ scan.cell > 0
    BY <1>5 DEF Offers, Coupled
  <2>2. Token(scan) \in Slices /\ Token(scan).line = Position
    BY <1>3, <2>1, LogStreamAssumption
       DEF Token, Slices, Lines, Texts, InCell, Placed, Position
  <2>3. ASSUME Takes, NEW k \in 1 .. Count'
        PROVE  /\ Message(k)'[1] = Current /\ Message(k)'[2] <= Position
               /\ ~follow => Message(k)'[2] = Position - Count' + k
    <3>1. /\ Count' = Count + 1
          /\ \A j \in 1 .. Count : Message(j)' = Message(j)
          /\ Message(Count)' = <<Current, Position>>
      BY <1>1, <1>5, <2>2, <2>3, ExtendedByHanding
    <3>2. CASE k \in 1 .. Count
      <4>1. /\ Message(k)[1] = Current /\ Message(k)[2] <= Position - 1
            /\ ~follow => Message(k)[2] = Position - 1 - Count + k
        BY <2>1, <2>3, <3>2 DEF Progress
      <4>2. hpc # "done"
        BY <2>1, <2>3 DEF Takes, Together
      <4>3. Message(k) \in Streams \X Lines
        BY <2>3, <3>2, <4>2 DEF Chain, Takes
      <4>4. Message(k)[2] \in Int
        BY <4>3 DEF Lines
      <4> QED
        BY <1>2, <1>3, <3>1, <3>2, <4>1, <4>4
    <3>3. CASE k = Count'
      <4>1. Message(k)' = <<Current, Position>>
        BY <3>1, <3>3
      <4> QED
        BY <1>2, <1>3, <3>1, <3>3, <4>1
    <3> QED
      BY <1>2, <3>1, <3>2, <3>3
  <2> QED
    BY <1>1, <1>5, <2>3 DEF Progress
<1> QED
  BY <1>4, <1>5

\* The stream stays behind the scanner.
LEMMA ProgressStep ==
  ASSUME TypeOK, Coupled, Together, Chain, Progress, [Next]_vars
  PROVE  Progress'
<1> USE DEF confVars, handlerVars, streamerVars, clientVars
<1>1. CASE StreamerStep
  <2>1. CASE /\ Untouched /\ UNCHANGED <<hpc, writeErr>>
             /\ held = <<>> <=> held' = <<>>
             /\ \/ Opens \/ TailScans \/ TailScanned \/ TailChecks \/ Polls \/ Reads
                \/ ScanFails \/ Reported \/ Offers \/ Polled \/ SendsError
    BY <1>1, <2>1, ProgressTail, ProgressPoll
  <2>2. CASE TailPuts \/ (Offers /\ spc' = "read" /\ HandlerTakes(Token(scan)))
    BY <1>1, <2>2, ProgressHandsOver
  <2>3. CASE SendsEOF
    <3>1. /\ spc' \in {"open", "done"} /\ FinishesFile /\ todo # <<>> /\ ~Takes'
      BY <1>1, <2>3, SendsEOFEffect DEF SendsEOF, FinishesFile, Coupled
    <3>2. todo' # logs'
      BY <1>1, <3>1, FilesRemain
    <3> QED
      BY <3>1, <3>2, ProgressFinished
  <2> QED
    BY <1>1, <2>1, <2>2, <2>3, StreamerEffect
<1>2. CASE Quiet
  <2>1. /\ Untouched /\ UNCHANGED <<client, writeErr, spc, todo, scan, buffered, confVars>>
        /\ held = <<>> => held' = <<>>
    BY <1>2 DEF Quiet
  <2> QED
    BY <2>1, ProgressKept
<1>3. CASE ClientEnds \/ Quits
  <2>1. /\ client' # "on"
        /\ UNCHANGED <<printed, spc, todo, logs, scan, buffered, tail, held>>
        /\ ~Takes' /\ client = "on"
    BY <1>3 DEF ClientEnds, Quits, Disconnects, Takes
  <2>2. Count' <= Count /\ Count' = Len(printed) /\ Len(printed) \in Nat /\ Count \in Nat
    BY <2>1, CutByClient, Lengths
  <2>3. spc \in {"open", "fail", "tail"} /\ todo = logs => Count' = 0
    BY <2>2 DEF Progress
  <2>4. Position' = Position
    BY <2>1 DEF Position, InCell
  <2> QED
    BY <2>1, <2>3, <2>4 DEF Progress
<1>4. CASE Refuses \/ (Prints /\ spc = "none")
  <2>1. spc' = "none"
    BY <1>4 DEF Refuses, Coupled, Prints
  <2> QED
    BY <2>1 DEF Progress
<1>5. CASE Serves
  <2>1. spc = "none" /\ hpc = "start" /\ spc' = "open"
        /\ UNCHANGED <<printed, wire, client, writeErr, held>>
    BY <1>5 DEF Serves, Coupled
  <2>2. printed = <<>> /\ wire = <<>> /\ held = <<>>
    BY <2>1 DEF Together
  <2>3. Count' = 0 /\ held' = <<>>
    BY <2>1, <2>2 DEF Count
  <2> QED
    BY <2>1, <2>3 DEF Progress
<1> QED
  BY <1>1, <1>2, <1>3, <1>4, <1>5, OthersEffect

-----------------------------------------------------------------------------
(* The tail of the first file.                                               *)

\* It is of no concern to a step that does not touch the stream or its end.
LEMMA TailingKept ==
  ASSUME Tailing, TypeOK, TypeOK', Untouched,
         UNCHANGED <<client, writeErr, spc, todo, scan, buffered, tailEnd, confVars>>
  PROVE  Tailing'
<1> USE DEF confVars
<1>1. /\ Count' = Count /\ Count \in Nat /\ \A k \in 1 .. Count : Message(k)' = Message(k)
      /\ (Takes' <=> Takes) /\ Position' = Position /\ Due' = Due
  BY Lengths DEF Untouched, Takes, Position, InCell, Due
<1>2. client # "on" => Len(printed') = Len(printed)
  <2>1. Len(printed') \in Nat
    BY LenProperties DEF TypeOK, ClientOK
  <2>2. client # "on" => Count' = Len(printed')
    BY <2>1 DEF Count, Takes
  <2> QED
    BY <1>1, <2>2, Lengths
<1>3. tailEnd' >= 0 /\ client' = "closed" => Len(printed') >= Due'
  <2>1. tailEnd >= 0 /\ client = "closed" => Len(printed) >= Due
    BY DEF Tailing
  <2>2. client' = client /\ tailEnd' = tailEnd
    OBVIOUS
  <2> QED
    BY <1>1, <1>2, <2>1, <2>2
<1>4. tailEnd' >= 0 => \A k \in 1 .. Count' :
       k <= Due' => Message(k)' = <<logs'[1], tailEnd' - Due' + k>>
  BY <1>1 DEF Tailing
<1>5. /\ tailEnd' >= 0 => tail' > 0
      /\ spc' \in {"open", "fail", "tail"} /\ (Takes' \/ todo' = logs') => tailEnd' = -1
      /\ tailEnd' >= 0 /\ writeErr' = "closeSent" /\ client' = "on" => Count' > Due'
  BY <1>1 DEF Tailing
<1>6. tailEnd' >= 0 /\ Takes' =>
       /\ todo' = logs'
       /\ spc' \in {"next", "put"} =>
            tailEnd' = Position' /\ Count' + Len(buffered') = Due'
       /\ spc' \notin {"next", "put"} => Count' >= Due'
  BY <1>1 DEF Tailing
<1> QED
  BY <1>3, <1>4, <1>5, <1>6 DEF Tailing

\* As long as the tail of the first file has not been read, there is none.
LEMMA NoTailYet ==
  ASSUME tailEnd' = -1 
  PROVE  Tailing'
BY DEF Tailing

\* What the streamer reads is of no concern to it either, once the tail of the
\* first file has been read.
LEMMA TailingReads ==
  ASSUME TypeOK, Coupled, Together, Progress, Tailing, StreamerStep,
         Untouched, UNCHANGED <<hpc, writeErr>>,
         \/ Opens \/ TailScans \/ TailChecks \/ Polls \/ Reads \/ ScanFails
         \/ Reported \/ Offers \/ Polled \/ SendsError
  PROVE  Tailing'
<1>1. /\ UNCHANGED <<client, logs, tail, printed, tailEnd>> /\ (Takes' <=> Takes)
      /\ Count' = Count /\ Count \in Nat
      /\ \A k \in 1 .. Count : Message(k)' = Message(k)
      /\ Due' = Due
  BY Lengths DEF StreamerStep, Untouched, Takes, confVars, clientVars, Due, Opens,
     TailScans, TailChecks, Polls, Reads, ScanFails, Reported, Offers, Polled,
     SendsError
<1>2. ASSUME spc' \in {"open", "fail", "tail"} /\ (Takes' \/ todo' = logs') => tailEnd = -1,
             tailEnd >= 0 /\ Takes =>
               /\ todo' = logs
               /\ spc' \in {"next", "put"} =>
                    tailEnd = Position' /\ Count + Len(buffered') = Due
               /\ spc' \notin {"next", "put"} => Count >= Due
      PROVE  Tailing'
  <2>1. tailEnd' >= 0 => \A k \in 1 .. Count' :
          k <= Due' => Message(k)' = <<logs'[1], tailEnd' - Due' + k>>
    BY <1>1 DEF Tailing
  <2>2. /\ tailEnd' >= 0 => tail' > 0
        /\ tailEnd' >= 0 /\ writeErr' = "closeSent" /\ client' = "on" => Count' > Due'
        /\ tailEnd' >= 0 /\ client' = "closed" => Len(printed') >= Due'
    BY <1>1 DEF Tailing
  <2> QED
    BY <1>1, <1>2, <2>1, <2>2 DEF Tailing
<1>3. CASE Opens \/ TailScans
  <2>1. spc \in {"open", "tail"} /\ spc' \in {"fail", "tail", "poll"} /\ todo' = todo
    BY <1>3 DEF Opens, TailScans
  <2>2. Takes \/ todo = logs => tailEnd = -1
    BY <2>1 DEF Tailing
  <2> QED
    BY <1>1, <1>2, <2>1, <2>2
<1>4. CASE TailChecks
  <2>1. /\ spc = "next" /\ UNCHANGED <<todo, buffered, scan>> /\ Position' = Position
        /\ spc' = "put" \/ (spc' = "poll" /\ (buffered = <<>> \/ canceled))
    BY <1>4 DEF TailChecks, Position, InCell
  <2>2. tailEnd >= 0 /\ Takes =>
          todo = logs /\ tailEnd = Position /\ Count + Len(buffered) = Due
    BY <2>1 DEF Tailing
  <2>3. Takes /\ spc' = "poll" => Len(buffered) = 0
    <3>1. Takes => ~canceled
      BY DEF Takes, Together
    <3> QED
      BY <2>1, <3>1
  <2> QED
    BY <1>1, <1>2, <2>1, <2>2, <2>3
<1>5. CASE SendsError \/ (Polls /\ canceled)
  <2>1. /\ spc' \in {"open", "done"} /\ FinishesFile /\ todo # <<>>
    BY <1>5 DEF SendsError, Polls, FinishesFile, Coupled
  <2>2. todo' # logs'
    BY <2>1, FilesRemain
  <2>3. Takes => tailEnd = -1
    <3>1. CASE SendsError
      BY <3>1 DEF SendsError, Tailing
    <3>2. CASE canceled
      BY <3>2 DEF Takes, Together
    <3> QED
      BY <1>5, <3>1, <3>2
  <2> QED
    BY <1>1, <1>2, <2>1, <2>2, <2>3
<1>6. CASE \/ Reads \/ ScanFails \/ Reported \/ Offers \/ Polled
           \/ Polls /\ ~canceled
  <2>1. /\ spc \in {"read", "report", "offer", "polled", "poll"} /\ todo' = todo
        /\ spc' \in {"read", "report", "offer", "polled", "poll", "eof"}
    BY <1>6 DEF Reads, ScanFails, Reported, Offers, Polled, Polls, StreamerGoto
  <2>2. tailEnd >= 0 /\ Takes => todo = logs /\ Count >= Due
    BY <2>1 DEF Tailing
  <2> QED
    BY <1>1, <1>2, <2>1, <2>2
<1> QED
  BY <1>3, <1>4, <1>5, <1>6

\* When the tail of the first file has been read, it lies in the list of seekTail.
LEMMA TailingScanned ==
  ASSUME TypeOK, Coupled, Together, Progress, Tailing, StreamerStep, Untouched,
         UNCHANGED writeErr, TailScanned
  PROVE  Tailing'
<1>1. /\ UNCHANGED <<client, logs, tail, todo, scan>> /\ (Takes' <=> Takes)
      /\ Count' = Count /\ Count \in Nat /\ Position' = Position
      /\ spc = "tail" /\ spc' = "next" /\ tail > 0 /\ tail \in Int
      /\ scan.cell = scan.filled
      /\ tailEnd' = IF Current = logs[1] THEN scan.pos ELSE tailEnd
  BY Lengths DEF StreamerStep, Untouched, Takes, confVars, clientVars, TailScanned,
     StreamerGoto, Position, InCell, Coupled, Refills, TypeOK, ConfOK
<1>2. scan.pos \in Nat /\ scan.cell \in Nat /\ scan.filled \in Nat /\ todo # <<>>
  BY <1>1, ScannerPlaced DEF Scanning
<1>3. CASE Current = logs[1]
  <2>1. todo = logs
    <3>1. logs \in {<<"stdout">>, <<"stderr">>, <<"stdout", "stderr">>}
      BY DEF TypeOK, ConfOK, Streams
    <3>2. CASE todo # logs
      <4>1. logs = <<"stdout", "stderr">> /\ todo = <<"stderr">>
        BY <1>2, <3>1, <3>2, Files DEF Together
      <4>2. Current = "stderr" /\ logs[1] = "stdout"
        BY <4>1, Files DEF Current
      <4> QED
        BY <1>3, <4>2
    <3> QED
      BY <3>2
  <2>2. Count = 0 /\ writeErr = "none"
    BY <1>1, <2>1 DEF Progress, Together
  <2>3. tailEnd' = scan.pos /\ Position = scan.pos
    BY <1>1, <1>2, <1>3 DEF Position, InCell
  <2>4. Due' = Len(buffered)
    <3>1. Len(buffered) = IF Position < tail THEN Position ELSE tail
      BY <1>1 DEF Progress
    <3> QED
      BY <1>1, <2>3, <3>1 DEF Due
  <2>5. client' # "closed"
    BY <1>1, <2>2 DEF Together
  <2>6. Len(buffered') = Len(buffered) /\ Len(buffered) \in Nat
    BY OverrunSlices, LenProperties DEF TailScanned, TypeOK, StreamerOK
  <2>7. tailEnd' >= 0 /\ Takes' => tailEnd' = Position' /\ Count' + Len(buffered') = Due'
    BY <1>1, <2>2, <2>3, <2>4, <2>6
  <2>8. \A k \in 1 .. Count' : FALSE
    BY <1>1, <2>2
  <2> QED
    BY <1>1, <2>1, <2>2, <2>5, <2>7, <2>8 DEF Tailing
<1>4. CASE Current # logs[1]
  <2>1. tailEnd' = tailEnd /\ printed' = printed /\ Due' = Due
        /\ \A k \in 1 .. Count : Message(k)' = Message(k)
    BY <1>1, <1>4 DEF StreamerStep, clientVars, Due, Untouched
  <2>2. Takes => tailEnd = -1
    BY <1>1 DEF Tailing
  <2>3. tailEnd' >= 0 => \A k \in 1 .. Count' :
          k <= Due' => Message(k)' = <<logs'[1], tailEnd' - Due' + k>>
    BY <1>1, <2>1 DEF Tailing
  <2>4. /\ tailEnd' >= 0 => tail' > 0
        /\ tailEnd' >= 0 /\ writeErr' = "closeSent" /\ client' = "on" => Count' > Due'
        /\ tailEnd' >= 0 /\ client' = "closed" => Len(printed') >= Due'
    BY <1>1, <2>1 DEF Tailing
  <2> QED
    BY <1>1, <2>1, <2>2, <2>3, <2>4 DEF Tailing
<1> QED
  BY <1>3, <1>4

\* Its length is a number.
LEMMA DueIsNatural ==
  ASSUME TypeOK, tailEnd >= 0, tail > 0
  PROVE  Due \in Nat
BY LogStreamAssumption DEF Due, TypeOK, ConfOK, StreamerOK

\* Its lines are handed over one after the other, and those of the polls later.
LEMMA TailingHandsOver ==
  ASSUME TypeOK, Coupled, Together, Progress, Tailing, StreamerStep,
         TailPuts \/ (Offers /\ spc' = "read" /\ HandlerTakes(Token(scan)))
  PROVE  Tailing'
<1>1. /\ UNCHANGED <<client, logs, tail, todo, scan, writeErr, printed, wire, tailEnd>>
      /\ (Takes' <=> Takes) /\ Position' = Position /\ Due' = Due
  BY DEF StreamerStep, Takes, confVars, clientVars, TailPuts, Offers, Position, InCell, Due
<1>2. Count \in Nat /\ spc \in Scanning
  BY Lengths DEF TailPuts, Offers, StreamerGoto, Scanning
<1>3. Position \in Int /\ Current \in Streams /\ Placed(scan)
      /\ file[Current] \in 0 .. MaxLines
  BY <1>2, ScannerPlaced
<1>4. CASE tailEnd' < 0
  BY <1>4, <1>1 DEF Tailing, TypeOK, StreamerOK
<1>5. CASE tailEnd' >= 0
  <2>1. tailEnd >= 0 /\ tail > 0 /\ Due \in Nat /\ tailEnd \in Nat
    BY <1>1, <1>5, DueIsNatural, LogStreamAssumption DEF Tailing, TypeOK, StreamerOK
  <2>2. PICK slice \in Slices :
          /\ HandlerTakes(slice)
          /\ \/ /\ spc = "put" /\ spc' = "next" /\ slice.line = buffered[1].line
                /\ Len(buffered) \in Nat /\ Len(buffered) > 0
                /\ Len(buffered') = Len(buffered) - 1
             \/ spc = "offer" /\ spc' = "read"
    <3>1. CASE TailPuts
      BY <3>1, PutsLine DEF TailPuts, StreamerGoto
    <3>2. CASE Offers /\ spc' = "read" /\ HandlerTakes(Token(scan))
      <4>1. spc = "offer" /\ scan.cell > 0
        BY <3>2 DEF Offers, Coupled
      <4>2. Token(scan) \in Slices
        BY <1>3, <4>1, LogStreamAssumption
           DEF Token, Slices, Lines, Texts, InCell, Placed
      <4> QED
        BY <3>2, <4>1, <4>2
    <3> QED
      BY <3>1, <3>2
  <2>3. IF Takes
        THEN /\ Count' = Count + 1
             /\ \A k \in 1 .. Count : Message(k)' = Message(k)
             /\ Message(Count)' = <<Current, slice.line>>
        ELSE Untouched
    BY <1>1, <2>2, ExtendedByHanding
  <2>4. spc' \in {"next", "read"}
    BY <2>2
  <2>5. CASE ~Takes
    <3>1. Count' = Count /\ \A k \in 1 .. Count : Message(k)' = Message(k)
      BY <2>3, <2>5 DEF Untouched
    <3>2. \A k \in 1 .. Count' :
            k <= Due' => Message(k)' = <<logs'[1], tailEnd' - Due' + k>>
      BY <1>1, <2>1, <3>1 DEF Tailing
    <3>3. /\ writeErr' = "closeSent" /\ client' = "on" => Count' > Due'
          /\ client' = "closed" => Len(printed') >= Due'
      BY <1>1, <2>1, <3>1 DEF Tailing
    <3> QED
      BY <1>1, <2>1, <2>4, <2>5, <3>2, <3>3 DEF Tailing
  <2>6. CASE Takes
    <3>1. /\ todo = logs
          /\ spc = "put" => tailEnd = Position /\ Count + Len(buffered) = Due
          /\ spc = "offer" => Count >= Due
      BY <2>1, <2>6 DEF Tailing
    <3>2. ASSUME NEW k \in 1 .. Count', k <= Due
          PROVE  Message(k)' = <<logs[1], tailEnd - Due + k>>
      <4>1. CASE k \in 1 .. Count
        <5>1. Message(k) = <<logs[1], tailEnd - Due + k>>
          BY <2>1, <3>2, <4>1 DEF Tailing
        <5> QED
          BY <2>3, <2>6, <4>1, <5>1
      <4>2. CASE k = Count'
        <5>1. spc = "put" /\ Message(k)' = <<Current, slice.line>>
          BY <1>2, <2>1, <2>2, <2>3, <2>6, <3>1, <3>2, <4>2
        <5>2. slice.line = Position - Len(buffered) + 1
          <6>1. 1 \in DOMAIN buffered /\ slice.line = buffered[1].line
            BY <2>2, <5>1, LenProperties DEF TypeOK, StreamerOK
          <6> QED
            BY <5>1, <6>1 DEF Progress
        <5>3. Position - Len(buffered) + 1 = tailEnd - Due + k
          BY <1>2, <1>3, <2>1, <2>2, <2>3, <2>6, <3>1, <4>2, <5>1
        <5>4. Current = logs[1]
          <6>1. logs \in {<<"stdout">>, <<"stderr">>, <<"stdout", "stderr">>}
            BY DEF TypeOK, ConfOK, Streams
          <6> QED
            BY <3>1, <6>1, Files DEF Current
        <5> QED
          BY <5>1, <5>2, <5>3, <5>4
      <4> QED
        BY <1>2, <2>3, <2>6, <4>1, <4>2
    <3>3. /\ spc' = "next" => tailEnd = Position /\ Count' + Len(buffered') = Due
          /\ spc' = "read" => Count' >= Due
      BY <1>2, <2>1, <2>2, <2>3, <2>6, <3>1
    <3>4. writeErr' = "none" /\ client' = "on"
      BY <1>1, <2>6 DEF Takes
    <3> QED
      BY <1>1, <2>1, <2>4, <3>1, <3>2, <3>3, <3>4 DEF Tailing
  <2> QED
    BY <2>5, <2>6
<1> QED
  BY <1>1, <1>4, <1>5 DEF TypeOK, StreamerOK

\* The close frame follows on the whole tail.
LEMMA TailingSendsEOF ==
  ASSUME TypeOK, Coupled, Together, Tailing, StreamerStep, SendsEOF
  PROVE  Tailing'
<1>1. /\ UNCHANGED <<client, logs, tail, printed, tailEnd>> /\ Due' = Due
      /\ spc = "eof" /\ spc' \in {"open", "done"}
  BY DEF StreamerStep, SendsEOF, confVars, clientVars, Due, FinishesFile
<1>2. todo' # logs'
  <2>1. todo # <<>> /\ FinishesFile
    BY DEF SendsEOF, Coupled
  <2> QED
    BY <2>1, FilesRemain
<1>3. ~Takes'
  BY SendsEOFEffect
<1>4. CASE tailEnd' < 0
  BY <1>1, <1>2, <1>3, <1>4 DEF Tailing, TypeOK, StreamerOK
<1>5. CASE tailEnd' >= 0
  <2>1. tailEnd >= 0 /\ tail > 0 /\ Due \in Nat /\ tailEnd \in Nat /\ Count \in Nat
    BY <1>1, <1>5, DueIsNatural, LogStreamAssumption, Lengths
       DEF Tailing, TypeOK, StreamerOK
  <2>2. client' = "closed" => Len(printed') >= Due'
    BY <1>1, <2>1 DEF Tailing
  <2>3. CASE Takes /\ Count' = Count + 1 /\ \A k \in 1 .. Count : Message(k)' = Message(k)
    <3>1. Count >= Due
      BY <1>1, <2>1, <2>3 DEF Tailing
    <3>2. \A k \in 1 .. Count' :
            k <= Due' => Message(k)' = <<logs'[1], tailEnd' - Due' + k>>
      <4> SUFFICES ASSUME NEW k \in 1 .. Count', k <= Due
                   PROVE  Message(k)' = <<logs[1], tailEnd - Due + k>>
        BY <1>1
      <4>1. k \in 1 .. Count
        BY <2>1, <2>3, <3>1
      <4>2. Message(k) = <<logs[1], tailEnd - Due + k>>
        BY <2>1, <4>1 DEF Tailing
      <4> QED
        BY <2>3, <4>1, <4>2
    <3>3. Count' > Due'
      BY <1>1, <2>1, <2>3, <3>1
    <3> QED
      BY <1>1, <1>2, <1>3, <2>1, <2>2, <3>2, <3>3 DEF Tailing
  <2>4. CASE Untouched /\ (writeErr' = writeErr \/ client # "on" \/ writeErr' = "timeout")
    <3>1. Count' = Count /\ \A k \in 1 .. Count : Message(k)' = Message(k)
      BY <2>4 DEF Untouched
    <3>2. \A k \in 1 .. Count' :
            k <= Due' => Message(k)' = <<logs'[1], tailEnd' - Due' + k>>
      BY <1>1, <2>1, <3>1 DEF Tailing
    <3>3. writeErr' = "closeSent" /\ client' = "on" => Count' > Due'
      BY <1>1, <2>1, <2>4, <3>1 DEF Tailing
    <3> QED
      BY <1>1, <1>2, <1>3, <2>1, <2>2, <3>2, <3>3 DEF Tailing
  <2> QED
    BY <2>3, <2>4, SendsEOFEffect
<1> QED
  BY <1>1, <1>4, <1>5 DEF TypeOK, StreamerOK

\* The tail of the first file reaches the client, or the client goes before.
LEMMA TailingStep ==
  ASSUME TypeOK, Coupled, Together, Chain, Progress, Tailing, [Next]_vars, TypeOK'
  PROVE  Tailing'
<1> USE DEF confVars, handlerVars, streamerVars, clientVars
<1>1. CASE StreamerStep
  BY <1>1, StreamerEffect, TailingReads, TailingScanned, TailingHandsOver,
     TailingSendsEOF
<1>2. CASE Quiet
  <2>1. /\ Untouched
        /\ UNCHANGED <<client, writeErr, spc, todo, scan, buffered, tailEnd, confVars>>
    BY <1>2 DEF Quiet
  <2> QED
    BY <2>1, TailingKept
<1>3. CASE ClientEnds \/ Quits
  <2>1. /\ client = "on" /\ client' # "on" /\ ~Takes' /\ Due' = Due
        /\ UNCHANGED <<printed, spc, todo, logs, tail, tailEnd, writeErr>>
    BY <1>3 DEF ClientEnds, Quits, Disconnects, Takes, Due
  <2>2. /\ Count' <= Count /\ Count' = Len(printed) /\ Count' \in Nat /\ Count \in Nat
        /\ \A k \in 1 .. Count' : Message(k)' = Message(k)
    BY <2>1, CutByClient, Lengths
  <2>3. tailEnd' >= 0 => \A k \in 1 .. Count' :
          k <= Due' => Message(k)' = <<logs'[1], tailEnd' - Due' + k>>
    BY <2>1, <2>2 DEF Tailing
  <2>4. tailEnd' >= 0 /\ client' = "closed" => Len(printed') >= Due'
    <3> SUFFICES ASSUME tailEnd >= 0, client' = "closed" PROVE Len(printed) >= Due
      BY <2>1
    <3>1. wire # <<>> /\ Head(wire) = <<"close">>
      BY <1>3 DEF ClientEnds, Quits
    <3>2. writeErr = "closeSent" /\ Count = Len(printed) + 1
      BY <2>1, <3>1, CloseIsLast
    <3>3. Count > Due
      BY <2>1, <3>2 DEF Tailing
    <3>4. Due \in Nat
      BY DueIsNatural DEF Tailing
    <3> QED
      BY <2>2, <3>2, <3>3, <3>4
  <2>5. /\ tailEnd' >= 0 => tail' > 0
        /\ spc' \in {"open", "fail", "tail"} /\ (Takes' \/ todo' = logs') => tailEnd' = -1
    BY <2>1 DEF Tailing
  <2> QED
    BY <2>1, <2>3, <2>4, <2>5 DEF Tailing
<1>4. CASE Refuses \/ Serves \/ (Prints /\ spc = "none")
  <2>1. tailEnd' = -1
    BY <1>4 DEF Refuses, Serves, Prints, Coupled, Together
  <2> QED
    BY <2>1, NoTailYet
<1> QED
  BY <1>1, <1>2, <1>3, <1>4, OthersEffect

-----------------------------------------------------------------------------
(* The theorems.                                                             *)

\* The inductive invariant holds in the beginning,
LEMMA StreamInvInit == Init => StreamInv
<1> SUFFICES ASSUME Init PROVE StreamInv
  OBVIOUS
<1>1. TypeOK /\ Coupled
  BY TypeInit
<1>2. /\ hpc = "start" /\ held = <<>> /\ ~canceled /\ writeErr = "none"
      /\ spc = "none" /\ todo = logs /\ buffered = <<>> /\ tailEnd = -1
      /\ wire = <<>> /\ client = "on" /\ printed = <<>>
  BY DEF Init
<1>3. Together
  BY <1>2 DEF Together
<1>4. Count = 0
  BY <1>2 DEF Count
<1>5. Chain
  BY <1>2, <1>4 DEF Chain
<1>6. Progress /\ Tailing
  BY <1>2 DEF Progress, Tailing
<1> QED
  BY <1>1, <1>3, <1>5, <1>6 DEF StreamInv

\* and every step preserves it.
LEMMA StreamInvStep ==
  ASSUME StreamInv, [Next]_vars
  PROVE  StreamInv'
<1> USE DEF StreamInv
<1>1. TypeOK' /\ Coupled'
  BY TypeStep
<1>2. Together'
  BY TogetherStep
<1>3. Chain'
  BY <1>1, ChainStep
<1>4. Progress'
  BY ProgressStep
<1>5. Tailing'
  BY <1>1, TailingStep
<1> QED
  BY <1>1, <1>2, <1>3, <1>4, <1>5

\* The stream, from the scanner over the handler's hand and the connection to the
\* terminal of the client, is at all times one sequence of lines of the file,
\* however large that is and whatever the scanner overwrites.
THEOREM StreamInvCorrect == Spec => []StreamInv
<1>1. StreamInv /\ [Next]_vars => StreamInv'
  BY StreamInvStep
<1> QED
  BY <1>1, StreamInvInit, PTL DEF Spec

\* What the client prints is in the order of the file, nothing twice, and without
\* --follow nothing left out.
THEOREM LinesInOrderCorrect == Spec => []LinesInOrder
<1>1. ASSUME StreamInv PROVE LinesInOrder
  <2>1. TypeOK /\ Chain
    BY <1>1 DEF StreamInv
  <2>2. Len(printed) \in Nat /\ Count \in Nat /\ Len(printed) <= Count
    BY <2>1, Lengths
  <2>3. DOMAIN printed = 1 .. Len(printed)
    BY <2>1, LenProperties DEF TypeOK, ClientOK
  <2>4. \A k \in DOMAIN printed :
          /\ k \in 1 .. Count /\ Message(k) = LineOf(printed[k])
          /\ LineOf(printed[k]) \in Streams \X Lines
    BY <2>1, <2>2, <2>3, PrintedLines
  <2>5. \A k \in DOMAIN printed :
          /\ LineOf(printed[k]) = <<printed[k][1], printed[k][2]>>
          /\ printed[k][1] \in Streams /\ printed[k][2] \in Int
    <3>1. \A k \in DOMAIN printed : printed[k] \in Messages
      BY <2>1, <2>3, PrintedLines
    <3> QED
      BY <3>1 DEF Messages, LineOf, Lines
  <2>6. ASSUME NEW k \in DOMAIN printed, NEW l \in DOMAIN printed, k < l
        PROVE  /\ printed[k][1] = printed[l][1] /\ printed[k][2] < printed[l][2]
               /\ ~follow => printed[l][2] - printed[k][2] = l - k
    <3>1. k \in 1 .. Count /\ l \in 1 .. Count /\ Message(l) \in Streams \X Lines
      BY <2>4
    <3>2. /\ Message(k)[1] = Message(l)[1] /\ Message(k)[2] < Message(l)[2]
          /\ ~follow => Message(l)[2] - Message(k)[2] = l - k
      BY <2>1, <2>6, <3>1 DEF Chain
    <3>3. /\ Message(k)[1] = printed[k][1] /\ Message(k)[2] = printed[k][2]
          /\ Message(l)[1] = printed[l][1] /\ Message(l)[2] = printed[l][2]
      BY <2>4, <2>5
    <3> QED
      BY <3>2, <3>3
  <2>7. ASSUME NEW i \in DOMAIN printed, NEW j \in DOMAIN printed, i < j, ~follow,
               NEW n \in printed[i][2] .. printed[j][2]
        PROVE  \E k \in i .. j : LineOf(printed[k]) = <<printed[i][1], n>>
    <3> DEFINE k == i + n - printed[i][2]
    <3>1. printed[i][2] \in Int /\ printed[j][2] \in Int /\ n \in Int
          /\ printed[j][2] - printed[i][2] = j - i
      BY <2>5, <2>6, <2>7
    <3>2. k \in i .. j /\ k \in DOMAIN printed
      BY <2>3, <3>1
    <3>3. printed[k][1] = printed[i][1] /\ printed[k][2] = n
      <4>1. CASE k = i
        <5>1. n = printed[i][2]
          BY <2>3, <3>1, <4>1
        <5> QED
          BY <4>1, <5>1
      <4>2. CASE k # i
        <5>1. i < k /\ k - i = n - printed[i][2]
          BY <2>3, <3>1, <3>2, <4>2
        <5>2. printed[i][1] = printed[k][1] /\ printed[k][2] - printed[i][2] = k - i
          BY <2>6, <2>7, <3>2, <5>1
        <5>3. printed[k][2] \in Int
          BY <2>5, <3>2
        <5> QED
          BY <3>1, <5>1, <5>2, <5>3
      <4> QED
        BY <4>1, <4>2
    <3> QED
      BY <2>5, <3>2, <3>3
  <2> QED
    BY <2>6, <2>7 DEF LinesInOrder
<1> QED
  BY <1>1, StreamInvCorrect, PTL

\* The lines of --tail come first and complete: the list of seekTail holds slices
\* for the last lines, whatever becomes of their texts.
THEOREM TailIsLastLinesCorrect == Spec => []TailIsLastLines
<1>1. ASSUME StreamInv PROVE TailIsLastLines
  <2>1. TypeOK /\ Tailing
    BY <1>1 DEF StreamInv
  <2>2. Len(printed) \in Nat /\ Count \in Nat /\ Len(printed) <= Count
    BY <2>1, Lengths
  <2>3. \A k \in DOMAIN printed : k \in 1 .. Count /\ Message(k) = LineOf(printed[k])
    <3>1. DOMAIN printed = 1 .. Len(printed)
      BY <2>1, LenProperties DEF TypeOK, ClientOK
    <3> QED
      BY <2>1, <2>2, <3>1, PrintedLines
  <2> QED
    BY <2>1, <2>3 DEF Tailing, TailIsLastLines
<1> QED
  BY <1>1, StreamInvCorrect, PTL

-----------------------------------------------------------------------------
(* The texts of the lines.                                                   *)

\* Scan overwrites a slice that lies before the cells it refills only by reusing
\* the buffer from its begin, when more than half of it has been read and there
\* is another line.  It never touches a slice of another buffer.
LEMMA ScanOverwrites ==
  ASSUME Placed(scan), file[Current] \in 0 .. MaxLines, ~AtEnd, NEW slice \in Slices
  PROVE  /\ slice.cell = 0 => AfterScan(slice) = slice
         /\ AfterScan(slice).cell = slice.cell
         /\ (slice.cell <= scan.cell \/ Large(Current)) =>
              /\ slice.cell <= Scanned.cell \/ Large(Current)
              /\ AfterScan(slice).text = "later" => slice.text = "later" \/ Large(Current)
<1> USE LogStreamAssumption DEF Placed, Slices
<1>1. AfterScan(slice).cell = slice.cell
  BY DEF AfterScan
<1>2. CASE ~Refills
  <2>1. AfterScan(slice) = slice /\ Scanned.cell = scan.cell + 1
    BY <1>2 DEF AfterScan, Scanned
  <2> QED
    BY <2>1
<1>3. CASE Refills
  <2>1. Base \in Nat /\ Scanned.cell = Base + 1
    BY <1>3, BaseInBuffer DEF Scanned
  <2>2. slice.cell = 0 => AfterScan(slice) = slice
    BY <2>1 DEF AfterScan
  <2>3. CASE scan.cell > Buffer \div 2
    <3>1. Large(Current)
      BY <1>3, <2>3 DEF Refills, AtEnd, Large
    <3> QED
      BY <1>1, <2>2, <3>1
  <2>4. CASE ~(scan.cell > Buffer \div 2)
    <3>1. Base = scan.cell
      BY <2>4 DEF Base
    <3>2. slice.cell <= scan.cell => AfterScan(slice) = slice
      BY <3>1 DEF AfterScan
    <3>3. Large(Current) \/ slice.cell <= scan.cell =>
            slice.cell <= Scanned.cell \/ Large(Current)
      BY <2>1, <3>1
    <3> QED
      BY <1>1, <2>2, <3>2, <3>3
  <2> QED
    BY <2>3, <2>4
<1> QED
  BY <1>2, <1>3

\* What the streamer does to the slice in the handler's hand.
LEMMA HeldTextStep ==
  ASSUME TypeOK, Coupled, HeldText, ListText, StreamerStep
  PROVE  HeldText'
<1>1. file' = file /\ \A s : Large(s)' = Large(s)
  BY DEF StreamerStep, Large
<1>2. CASE Opens \/ Polls
  <2>1. HeldIsFrozen
    BY <1>2 DEF Opens, Polls
  <2> QED
    BY <1>1, <2>1, HeldFrozen DEF HeldText, Large
<1>3. CASE TailPuts
  <2>1. /\ held' = <<Current, [Head(buffered) EXCEPT !.cell = 0]>>
        /\ [Head(buffered) EXCEPT !.cell = 0].text = buffered[1].text
        /\ [Head(buffered) EXCEPT !.cell = 0].cell = 0
        /\ Len(buffered) \in Nat /\ Len(buffered) > 0
    BY <1>3, PutsLine DEF HandlerTakes
  <2>2. 1 \in DOMAIN buffered
    BY <2>1, LenProperties DEF TypeOK, StreamerOK
  <2>3. /\ held'[1] = Current /\ held'[2].cell = 0
        /\ held'[2].text = "later" => Large(Current)
    BY <2>1, <2>2 DEF ListText
  <2> QED
    BY <1>1, <2>3 DEF HeldText, Large
<1>4. CASE Reads \/ ScanFails
  <2>1. Placed(scan) /\ file[Current] \in 0 .. MaxLines /\ scan.cell \in Nat
    BY <1>4, ScannerPlaced DEF Reads, ScanFails, StreamerGoto, Scanning
  <2>2. \A slice \in Slices : ~AtEnd => AfterScan(slice) \in Slices
    BY <2>1, ScanStays
  <2>3. /\ held' = <<>> <=> held = <<>>
        /\ held # <<>> =>
             /\ held'[1] = held[1] /\ held[2] \in Slices
             /\ \/ held'[2] = held[2] \/ held'[2] = Overrun(held[2])
                \/ Reads /\ ~AtEnd /\ held'[2] = AfterScan(held[2])
    BY <1>4, <2>2, HeldReads, HeldSlice DEF TypeOK
  <2>4. CASE held = <<>>
    BY <2>3, <2>4 DEF HeldText
  <2>5. CASE held # <<>>
    <3> DEFINE slice == held[2]
    <3>0. slice \in Slices /\ slice.cell \in Nat
      BY <2>3, <2>5, LogStreamAssumption DEF Slices
    <3>1. /\ slice.text = "later" => Large(held[1])
          /\ slice.cell > 0 =>
               held[1] = Current /\ (slice.cell <= scan.cell \/ Large(Current))
      BY <2>5 DEF HeldText
    <3>2. /\ held'[2].cell = slice.cell
          /\ held'[2].text = "later" => Large(held[1])
      <4>1. CASE held'[2] = slice
        BY <3>1, <4>1
      <4>2. CASE held'[2] = Overrun(slice)
        BY <3>0, <3>1, <4>2, OverrunStays
      <4>3. CASE Reads /\ ~AtEnd /\ held'[2] = AfterScan(slice)
        <5>1. CASE slice.cell = 0
          BY <2>1, <3>0, <3>1, <4>3, <5>1, ScanOverwrites
        <5>2. CASE slice.cell > 0
          BY <2>1, <3>0, <3>1, <4>3, <5>2, ScanOverwrites
        <5> QED
          BY <3>0, <5>1, <5>2
      <4> QED
        BY <2>3, <2>5, <4>1, <4>2, <4>3
    <3>3. slice.cell > 0 => slice.cell <= scan'.cell \/ Large(Current)
      <4>1. scan' = scan \/ (~AtEnd /\ scan' = Scanned)
        BY <1>4 DEF Reads, ScanFails
      <4> QED
        BY <2>1, <3>0, <3>1, <4>1, ScanOverwrites
    <3>4. Current' = Current
      BY <1>4 DEF Reads, ScanFails, Current
    <3>5. held'[1] = held[1]
      BY <2>3, <2>5
    <3> HIDE DEF slice
    <3> QED
      BY <1>1, <3>1, <3>2, <3>3, <3>4, <3>5 DEF HeldText, Large
  <2> QED
    BY <2>4, <2>5
<1>5. CASE Offers
  <2>1. UNCHANGED <<scan, todo>> /\ Current' = Current
    BY <1>5 DEF Offers, Current
  <2>2. CASE HandlerTakes(Token(scan))
    <3>1. held' = <<Current, Token(scan)>>
      BY <2>2 DEF HandlerTakes
    <3>2. /\ held'[1] = Current /\ held'[2].text = "own" /\ held'[2].cell = scan.cell
      BY <3>1 DEF Token
    <3>3. scan.cell \in Int
      BY LogStreamAssumption DEF TypeOK, StreamerOK
    <3> QED
      BY <2>1, <3>2, <3>3 DEF HeldText
  <2>3. CASE held' = held
    BY <1>1, <2>1, <2>3 DEF HeldText, Large
  <2> QED
    BY <1>5, <2>2, <2>3 DEF Offers
<1>6. CASE SendsEOF \/ SendsError
  <2>1. held' = <<>>
    BY <1>6 DEF SendsEOF, SendsError, Coupled
  <2> QED
    BY <2>1 DEF HeldText
<1>7. CASE TailScans
  <2>1. held' = held /\ Current' = Current /\ scan' = Scanned /\ ~AtEnd
    BY <1>7 DEF TailScans, Current
  <2>2. Placed(scan) /\ file[Current] \in 0 .. MaxLines
    BY <1>7, ScannerPlaced DEF TailScans, Scanning
  <2>3. held # <<>> /\ held[2].cell > 0 => held[2].cell <= Scanned.cell \/ Large(Current)
    BY <2>1, <2>2, HeldSlice, ScanOverwrites DEF HeldText, TypeOK
  <2> QED
    BY <1>1, <2>1, <2>3 DEF HeldText, Large
<1>8. CASE TailScanned \/ TailChecks \/ Reported \/ Polled
  <2>1. UNCHANGED <<held, scan>> /\ Current' = Current
    BY <1>8 DEF TailScanned, TailChecks, Reported, Polled, Current
  <2> QED
    BY <1>1, <2>1 DEF HeldText, Large
<1> QED
  BY <1>2, <1>3, <1>4, <1>5, <1>6, <1>7, <1>8 DEF StreamerStep

\* What it does to the list of seekTail.
LEMMA ListTextStep ==
  ASSUME TypeOK, Coupled, ListText, StreamerStep, TypeOK'
  PROVE  ListText'
<1>1. file' = file /\ \A s : Large(s)' = Large(s)
  BY DEF StreamerStep, Large
<1>2. /\ DOMAIN buffered = 1 .. Len(buffered) /\ Len(buffered) \in Nat
      /\ DOMAIN buffered' = 1 .. Len(buffered') /\ Len(buffered') \in Nat
      /\ \A i \in DOMAIN buffered : buffered[i] \in Slices
  BY LenProperties, ElementOfSeq DEF TypeOK, StreamerOK
<1>3. CASE TailScans
  <2> DEFINE lost == IF Len(buffered) >= tail THEN 1 ELSE 0
  <2>1. /\ Len(buffered') = Len(buffered) + 1 - lost
        /\ \A i \in 1 .. Len(buffered) - lost :
             buffered'[i] = AfterScan(buffered[i + lost])
        /\ buffered'[Len(buffered')] = Token(scan')
    BY <1>1, <1>3, TailScansLine DEF TailScans
  <2>2. lost \in {0, 1}
    OBVIOUS
  <2> HIDE DEF lost
  <2>3. Current' = Current /\ scan' = Scanned /\ ~AtEnd
    BY <1>3 DEF TailScans, Current
  <2>4. Placed(scan) /\ file[Current] \in 0 .. MaxLines
    BY <1>3, ScannerPlaced DEF TailScans, Scanning
  <2>5. scan'.cell \in Int
    BY LogStreamAssumption DEF TypeOK, StreamerOK
  <2>6. ASSUME NEW i \in DOMAIN buffered'
        PROVE  /\ buffered'[i].text = "later" => Large(Current)
               /\ buffered'[i].cell <= scan'.cell \/ Large(Current)
    <3>1. CASE i = Len(buffered')
      <4>1. buffered'[i].text = "own" /\ buffered'[i].cell = scan'.cell
        BY <2>1, <3>1 DEF Token
      <4> QED
        BY <2>5, <4>1
    <3>2. CASE i # Len(buffered')
      <4>1. i \in 1 .. Len(buffered) - lost /\ i + lost \in DOMAIN buffered
        BY <1>2, <2>1, <2>2, <2>6, <3>2
      <4> DEFINE slice == buffered[i + lost]
      <4>2. slice \in Slices /\ buffered'[i] = AfterScan(slice)
        BY <1>2, <2>1, <4>1
      <4>3. /\ slice.text = "later" => Large(Current)
            /\ slice.cell <= scan.cell \/ Large(Current)
        BY <4>1 DEF ListText
      <4> HIDE DEF slice
      <4> QED
        BY <2>3, <2>4, <4>2, <4>3, ScanOverwrites
    <3> QED
      BY <3>1, <3>2
  <2> QED
    BY <1>1, <2>3, <2>6 DEF ListText, Large
<1>4. CASE TailScanned
  <2>1. /\ DOMAIN buffered' = DOMAIN buffered
        /\ \A i \in DOMAIN buffered :
             /\ buffered'[i].cell = buffered[i].cell
             /\ buffered'[i].text = "later" => buffered[i].text = "later"
    BY <1>4, OverrunSlices DEF TailScanned, TypeOK, StreamerOK
  <2>2. Current' = Current /\ scan' = scan
    BY <1>4 DEF TailScanned, Current
  <2> QED
    BY <1>1, <2>1, <2>2 DEF ListText, Large
<1>5. CASE TailPuts
  <2>1. /\ Len(buffered') = Len(buffered) - 1
        /\ \A i \in 1 .. Len(buffered') : buffered'[i] = buffered[i + 1]
    BY <1>5, PutsLine
  <2>2. Current' = Current /\ scan' = scan
    BY <1>5 DEF TailPuts, Current
  <2>3. \A i \in DOMAIN buffered' :
          i + 1 \in DOMAIN buffered /\ buffered'[i] = buffered[i + 1]
    BY <1>2, <2>1
  <2> QED
    BY <1>1, <2>2, <2>3 DEF ListText, Large
<1>6. CASE TailChecks
  <2>1. Current' = Current /\ UNCHANGED <<scan, buffered>>
    BY <1>6 DEF TailChecks, Current
  <2> QED
    BY <1>1, <2>1 DEF ListText, Large
<1>7. CASE \/ Opens \/ Polls \/ Reads \/ ScanFails \/ Reported \/ Offers \/ Polled
           \/ SendsEOF \/ SendsError
  <2>1. buffered' = <<>>
    BY <1>7 DEF Opens, Polls, Reads, ScanFails, Reported, Offers, Polled, SendsEOF,
       SendsError, StreamerGoto, Coupled
  <2>2. DOMAIN buffered' = {}
    BY <2>1
  <2> QED
    BY <2>2 DEF ListText
<1> QED
  BY <1>3, <1>4, <1>5, <1>6, <1>7 DEF StreamerStep

\* A message that may be sent goes to the end of the wire.
LEMMA SendsText ==
  ASSUME TypeOK, SentText, NEW message, Excused(message), Transmits(message),
         message \in Messages \cup {<<"close">>, <<"refusal">>}
  PROVE  \A i \in DOMAIN wire' : Excused(wire'[i])
<1> DEFINE OnWire == Messages \cup {<<"close">>, <<"refusal">>}
<1>1. wire \in Seq(OnWire) /\ message \in OnWire
  BY DEF TypeOK, HandlerOK
<1>2. CASE wire' = wire
  BY <1>2 DEF SentText
<1>3. CASE wire' = Append(wire, message)
  <2> HIDE DEF OnWire
  <2>1. /\ wire' \in Seq(OnWire) /\ Len(wire') = Len(wire) + 1 /\ Len(wire) \in Nat
        /\ \A i \in 1 .. Len(wire) : wire'[i] = wire[i]
        /\ wire'[Len(wire) + 1] = message
    BY <1>1, <1>3, AppendProperties, LenProperties
  <2>2. DOMAIN wire = 1 .. Len(wire) /\ DOMAIN wire' = 1 .. Len(wire')
    BY <1>1, <2>1, LenProperties
  <2>3. ASSUME NEW i \in DOMAIN wire' PROVE Excused(wire'[i])
    <3>1. CASE i \in DOMAIN wire
      BY <2>1, <2>2, <3>1 DEF SentText
    <3>2. CASE i = Len(wire) + 1
      BY <2>1, <3>2
    <3> QED
      BY <2>1, <2>2, <3>1, <3>2
  <2> QED
    BY <2>3
<1> QED
  BY <1>2, <1>3 DEF Transmits

\* What becomes of the messages as the client gets them.
LEMMA SentTextStep ==
  ASSUME TypeOK, Coupled, HeldText, SentText, [Next]_vars
  PROVE  SentText'
<1> USE DEF confVars, handlerVars, streamerVars, clientVars
<1>1. ASSUME UNCHANGED file, \A i \in DOMAIN wire' : Excused(wire'[i]),
             \A i \in DOMAIN printed' : Excused(printed'[i])
      PROVE  SentText'
  BY <1>1 DEF SentText, Excused, Large
<1>2. ASSUME UNCHANGED <<file, wire, printed>> PROVE SentText'
  BY <1>1, <1>2 DEF SentText
<1>3. Excused(<<"close">>) /\ Excused(<<"refusal">>)
  BY Identities DEF Excused
<1>4. ASSUME NEW s \in Streams, Appends(s) PROVE SentText'
  <2>1. \A u \in Streams : file[u] \in Nat /\ file'[u] \in Nat /\ file'[u] >= file[u]
    BY <1>4, LogStreamAssumption DEF Appends, TypeOK, ConfOK
  <2>2. \A u \in Streams : Large(u) => Large(u)'
    BY <2>1, LogStreamAssumption DEF Large
  <2>3. \A m : Excused(m) => Excused(m)'
    BY <2>2 DEF Excused, Messages, Lines
  <2>4. UNCHANGED <<wire, printed>>
    BY <1>4 DEF Appends
  <2> QED
    BY <2>3, <2>4 DEF SentText
<1>5. CASE Prints
  <2> DEFINE OnWire == Messages \cup {<<"close">>, <<"refusal">>}
  <2>1. wire \in Seq(OnWire) /\ wire # <<>> /\ wire' = Tail(wire) /\ file' = file
    BY <1>5 DEF Prints, TypeOK, HandlerOK
  <2>2. /\ Len(wire) \in Nat /\ Len(wire) > 0 /\ Head(wire) = wire[1]
        /\ DOMAIN wire = 1 .. Len(wire) /\ DOMAIN wire' = 1 .. Len(wire) - 1
        /\ \A i \in 1 .. Len(wire) - 1 : wire'[i] = wire[i + 1]
        /\ Head(wire) \in OnWire
    <3> HIDE DEF OnWire
    <3>1. wire' \in Seq(OnWire)
      BY <2>1, HeadTailProperties
    <3> QED
      BY <2>1, <3>1, EmptySeq, HeadTailProperties, LenProperties
  <2>3. \A i \in DOMAIN wire' : Excused(wire'[i])
    <3>1. \A i \in DOMAIN wire' : i + 1 \in DOMAIN wire /\ wire'[i] = wire[i + 1]
      BY <2>2
    <3> QED
      BY <3>1 DEF SentText
  <2>4. Excused(Head(wire))
    BY <2>2 DEF SentText
  <2>5. CASE Head(wire) = <<"refusal">>
    <3>1. printed' = printed
      BY <1>5, <2>5 DEF Prints
    <3> QED
      BY <1>1, <2>1, <2>3, <3>1 DEF SentText
  <2>6. CASE Head(wire) # <<"refusal">>
    <3>1. printed' = Append(printed, Head(wire)) /\ Head(wire) \in Messages
      BY <1>5, <2>2, <2>6 DEF Prints
    <3>2. printed \in Seq(Messages)
      BY DEF TypeOK, ClientOK
    <3>3. /\ DOMAIN printed = 1 .. Len(printed) /\ Len(printed) \in Nat
          /\ DOMAIN printed' = 1 .. Len(printed) + 1
          /\ \A i \in 1 .. Len(printed) : printed'[i] = printed[i]
          /\ printed'[Len(printed) + 1] = Head(wire)
      BY <3>1, <3>2, AppendProperties, LenProperties
    <3>4. ASSUME NEW i \in DOMAIN printed' PROVE Excused(printed'[i])
      <4>1. CASE i \in DOMAIN printed
        BY <3>3, <4>1 DEF SentText
      <4>2. CASE i = Len(printed) + 1
        BY <2>4, <3>3, <4>2
      <4> QED
        BY <3>3, <4>1, <4>2
    <3> QED
      BY <1>1, <2>1, <2>3, <3>4
  <2> QED
    BY <2>5, <2>6
<1>6. CASE ClientEnds \/ Quits
  <2>1. wire' = <<>> /\ UNCHANGED <<file, printed>>
    BY <1>6 DEF ClientEnds, Quits, Disconnects
  <2>2. DOMAIN wire' = {}
    BY <2>1
  <2> QED
    BY <1>1, <2>1, <2>2 DEF SentText
<1>7. CASE Refuses
  <2>1. Transmits(<<"refusal">>) /\ UNCHANGED <<file, printed>>
    BY <1>7 DEF Refuses
  <2> QED
    BY <1>1, <1>3, <2>1, SendsText DEF SentText
<1>8. CASE WritesLine
  <2> DEFINE message == <<held[1], held[2].line, held[2].text>>
  <2>1. Transmits(message) /\ held # <<>> /\ UNCHANGED <<file, printed>>
    BY <1>8 DEF WritesLine, Coupled
  <2>2. message \in Messages /\ message[3] = "later" => Large(message[1])
    BY <2>1, HeldSlice DEF HeldText, Messages, TypeOK
  <2>3. Excused(message) /\ message \in Messages
    BY <2>1, <2>2, HeldSlice DEF Excused, Messages, TypeOK
  <2> HIDE DEF message
  <2> QED
    BY <1>1, <2>1, <2>3, SendsText DEF SentText
<1>9. CASE SendsEOF /\ StreamerStep
  <2>1. SendsClose /\ UNCHANGED <<file, printed>>
    BY <1>9 DEF SendsEOF, StreamerStep
  <2>2. Transmits(<<"close">>) \/ wire' = wire
    BY <2>1 DEF SendsClose
  <2>3. \A i \in DOMAIN wire' : Excused(wire'[i])
    BY <1>3, <2>2, SendsText DEF SentText
  <2> QED
    BY <1>1, <2>1, <2>3 DEF SentText
<1>10. CASE StreamerStep /\ ~SendsEOF
  <2>1. UNCHANGED <<file, wire, printed>>
    BY <1>10 DEF StreamerStep, Opens, TailScans, TailScanned, TailChecks, TailPuts,
       Polls, Reads, ScanFails, Reported, Offers, Polled, SendsError
  <2> QED
    BY <1>2, <2>1
<1>11. CASE Serves \/ EntersSelect \/ DisconnectSeen \/ HandlerReturns \/ Panics
            \/ UNCHANGED vars
  <2>1. UNCHANGED <<file, wire, printed>>
    BY <1>11 DEF Serves, EntersSelect, DisconnectSeen, HandlerReturns, Panics, vars
  <2> QED
    BY <1>2, <2>1
<1> QED
  BY <1>4, <1>5, <1>6, <1>7, <1>8, <1>9, <1>10, <1>11 DEF Next, HandlerStep

\* Every step preserves the whole invariant.
LEMMA TextInvStep ==
  ASSUME TextInv, [Next]_vars
  PROVE  TextInv'
<1> USE DEF TextInv, confVars, handlerVars, streamerVars, clientVars
<1>1. TypeOK' /\ Coupled'
  BY TypeStep
<1>2. SentText'
  BY SentTextStep
<1>3. HeldText' /\ ListText'
  <2>1. CASE StreamerStep
    BY <1>1, <2>1, HeldTextStep, ListTextStep
  <2>2. ASSUME UNCHANGED <<scan, buffered, todo, file>>, held' = held \/ held' = <<>>
        PROVE  HeldText' /\ ListText'
    BY <2>2 DEF HeldText, ListText, Large, Current
  <2>3. ASSUME NEW s \in Streams, Appends(s) PROVE HeldText' /\ ListText'
    <3>1. \A u \in Streams : file[u] \in Nat /\ file'[u] \in Nat /\ file'[u] >= file[u]
      BY <2>3, LogStreamAssumption DEF Appends, TypeOK, ConfOK
    <3>2. \A u \in Streams : Large(u) => Large(u)'
      BY <3>1, LogStreamAssumption DEF Large
    <3>3. UNCHANGED <<held, scan, buffered, todo, spc>> /\ Current' = Current
      BY <2>3 DEF Appends, Current
    <3>4. HeldText'
      BY <3>2, <3>3, HeldSlice DEF HeldText, TypeOK
    <3>5. CASE buffered = <<>>
      <4>1. DOMAIN buffered' = {}
        BY <3>3, <3>5
      <4> QED
        BY <3>4, <4>1 DEF ListText
    <3>6. CASE buffered # <<>>
      <4>1. spc \in Scanning
        BY <3>6 DEF Coupled, Scanning
      <4>2. Current \in Streams
        BY <4>1, ScannerPlaced
      <4> QED
        BY <3>2, <3>3, <3>4, <4>2 DEF ListText
    <3> QED
      BY <3>5, <3>6
  <2>4. CASE \/ Prints \/ ClientEnds \/ Quits \/ HandlerStep \/ Panics \/ UNCHANGED vars
    <3>1. UNCHANGED <<scan, buffered, todo, file>> /\ (held' = held \/ held' = <<>>)
      BY <2>4 DEF Prints, ClientEnds, Quits, Disconnects, HandlerStep, Refuses, Serves,
         EntersSelect, DisconnectSeen, WritesLine, HandlerReturns, Panics, vars
    <3> QED
      BY <2>2, <3>1
  <2> QED
    BY <2>1, <2>3, <2>4 DEF Next
<1> QED
  BY <1>1, <1>2, <1>3

\* A client that prints the text of a later line reads a file that is larger than
\* half of the buffer: a slice is never overwritten by another file's scanner, nor
\* by one of a later poll, and by its own only when that reuses its buffer.
THEOREM IntactInSmallLogsCorrect == Spec => []IntactInSmallLogs
<1>1. Init => TextInv
  <2> SUFFICES ASSUME Init PROVE TextInv
    OBVIOUS
  <2>1. held = <<>> /\ DOMAIN buffered = {} /\ DOMAIN wire = {} /\ DOMAIN printed = {}
    BY DEF Init
  <2> QED
    BY <2>1, TypeInit DEF TextInv, HeldText, ListText, SentText
<1>2. TextInv /\ [Next]_vars => TextInv'
  BY TextInvStep
<1>3. ASSUME TextInv PROVE IntactInSmallLogs
  <2>1. \A i \in DOMAIN printed : printed[i] \in Messages
    BY <1>3, LenProperties, ElementOfSeq DEF TextInv, TypeOK, ClientOK
  <2> QED
    BY <1>3, <2>1 DEF TextInv, SentText, Excused, Large, IntactInSmallLogs
<1> QED
  BY <1>1, <1>2, <1>3, PTL DEF Spec

=============================================================================
