------------------------------ MODULE LogStream -------------------------------
(***************************************************************************)
(* "mittnitectl job logs": the client, the handler apiV1JobLogs with its   *)
(* goroutine that waits for the client to disconnect, and the goroutine    *)
(* that reads the log files of the job, the streamer.  The handler and the *)
(* streamer share unbuffered channels: a send and its receive are one      *)
(* step, and a send on a channel that the handler has closed panics.       *)
(*                                                                         *)
(* A log file is the number of its lines; the job appends whole lines.  A  *)
(* line that the streamer hands on is a slice of the buffer of its         *)
(* bufio.Scanner: the scanner overwrites its text when it refills the      *)
(* buffer.  The buffer is measured in lines; only a line that is too long  *)
(* for any buffer, on which Scan fails, is an exception.                   *)
(***************************************************************************)
EXTENDS Integers, Sequences

CONSTANTS
  MaxLines,   \* bound on the lines of one log file
  MaxTail,    \* bound on the number of lines that the client asks for
  MaxWire,    \* messages the connection holds before WriteMessage blocks
  Buffer      \* the lines that fit into the buffer of a Scanner

ASSUME LogStreamAssumption ==
  /\ MaxLines \in Nat /\ MaxTail \in Nat
  /\ MaxWire \in Nat \ {0} /\ Buffer \in Nat \ {0}

Streams == {"stdout", "stderr"}

VARIABLES
  logs,       \* the streams that have a log file of their own, in order
  missing,    \* the streams whose file cannot be opened
  follow,     \* the option --follow
  tail,       \* the option --tail; -1 asks for the whole file
  running,    \* job.IsRunning()
  file,       \* the number of lines in each log file
  hpc,        \* where the handler is; when it is done, the channels are closed
  held,       \* the slice that the handler is writing
  canceled,   \* streamCtx has been canceled
  writeErr,   \* the error that every further write to the connection returns
  spc,        \* where the streamer is
  todo,       \* the streams it has not finished, the current one first
  scan,       \* its scanner: lines read, cells filled, cell of the last token
  buffered,   \* seekTail's list of slices
  tailEnd,    \* history: the lines of the first file when seekTail had read it
  panicked,   \* mittnite has died
  wire,       \* messages on their way to the client
  client,     \* "on", or how the client ended
  printed     \* the lines the client has printed

confVars     == <<logs, missing, follow, tail, running>>
handlerVars  == <<hpc, held, canceled, writeErr, wire>>
streamerVars == <<spc, todo, scan, buffered, tailEnd>>
clientVars   == <<client, printed>>
vars == <<confVars, file, handlerVars, streamerVars, panicked, clientVars>>

Lines == 1 .. MaxLines

\* The text of a slice is that of the line it was made for, of a later one, or a
\* piece of a line that is too long.
Texts == {"own", "later", "long"}

Slices == [line : Lines, text : Texts, cell : 0 .. Buffer]

Messages == Streams \X Lines \X Texts

ConfOK ==
  /\ logs \in {<<s>> : s \in Streams} \cup {<<"stdout", "stderr">>}
  /\ missing \subseteq Streams
  /\ follow \in BOOLEAN /\ tail \in -1 .. MaxTail /\ running \in BOOLEAN
  /\ file \in [Streams -> 0 .. MaxLines]

HandlerOK ==
  /\ hpc \in {"start", "serve", "wait", "write", "done"}
  /\ held \in {<<>>} \cup (Streams \X Slices)
  /\ canceled \in BOOLEAN /\ panicked \in BOOLEAN
  /\ writeErr \in {"none", "closeSent", "timeout"}
  /\ wire \in Seq(Messages \cup {<<"close">>, <<"refusal">>})
  /\ Len(wire) <= MaxWire

StreamerOK ==
  /\ spc \in {"none", "open", "fail", "tail", "next", "put", "poll", "read",
              "offer", "report", "polled", "eof", "done"}
  /\ todo \in {<<>>, <<"stdout">>, <<"stderr">>, <<"stdout", "stderr">>}
  /\ scan \in [pos : 0 .. MaxLines, filled : 0 .. Buffer, cell : 0 .. Buffer]
  /\ buffered \in Seq(Slices) /\ Len(buffered) <= MaxTail
  /\ tailEnd \in -1 .. MaxLines

ClientOK ==
  /\ client \in {"on", "closed", "lost", "quit"}
  /\ printed \in Seq(Messages)

TypeOK == ConfOK /\ HandlerOK /\ StreamerOK /\ ClientOK

Fresh(pos) == [pos |-> pos, filled |-> 0, cell |-> 0]

\* Both streams may also go to one file, which is then read as stdout.
Init ==
  /\ logs \in {<<s>> : s \in Streams} \cup {<<"stdout", "stderr">>}
  /\ missing \in SUBSET {logs[i] : i \in DOMAIN logs}
  /\ follow \in BOOLEAN /\ tail \in -1 .. MaxTail /\ running \in BOOLEAN
  /\ \E n \in Lines : file = [s \in Streams |-> n]
  /\ hpc = "start" /\ held = <<>> /\ canceled = FALSE /\ writeErr = "none"
  /\ spc = "none" /\ todo = logs /\ scan = Fresh(0) /\ buffered = <<>>
  /\ tailEnd = -1
  /\ panicked = FALSE
  /\ wire = <<>> /\ client = "on" /\ printed = <<>>

-----------------------------------------------------------------------------
(* The job, and the client (JobLogs, StreamingAPIResponse.Print).           *)

Appends(s) ==
  /\ \E i \in DOMAIN logs : logs[i] = s
  /\ file[s] < MaxLines
  /\ file' = [file EXCEPT ![s] = @ + 1]
  /\ UNCHANGED <<confVars, handlerVars, streamerVars, panicked, clientVars>>

\* A message is passed on to Print, which prints it.
Prints ==
  /\ client = "on" /\ wire # <<>> /\ Head(wire) # <<"close">>
  /\ wire' = Tail(wire)
  /\ printed' = IF Head(wire) = <<"refusal">> THEN printed
                ELSE Append(printed, Head(wire))
  /\ UNCHANGED <<confVars, file, hpc, held, canceled, writeErr, streamerVars,
                 panicked, client>>

\* Nobody receives any more what is on its way.
Disconnects ==
  /\ client = "on"
  /\ wire' = <<>>
  /\ UNCHANGED <<confVars, file, hpc, held, canceled, writeErr, streamerVars,
                 panicked, printed>>

\* ReadMessage fails with a close error, and Print returns nil.
ClientEnds ==
  /\ Disconnects
  /\ \/ wire # <<>> /\ Head(wire) = <<"close">> /\ client' = "closed"
     \/ wire = <<>> /\ (hpc = "done" \/ panicked) /\ client' = "lost"

\* The user interrupts the client.
Quits == Disconnects /\ client' = "quit"

-----------------------------------------------------------------------------
(* apiV1JobLogs.                                                            *)

\* A message is written, as soon as the connection has room for it; errors are
\* ignored, the loop of the handler goes on.
Transmits(message) ==
  IF client = "on" /\ writeErr = "none"
  THEN Len(wire) < MaxWire /\ wire' = Append(wire, message)
  ELSE UNCHANGED wire

\* The close frame has to be written within a second.
SendsClose ==
  \/ writeErr = "none" /\ Transmits(<<"close">>) /\ writeErr' = "closeSent"
  \/ /\ writeErr = "none" /\ client = "on" /\ Len(wire) = MaxWire
     /\ writeErr' = "timeout" /\ UNCHANGED wire
  \/ writeErr # "none" /\ UNCHANGED <<wire, writeErr>>

\* The job is not running: the client is told so, and the connection closed.
Refuses ==
  /\ hpc = "start" /\ ~running
  /\ Transmits(<<"refusal">>)
  /\ hpc' = "done"
  /\ UNCHANGED <<confVars, file, held, canceled, writeErr, streamerVars,
                 panicked, clientVars>>

\* The streamer is spawned, and the goroutine that waits for a disconnect.
Serves ==
  /\ hpc = "start" /\ running
  /\ hpc' = "serve" /\ spc' = "open"
  /\ UNCHANGED <<confVars, file, held, canceled, writeErr, wire, todo, scan,
                 buffered, tailEnd, panicked, clientVars>>

\* Until it is in its select, the handler receives nothing.
EntersSelect ==
  /\ hpc = "serve"
  /\ hpc' = "wait"
  /\ UNCHANGED <<confVars, file, held, canceled, writeErr, wire, streamerVars,
                 panicked, clientVars>>

\* Mutant: a disconnect is not noticed while the client is silent.
DisconnectUnseen ==
  /\ hpc \in {"serve", "wait", "write"} /\ spc = "done"
  /\ client # "on" /\ ~canceled
  /\ canceled' = TRUE
  /\ UNCHANGED <<confVars, file, hpc, held, writeErr, wire, streamerVars,
                 panicked, clientVars>>

\* conn.ReadMessage fails when the client is gone or has answered the close.
DisconnectSeen ==
  /\ hpc \in {"serve", "wait", "write"}
  /\ client # "on" /\ ~canceled
  /\ canceled' = TRUE
  /\ UNCHANGED <<confVars, file, hpc, held, writeErr, wire, streamerVars,
                 panicked, clientVars>>

\* conn.WriteMessage reads the slice now, not when it was received.
WritesLine ==
  /\ hpc = "write"
  /\ Transmits(<<held[1], held[2].line, held[2].text>>)
  /\ hpc' = "wait" /\ held' = <<>>
  /\ UNCHANGED <<confVars, file, canceled, writeErr, streamerVars, panicked,
                 clientVars>>

\* <-streamCtx.Done(): the channels and the connection are closed.
HandlerReturns ==
  /\ hpc = "wait" /\ canceled
  /\ hpc' = "done"
  /\ UNCHANGED <<confVars, file, held, canceled, writeErr, wire, streamerVars,
                 panicked, clientVars>>

HandlerStep ==
  /\ ~panicked
  /\ \/ Refuses \/ Serves \/ EntersSelect \/ DisconnectSeen \/ WritesLine
     \/ HandlerReturns

-----------------------------------------------------------------------------
(* The scanner.                                                             *)

Current == Head(todo)

\* The buffer is empty and the file at its end: Scan returns false.
AtEnd == scan.cell = scan.filled /\ scan.pos = file[Current]

Refills == scan.cell = scan.filled

\* The first cell that is refilled: the buffer is reused from its begin when
\* more than half of it has been consumed.
Base == IF scan.cell > Buffer \div 2 THEN 0 ELSE scan.cell

\* The scanner after Scan has returned one more line.
Scanned ==
  IF ~Refills THEN [scan EXCEPT !.cell = @ + 1]
  ELSE LET unread == file[Current] - scan.pos
           filled == IF Base + unread < Buffer THEN Base + unread ELSE Buffer
       IN [pos |-> scan.pos + filled - Base, filled |-> filled, cell |-> Base + 1]

\* The line in a cell of the buffer.
InCell(scanner, cell) == scanner.pos - scanner.filled + cell

\* scanner.Bytes()
Token(scanner) ==
  [line |-> InCell(scanner, scanner.cell), text |-> "own", cell |-> scanner.cell]

\* What has become of a slice after Scan.
AfterScan(slice) ==
  IF Refills /\ slice.cell \in (Base + 1) .. Scanned.filled
  THEN [slice EXCEPT !.text = "later"] ELSE slice

\* Scan returns false, because the file cannot be read, or because a line is too
\* long: it has then been read over all that is in use of the buffer.  What is
\* left of it is the line that the next scanner finds.
Overrun(slice) == IF slice.cell > 0 THEN [slice EXCEPT !.text = "long"] ELSE slice

TooLong == Refills /\ ~AtEnd

\* The scanner is given up, and nothing overwrites its buffer any more.
HeldIsFrozen == held' = IF held = <<>> THEN held ELSE [held EXCEPT ![2].cell = 0]

-----------------------------------------------------------------------------
(* The streamer: StreamStdOutAndStdErr, readStdFile and seekTail.           *)

StreamerGoto(from, to) == spc = from /\ spc' = to

\* readStdFile returns.  Whatever happened, the next file is streamed too.
FinishesFile ==
  /\ todo' = Tail(todo)
  /\ spc' = IF Tail(todo) = <<>> THEN "done" ELSE "open"

\* os.OpenFile, and the begin of seekTail.
Opens ==
  /\ spc = "open"
  /\ spc' = IF Current \in missing THEN "fail"
            ELSE IF tail > 0 THEN "tail" ELSE "poll"
  /\ scan' = Fresh(IF tail = 0 THEN file[Current] ELSE 0)
  /\ HeldIsFrozen
  /\ UNCHANGED <<todo, buffered, tailEnd, hpc, wire, writeErr>>

\* seekTail reads on: the list keeps the last lines.
TailScans ==
  /\ spc = "tail" /\ ~AtEnd
  /\ scan' = Scanned
  /\ LET kept == [i \in DOMAIN buffered |-> AfterScan(buffered[i])]
         rest == IF Len(buffered) >= tail THEN Tail(kept) ELSE kept
     IN buffered' = Append(rest, Token(scan'))
  /\ UNCHANGED <<spc, todo, tailEnd, held, hpc, wire, writeErr>>

\* The end of the file, or an error, which nobody asks the scanner for.
TailScanned ==
  /\ StreamerGoto("tail", "next") /\ Refills
  /\ \/ UNCHANGED buffered
     \/ TooLong /\ buffered' = [i \in DOMAIN buffered |-> Overrun(buffered[i])]
  /\ tailEnd' = IF Current = logs[1] THEN scan.pos ELSE tailEnd
  /\ UNCHANGED <<todo, scan, held, hpc, wire, writeErr>>

\* The loop over the list ends early when the context has been canceled.
TailChecks ==
  /\ spc = "next"
  /\ spc' = IF buffered = <<>> \/ canceled THEN "poll" ELSE "put"
  /\ UNCHANGED <<todo, scan, buffered, tailEnd, held, hpc, wire, writeErr>>

\* The handler receives from outChan.
HandlerTakes(slice) ==
  /\ hpc = "wait" /\ hpc' = "write"
  /\ held' = <<Current, slice>>

\* Mutant: a line of the tail is dropped when the handler is busy.
TailPutsOrDrops ==
  /\ StreamerGoto("put", "next")
  /\ IF hpc = "wait" THEN HandlerTakes([Head(buffered) EXCEPT !.cell = 0])
     ELSE UNCHANGED <<hpc, held>>
  /\ buffered' = Tail(buffered)
  /\ UNCHANGED <<todo, scan, tailEnd, wire, writeErr>>

\* outChan <- line blocks until the handler receives.
TailPuts ==
  /\ StreamerGoto("put", "next")
  /\ HandlerTakes([Head(buffered) EXCEPT !.cell = 0])
  /\ buffered' = Tail(buffered)
  /\ UNCHANGED <<todo, scan, tailEnd, wire, writeErr>>

\* Mutant: the new scanner begins with the file again.
PollsFromStart ==
  /\ spc = "poll"
  /\ IF canceled THEN FinishesFile ELSE spc' = "read" /\ UNCHANGED todo
  /\ scan' = Fresh(0) /\ buffered' = <<>>
  /\ HeldIsFrozen
  /\ UNCHANGED <<tailEnd, hpc, wire, writeErr>>

\* Mutant: the new scanner is given the buffer of the last one.
PollsReusingBuffer ==
  /\ spc = "poll"
  /\ IF canceled THEN FinishesFile ELSE spc' = "read" /\ UNCHANGED todo
  /\ scan' = Fresh(scan.pos) /\ buffered' = <<>>
  /\ UNCHANGED <<tailEnd, held, hpc, wire, writeErr>>

\* The loop of readStdFile: a new scanner goes on where the last one stopped.
Polls ==
  /\ spc = "poll"
  /\ IF canceled THEN FinishesFile ELSE spc' = "read" /\ UNCHANGED todo
  /\ scan' = Fresh(scan.pos) /\ buffered' = <<>>
  /\ HeldIsFrozen
  /\ UNCHANGED <<tailEnd, hpc, wire, writeErr>>

Reads ==
  /\ spc = "read"
  /\ IF AtEnd
     THEN spc' = "polled" /\ UNCHANGED <<scan, held>>
     ELSE /\ spc' = "offer"
          /\ scan' = Scanned
          /\ held' = IF held = <<>> THEN held
                     ELSE [held EXCEPT ![2] = AfterScan(@)]
  /\ UNCHANGED <<todo, buffered, tailEnd, hpc, wire, writeErr>>

ScanFails ==
  /\ StreamerGoto("read", "report") /\ Refills
  /\ \/ UNCHANGED held
     \/ /\ TooLong /\ held # <<>>
        /\ held' = [held EXCEPT ![2] = Overrun(@)]
  /\ UNCHANGED <<todo, scan, buffered, tailEnd, hpc, wire, writeErr>>

\* The error is sent only if the handler is ready to receive and log it.
Reported ==
  /\ StreamerGoto("report", "polled")
  /\ UNCHANGED <<todo, scan, buffered, tailEnd, held, hpc, wire, writeErr>>

\* The line is sent only if the handler is ready to receive it.  If not, it is
\* dropped: with follow the next line is read, else the reading ends.
Offers ==
  /\ spc = "offer"
  /\ \/ spc' = "read" /\ HandlerTakes(Token(scan))
     \/ canceled /\ spc' = "polled" /\ UNCHANGED <<hpc, held>>
     \/ /\ hpc \in {"serve", "write"} /\ ~canceled
        /\ spc' = IF follow THEN "read" ELSE "polled"
        /\ UNCHANGED <<hpc, held>>
  /\ UNCHANGED <<todo, scan, buffered, tailEnd, wire, writeErr>>

Polled ==
  /\ StreamerGoto("polled", IF follow THEN "poll" ELSE "eof")
  /\ UNCHANGED <<todo, scan, buffered, tailEnd, held, hpc, wire, writeErr>>

\* Mutant: the handler only takes notice of the end.
SendsEOFUnclosed ==
  /\ spc = "eof" /\ hpc = "wait"
  /\ FinishesFile
  /\ UNCHANGED <<scan, buffered, tailEnd, held, hpc, wire, writeErr>>

\* errChan <- io.EOF; the handler sends the close frame, or fails to.
SendsEOF ==
  /\ spc = "eof" /\ hpc = "wait"
  /\ FinishesFile
  /\ SendsClose
  /\ UNCHANGED <<scan, buffered, tailEnd, held, hpc>>

\* errChan <- err: the handler logs it.
SendsError ==
  /\ spc = "fail" /\ hpc = "wait"
  /\ FinishesFile
  /\ UNCHANGED <<scan, buffered, tailEnd, held, hpc, wire, writeErr>>

StreamerStep ==
  /\ ~panicked
  /\ \/ Opens \/ TailScans \/ TailScanned \/ TailChecks \/ TailPuts \/ Polls
     \/ Reads \/ ScanFails \/ Reported \/ Offers \/ Polled \/ SendsEOF \/ SendsError
  /\ UNCHANGED <<confVars, file, canceled, panicked, clientVars>>

\* A send on a closed channel.  The select of an offer or a report may as well
\* choose the canceled context.
Panics ==
  /\ ~panicked
  /\ spc \in {"put", "offer", "report", "eof", "fail"} /\ hpc = "done"
  /\ panicked' = TRUE
  /\ UNCHANGED <<confVars, file, handlerVars, streamerVars, clientVars>>

-----------------------------------------------------------------------------
\* The connection and its goroutines are gone.
Over ==
  /\ client # "on"
  /\ panicked \/ (hpc = "done" /\ spc \in {"none", "done"})

Next ==
  \/ \E s \in Streams : Appends(s)
  \/ Prints \/ ClientEnds \/ Quits
  \/ HandlerStep
  \/ StreamerStep \/ Panics
  \/ Over /\ UNCHANGED vars

Spec == Init /\ [][Next]_vars

\* The goroutines take their steps, and the client reads what arrives.  The
\* user need not interrupt it, and the job need not write.
FairSpec ==
  /\ Spec
  /\ WF_vars(HandlerStep)
  /\ WF_vars(~panicked /\ DisconnectSeen)
  /\ WF_vars(StreamerStep \/ Panics)
  /\ WF_vars(Prints \/ ClientEnds)

-----------------------------------------------------------------------------
(* Properties.                                                              *)

LineOf(message) == <<message[1], message[2]>>

\* Of each file the client gets lines in the order of the file and none twice,
\* although seekTail and each poll read it with scanners of their own; without
\* --follow there is no gap either: the reading stops at the line it drops.
LinesInOrder ==
  \A i, j \in DOMAIN printed :
    i < j /\ printed[i][1] = printed[j][1] =>
      /\ printed[i][2] < printed[j][2]
      /\ ~follow => \A n \in printed[i][2] .. printed[j][2] :
                      \E k \in i .. j : LineOf(printed[k]) = <<printed[i][1], n>>

\* The lines that seekTail has found, when it has read the first file.
Due == IF tailEnd < tail THEN tailEnd ELSE tail

\* --tail n begins with slices for the last n lines of the file, and when the
\* stream is closed by mittnite, none is left out, however slow the client reads.
TailIsLastLines ==
  tailEnd >= 0 =>
    /\ \A i \in DOMAIN printed :
         i <= Due => LineOf(printed[i]) = <<logs[1], tailEnd - Due + i>>
    /\ client = "closed" => Len(printed) >= Due

\* A slice that the scanner has overwritten before it was written, so that the
\* client prints the text of a later line, is one of a file that does not fit into
\* half of the buffer: the scanners of different polls do not share one.
IntactInSmallLogs ==
  \A i \in DOMAIN printed :
    printed[i][3] = "later" => file[printed[i][1]] > Buffer \div 2 + 1

\* When the client is gone, the handler returns, and the streamer as well, which
\* neither spins nor is blocked for ever.
StreamEnds ==
  client # "on" /\ hpc # "start" ~> panicked \/ Over

\* Without --follow the client ends by itself if only one file can be read, unless
\* it reads so slowly that the close frame does not get through in time.
LogsEnd ==
  ~follow /\ (\E i \in DOMAIN logs : logs[i] \notin missing)
    ~> client # "on" \/ writeErr = "timeout"

\* However slowly it reads.  (It does not.)
EveryLogEnds ==
  ~follow /\ (\E i \in DOMAIN logs : logs[i] \notin missing) ~> client # "on"

\* The last lines are shown as they are in the file.  (They are not.)
TailIsIntact ==
  tailEnd >= 0 =>
    \A i \in DOMAIN printed : i <= Due => printed[i][3] # "later"

\* With two log files the client sees the lines of both.  (It does not.)
StderrIsShown ==
  client = "closed" /\ Len(logs) = 2 /\ missing = {} /\ tail > 0
    /\ (\A s \in Streams : file[s] > 0)
      => \A s \in Streams : \E i \in DOMAIN printed : printed[i][1] = s

\* A disconnecting client does not end mittnite.  (It may.)
NoPanic == ~panicked
===============================================================================
