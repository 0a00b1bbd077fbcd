----------------------------- MODULE ExecSession -----------------------------
(***************************************************************************)
(* The data path of an exec session (runExecWS, src/internal/api/ws.go):   *)
(* every connection starts a goroutine of its own that reads the           *)
(* session's one stream, records what it read and queues it for its own    *)
(* browser.  The goroutine of a connection that has gone lives on until    *)
(* the stream gives it something to do.                                    *)
(***************************************************************************)
EXTENDS WSConn

CONSTANT MaxLoad   \* bound: chunks that are printed and browsers that connect, together

ASSUME MaxLoadAssumption == MaxLoad \in Nat

VARIABLES
  printed,      \* chunks the container has printed
  taken,        \* chunks that Stream.Read has returned; the stream is FIFO
  stream,       \* "open", "exited" (the shell is gone) or "closed" (cut: by evict, by a lost
                \* link or by the end of the request that opened it)
  reader,       \* the stream reader: "idle", "read", "record", "send", "bye" or "stopped"
  held          \* the chunk it is handling

vars == <<wsVars, printed, taken, stream, reader, held>>

Init ==
  /\ WSInit
  /\ printed = 0
  /\ taken = 0
  /\ stream = "open"
  /\ reader = [c \in Conns |-> "idle"]
  /\ held = [c \in Conns |-> 0]

ReaderStep(c, from, to) == reader[c] = from /\ reader' = [reader EXCEPT ![c] = to]

-----------------------------------------------------------------------------
(* The container, and whatever cuts the stream *)

Load == printed + Cardinality({c \in Conns : client[c] # "absent"})

Output ==
  /\ stream = "open" /\ printed < MaxOutput /\ Load < MaxLoad
  /\ printed' = printed + 1
  /\ UNCHANGED <<wsVars, taken, stream, reader, held>>

ShellExits ==
  /\ stream = "open"
  /\ stream' = "exited"
  /\ UNCHANGED <<wsVars, printed, taken, reader, held>>

CloseStream ==
  /\ stream # "closed"
  /\ stream' = "closed"
  /\ UNCHANGED <<wsVars, printed, taken, reader, held>>

-----------------------------------------------------------------------------
(* runExecWS *)

\* writeCh and done are made and both goroutines start.
StartExec(c) ==
  /\ HandlerStep(c, "start", "reading")
  /\ writer' = [writer EXCEPT ![c] = "running"]
  /\ ReaderStep(c, "idle", "read")
  /\ UNCHANGED <<rec, client, snapshot, deadline, writeCh, closed, got, printed, taken, stream, held>>

\* Mutant: data the stream has returned stays in it.
ReadStreamPeek(c) ==
  /\ taken < printed
  /\ ReaderStep(c, "read", "record")
  /\ taken' \in {taken, taken + 1}
  /\ held' = [held EXCEPT ![c] = taken + 1]
  /\ UNCHANGED <<wsVars, printed, stream>>

\* Stream.Read returns data.
ReadStream(c) ==
  /\ taken < printed
  /\ ReaderStep(c, "read", "record")
  /\ taken' = taken + 1
  /\ held' = [held EXCEPT ![c] = taken + 1]
  /\ UNCHANGED <<wsVars, printed, stream>>

\* Stream.Read fails: at the end of the output, or at once on a closed stream.
ReadError(c) ==
  /\ (stream = "exited" /\ taken = printed) \/ stream = "closed"
  /\ ReaderStep(c, "read", "bye")
  /\ UNCHANGED <<wsVars, printed, taken, stream, held>>

\* Mutant: a reader whose browser has gone drops the chunk instead of recording it.
RecordIfConnected(c) ==
  /\ ReaderStep(c, "record", "send")
  /\ rec' = IF Done(c) THEN rec ELSE Append(rec, held[c])
  /\ UNCHANGED <<client, handler, snapshot, deadline, writer, writeCh, closed, got,
                 printed, taken, stream, held>>

\* Recorder.Add; Broadcast finds no subscriber in exec mode.
Record(c) ==
  /\ ReaderStep(c, "record", "send")
  /\ rec' = Append(rec, held[c])
  /\ UNCHANGED <<client, handler, snapshot, deadline, writer, writeCh, closed, got,
                 printed, taken, stream, held>>

\* The chunk is queued for the browser ...
Queue(c) ==
  /\ ReaderStep(c, "send", "read")
  /\ Offer(c, held[c])
  /\ UNCHANGED <<rec, client, handler, snapshot, deadline, writer, closed, got,
                 printed, taken, stream, held>>

\* ... or, as done is closed, the reader stops.
GiveUp(c) ==
  /\ Done(c)
  /\ ReaderStep(c, "send", "stopped")
  /\ closed' = closed \cup {c}
  /\ UNCHANGED <<rec, client, handler, snapshot, deadline, writer, writeCh, got,
                 printed, taken, stream, held>>


\* The exit message is queued, unless done is closed; the reader stops.
Bye(c) ==
  /\ ReaderStep(c, "bye", "stopped")
  /\ Offer(c, Exit) \/ (Done(c) /\ UNCHANGED writeCh)
  /\ closed' = closed \cup {c}
  /\ UNCHANGED <<rec, client, handler, snapshot, deadline, writer, got,
                 printed, taken, stream, held>>

StreamReader(c) ==
  ReadStream(c) \/ ReadError(c) \/ Record(c) \/ Queue(c) \/ GiveUp(c) \/ Bye(c)

\* <-done, and runExecWS returns.
Return(c) ==
  /\ Done(c)
  /\ HandlerStep(c, "waiting", "returned")
  /\ UNCHANGED <<rec, client, snapshot, deadline, writer, writeCh, closed, got,
                 printed, taken, stream, reader, held>>

-----------------------------------------------------------------------------
Shared(A) == A /\ UNCHANGED <<printed, taken, stream, reader, held>>

Connect(c) == Shared(Dial(c)) /\ Load < MaxLoad

Handler(c) == Shared(FlushEvents(c)) \/ StartExec(c) \/ Shared(ReadFails(c)) \/ Return(c)

Next ==
  \/ Output \/ ShellExits \/ CloseStream
  \/ \E c \in Conns :
       \/ Connect(c) \/ Shared(Leave(c)) \/ Shared(DeadlinePasses(c))
       \/ Handler(c) \/ Shared(Writer(c)) \/ StreamReader(c)

(***************************************************************************)
(* Fairness: the goroutines of the server run, but for a write to a        *)
(* browser that is there.  The browser need not come, read or leave, and   *)
(* the container need not print anything.                                  *)
(***************************************************************************)
Fairness ==
  \A c \in Conns :
    /\ WF_vars(Handler(c))
    /\ WF_vars(Shared(WriterFreed(c)))
    /\ WF_vars(StreamReader(c))

Spec == Init /\ [][Next]_vars /\ Fairness
-----------------------------------------------------------------------------
(* Properties *)

TypeOK ==
  /\ WSTypeOK
  /\ printed \in 0 .. MaxOutput
  /\ taken \in 0 .. printed
  /\ stream \in {"open", "exited", "closed"}
  /\ reader \in [Conns -> {"idle", "read", "record", "send", "bye", "stopped"}]
  /\ held \in [Conns -> 0 .. MaxOutput]

\* Live output is newer than all that a browser got before it, flush included, although the
\* flush and the reader work from different copies of the output (ws.go:67-70): no chunk comes
\* twice or too late.  Within a flush the order is the recording's.
LiveIsNewer ==
  \A c \in Conns : \A j \in Len(snapshot[c]) + 1 .. Len(got[c]) : \A i \in 1 .. j - 1 :
    got[c][j] # Exit => got[c][i] < got[c][j]

\* Nothing that was read is missing from the recording: each chunk is recorded exactly once,
\* or is in the hands of a reader that is about to record it, whatever became of the browser
\* the reader works for.
RecordedOnce ==
  \A n \in 1 .. taken :
    Cardinality({i \in 1 .. Len(rec) : rec[i] = n})
      = IF \E c \in Conns : reader[c] = "record" /\ held[c] = n THEN 0 ELSE 1

\* Once the stream is closed, every goroutine of a connection whose browser has gone ends.
NoGoroutineLeak ==
  \A c \in Conns :
    (stream = "closed" /\ client[c] = "gone") ~> (handler[c] = "returned" /\ reader[c] = "stopped")

\* A browser is there for which output is read, and its reader is held up by a full queue.
Attended(c) == handler[c] = "reading" /\ client[c] = "up" /\ ~Done(c)
Stalled(c) == reader[c] = "send" /\ Len(writeCh[c]) = ChCap

\* A chunk that was printed while a browser was there is recorded (ws.go:112-130), unless the
\* stream is cut first, all browsers go, or all that are there have stopped reading for good,
\* which holds up their readers.  One that still reads is enough, whatever the others do.
PrintedIsRecorded ==
  \A n \in Chunks :
    (printed >= n /\ \E c \in Conns : Attended(c)) ~>
      (\/ \E i \in 1 .. Len(rec) : rec[i] = n
       \/ stream = "closed"
       \/ \A c \in Conns : ~Attended(c)
       \/ [](\A c \in Conns : Attended(c) => Stalled(c)))

-----------------------------------------------------------------------------
(* What the repository says and the code does not do *)

\* SPEC.md:210: after the flush the browser gets the output as it comes: the write goroutine
\* does not stop while the browser is there and the stream is open.
LiveAfterFlush ==
  \A c \in Conns : client[c] = "up" /\ stream = "open" => writer[c] # "stopped"

\* The executions in which every flush succeeds.
FlushedSpec == Init /\ [][Next /\ \A c \in Conns : ~FlushFails(c)]_vars
=============================================================================
