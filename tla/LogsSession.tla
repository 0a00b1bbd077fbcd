----------------------------- MODULE LogsSession -----------------------------
(***************************************************************************)
(* The data path of a logs session (runLogsWS, src/internal/api/ws.go).    *)
(* The session has no stream: every connection asks the runtime for the    *)
(* container's log from its first line on, follows it, and adds what it    *)
(* reads to the session's one recording.                                   *)
(***************************************************************************)
EXTENDS WSConn

CONSTANT MaxBreaks   \* bound: connections that lose the log before its end

ASSUME MaxBreaksAssumption == MaxBreaks \in Nat

VARIABLES
  printed,      \* lines in the container's log
  stopped,      \* the container has stopped: the log ends
  scanner,      \* the log reader: "idle", "scan", "record", "send" or "stopped"
  line,         \* the last line it has read
  broken        \* connections for which the log's stream is no longer any good

logVars == <<printed, stopped, scanner, line, broken>>
vars == <<wsVars, logVars>>

Init ==
  /\ WSInit
  /\ printed = 0
  /\ stopped = FALSE
  /\ scanner = [c \in Conns |-> "idle"]
  /\ line = [c \in Conns |-> 0]
  /\ broken = {}

ScannerStep(c, from, to) == scanner[c] = from /\ scanner' = [scanner EXCEPT ![c] = to]

-----------------------------------------------------------------------------
(* The container, and the way to it *)

Output ==
  /\ ~stopped /\ printed < MaxOutput
  /\ printed' = printed + 1
  /\ UNCHANGED <<wsVars, stopped, scanner, line, broken>>

ContainerStops ==
  /\ ~stopped
  /\ stopped' = TRUE
  /\ UNCHANGED <<wsVars, printed, scanner, line, broken>>

\* The connection that brings the log is lost, or the next line is over the scanner's 1 MiB.  What
\* has arrived before is still scanned: the break counts from when nothing of that is left.
LogBreaks(c) ==
  /\ scanner[c] = "scan" /\ c \notin broken /\ Cardinality(broken) < MaxBreaks
  /\ broken' = broken \cup {c}
  /\ UNCHANGED <<wsVars, printed, stopped, scanner, line>>

-----------------------------------------------------------------------------
(* runLogsWS *)

\* Runtime.Logs succeeds and both goroutines start.
StartLogs(c) ==
  /\ HandlerStep(c, "start", "reading")
  /\ writer' = [writer EXCEPT ![c] = "running"]
  /\ ScannerStep(c, "idle", "scan")
  /\ UNCHANGED <<rec, client, snapshot, deadline, writeCh, closed, got, printed, stopped, line,
                 broken>>

\* Runtime.Logs fails: an error message, and the handler returns at once.
LogsFail(c) ==
  /\ HandlerStep(c, "start", "returned")
  /\ UNCHANGED <<rec, client, snapshot, deadline, writer, writeCh, closed, got, logVars>>

\* Mutant: the log is followed from its end, without what it held before.
ScanTail(c) ==
  /\ line[c] < printed /\ c \notin broken
  /\ ScannerStep(c, "scan", "record")
  /\ line' = [line EXCEPT ![c] = printed]
  /\ UNCHANGED <<wsVars, printed, stopped, broken>>

\* Scanner.Scan finds a line.
Scan(c) ==
  /\ line[c] < printed /\ c \notin broken
  /\ ScannerStep(c, "scan", "record")
  /\ line' = [line EXCEPT ![c] = @ + 1]
  /\ UNCHANGED <<wsVars, printed, stopped, broken>>

\* Mutant: the scanner ends without closing writeCh.
ScanEndsOpen(c) ==
  /\ (stopped /\ line[c] = printed) \/ c \in broken \/ handler[c] = "returned"
  /\ ScannerStep(c, "scan", "stopped")
  /\ UNCHANGED <<wsVars, printed, stopped, line, broken>>

\* Scan returns false: the log has ended, it cannot be read on (nobody looks at Scanner.Err), or
\* the handler has returned and its deferred Close and the end of the request's context have
\* closed the log.  No message tells the browser.
ScanEnds(c) ==
  /\ (stopped /\ line[c] = printed) \/ c \in broken \/ handler[c] = "returned"
  /\ ScannerStep(c, "scan", "stopped")
  /\ closed' = closed \cup {c}
  /\ UNCHANGED <<rec, client, handler, snapshot, deadline, writer, writeCh, got, printed, stopped,
                 line, broken>>

\* Recorder.AddAt, at the line's time since the first line this connection read.
Record(c) ==
  /\ ScannerStep(c, "record", "send")
  /\ rec' = Append(rec, line[c])
  /\ UNCHANGED <<client, handler, snapshot, deadline, writer, writeCh, closed, got, printed, stopped,
                 line, broken>>

Queue(c) ==
  /\ ScannerStep(c, "send", "scan")
  /\ Offer(c, line[c])
  /\ UNCHANGED <<rec, client, handler, snapshot, deadline, writer, closed, got, printed, stopped,
                 line, broken>>

GiveUp(c) ==
  /\ Done(c)
  /\ ScannerStep(c, "send", "stopped")
  /\ closed' = closed \cup {c}
  /\ UNCHANGED <<rec, client, handler, snapshot, deadline, writer, writeCh, got, printed, stopped,
                 line, broken>>

Scanner(c) == Scan(c) \/ ScanEnds(c) \/ Record(c) \/ Queue(c) \/ GiveUp(c)

\* <-done, and runLogsWS returns.
Return(c) ==
  /\ Done(c)
  /\ HandlerStep(c, "waiting", "returned")
  /\ UNCHANGED <<rec, client, snapshot, deadline, writer, writeCh, closed, got, logVars>>

-----------------------------------------------------------------------------
Shared(A) == A /\ UNCHANGED logVars

Handler(c) ==
  Shared(FlushEvents(c)) \/ StartLogs(c) \/ LogsFail(c) \/ Shared(ReadFails(c)) \/ Return(c)

Next ==
  \/ Output \/ ContainerStops
  \/ \E c \in Conns :
       \/ LogBreaks(c)
       \/ Shared(Dial(c)) \/ Shared(Leave(c)) \/ Shared(DeadlinePasses(c))
       \/ Handler(c) \/ Shared(Writer(c)) \/ Scanner(c)

\* The goroutines of the server run, but for a write to a browser that is there; browser,
\* container and network do as they like.
Fairness ==
  \A c \in Conns :
    /\ WF_vars(Handler(c))
    /\ WF_vars(Shared(WriterFreed(c)))
    /\ WF_vars(Scanner(c))

Spec == Init /\ [][Next]_vars /\ Fairness
-----------------------------------------------------------------------------
(* Properties *)

\* After the flush a browser gets a run of the log without a gap or a repetition, whatever the
\* session's other browsers do, and one that connects before anything is recorded gets it from the
\* first line on (SPEC.md:34).  One that comes later gets the log in the flush and, as runLogsWS
\* asks for the whole of it, once more after it.
LogWithoutGaps ==
  \A c \in Conns :
    /\ snapshot[c] = <<>> /\ got[c] # <<>> => got[c][1] = 1
    /\ \A i \in Len(snapshot[c]) + 1 .. Len(got[c]) - 1 : got[c][i + 1] = got[c][i] + 1

\* When the container has stopped or the log cannot be read on, every goroutine of a browser that
\* has gone ends.
NoGoroutineLeak ==
  \A c \in Conns :
    ((stopped \/ c \in broken) /\ client[c] = "gone") ~>
      (handler[c] = "returned" /\ scanner[c] \in {"idle", "stopped"})

=============================================================================
