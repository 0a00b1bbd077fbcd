-------------------------- MODULE SessionRecording --------------------------
(***************************************************************************)
(* What a session of the server records, and when                          *)
(* (src/internal/api/ws.go, src/internal/api/server.go): handlers record   *)
(* and forward what is typed, the readers, one per connection, record the  *)
(* output of a shell that echoes it or the lines of a log, and GET         *)
(* /sessions/{id}/cast makes a cast of what is there.                      *)
(***************************************************************************)
EXTENDS Recording

CONSTANTS
  Conns,        \* WebSocket connections of the session
  Sizes,        \* terminal sizes
  MaxInput,     \* bound: input messages of all browsers
  MaxEvents     \* bound: nothing new comes when this many events are recorded

ASSUME SessionAssumption == MaxInput \in Nat /\ MaxEvents \in Nat

VARIABLES
  mode,         \* "exec", "logs", or "none": there is no session
  typed,        \* input messages received
  message,      \* number of the message a handler has in hand
  dispatch,     \* where its dispatchMessage is: "idle", "record" or "write"
  pending,      \* input the shell has got and not yet echoed
  chunk,        \* output that each reader has read and not yet recorded, <<>> for none
  line,         \* lines of the log each connection has read
  epoch         \* stamp of the first stamped line of each

sessionVars == <<mode, typed, message, dispatch, pending, chunk, line, epoch>>

SessionInit ==
  /\ mode \in {"none", "exec", "logs"}
  /\ typed = 0
  /\ message = [c \in Conns |-> 0]
  /\ dispatch = [c \in Conns |-> "idle"]
  /\ pending = <<>>
  /\ chunk = [c \in Conns |-> <<>>]
  /\ line = [c \in Conns |-> 0]
  /\ epoch = [c \in Conns |-> NoStamp]

DispatchStep(c, from, to) == dispatch[c] = from /\ dispatch' = [dispatch EXCEPT ![c] = to]

\* dispatchMessage, "input": the message comes ...
Receive(c) ==
  /\ typed < MaxInput /\ Len(events) < MaxEvents
  /\ DispatchStep(c, "idle", "record")
  /\ typed' = typed + 1
  /\ message' = [message EXCEPT ![c] = typed + 1]
  /\ UNCHANGED <<now, events, log, file, mode, pending, chunk, line, epoch>>

\* ... is recorded ...
RecordInput(c) ==
  /\ DispatchStep(c, "record", "write")
  /\ Add("i", <<c, message[c]>>)
  /\ UNCHANGED <<now, log, file, mode, typed, message, pending, chunk, line, epoch>>

\* ... and written to the stream, if the session has one.
WriteInput(c) ==
  /\ DispatchStep(c, "write", "idle")
  /\ pending' = IF mode = "exec" THEN Append(pending, <<c, message[c]>>) ELSE pending
  /\ UNCHANGED <<now, events, log, file, mode, typed, message, chunk, line, epoch>>

\* Mutant: the message is written first and recorded afterwards.
DispatchInputLate(c) ==
  \/ /\ DispatchStep(c, "record", "write")
     /\ pending' = IF mode = "exec" THEN Append(pending, <<c, message[c]>>) ELSE pending
     /\ UNCHANGED <<now, events, log, file, mode, typed, message, chunk, line, epoch>>
  \/ /\ DispatchStep(c, "write", "idle")
     /\ Add("i", <<c, message[c]>>)
     /\ UNCHANGED <<now, log, file, mode, typed, message, pending, chunk, line, epoch>>

DispatchInput(c) == RecordInput(c) \/ WriteInput(c)

\* dispatchMessage, "resize".
DispatchResize(c, size) ==
  /\ dispatch[c] = "idle" /\ Len(events) < MaxEvents
  /\ Add("r", size)
  /\ UNCHANGED <<now, log, file, sessionVars>>

\* The shell echoes, and the reader of a connection, anyone's, takes the echo from the stream ...
ReadEcho(c) ==
  /\ pending # <<>> /\ chunk[c] = <<>>
  /\ chunk' = [chunk EXCEPT ![c] = Head(pending)]
  /\ pending' = Tail(pending)
  /\ UNCHANGED <<now, events, log, file, mode, typed, message, dispatch, line, epoch>>

\* ... and records it.
RecordOutput(c) ==
  /\ chunk[c] # <<>>
  /\ Add("o", chunk[c])
  /\ chunk' = [chunk EXCEPT ![c] = <<>>]
  /\ UNCHANGED <<now, log, file, mode, typed, message, dispatch, pending, line, epoch>>

\* runLogsWS: the next line, timed against the epoch of this connection.
RecordLine(c) ==
  LET l == log[line[c] + 1] IN
  /\ mode = "logs" /\ line[c] < Len(log) /\ Len(events) < MaxEvents
  /\ Scannable(l)
  /\ line' = [line EXCEPT ![c] = @ + 1]
  /\ epoch' = [epoch EXCEPT ![c] = EpochAfter(@, l)]
  /\ AddLine(<<c, line[c] + 1>>, epoch[c], l)
  /\ UNCHANGED <<now, log, file, mode, typed, message, dispatch, pending, chunk>>

\* handleCast; the browser saves what it gets.
HandleCast ==
  /\ file' = <<CastOf(Size(events), events)>>
  /\ UNCHANGED <<now, events, log, sessionVars>>

\* The server goes away: nothing of a session outlives it but the file.
ServerStops ==
  /\ mode # "none" /\ file # <<>>
  /\ mode' = "none"
  /\ now' = 0 /\ events' = <<>> /\ log' = <<>>
  /\ typed' = 0 /\ pending' = <<>>
  /\ chunk' = [c \in Conns |-> <<>>]
  /\ message' = [c \in Conns |-> 0]
  /\ dispatch' = [c \in Conns |-> "idle"]
  /\ line' = [c \in Conns |-> 0]
  /\ epoch' = [c \in Conns |-> NoStamp]
  /\ UNCHANGED file

SessionNext ==
  \/ HandleCast
  \/ \E c \in Conns :
       \/ Receive(c) \/ DispatchInput(c) \/ \E s \in Sizes : DispatchResize(c, s)
       \/ ReadEcho(c) \/ RecordOutput(c) \/ RecordLine(c)
-----------------------------------------------------------------------------
(* Properties *)

SessionTypeOK ==
  /\ mode \in {"none", "exec", "logs"}
  /\ typed \in 0 .. MaxInput
  /\ message \in [Conns -> 0 .. typed]
  /\ dispatch \in [Conns -> {"idle", "record", "write"}]
  /\ pending \in Seq(Conns \X (1 .. typed))
  /\ chunk \in [Conns -> (Conns \X (1 .. typed)) \cup {<<>>}]
  /\ line \in [Conns -> 0 .. Len(log)]
  /\ epoch \in [Conns -> 0 .. MaxStamp]

Earlier(seq) == {p \in (1 .. Len(seq)) \X (1 .. Len(seq)) : p[1] < p[2]}

\* The answer to what was typed is recorded after it, whoever typed it and however the readers
\* and the handlers run (ws.go:302: dispatchMessage records before it writes).
EchoAfterInput ==
  mode = "exec" =>
    \A j \in 1 .. Len(events) : events[j].type = "o" =>
      \E i \in 1 .. j - 1 : events[i].type = "i" /\ events[i].data = events[j].data

\* A download is never contradicted by a later one: whatever has been recorded since, a cast
\* made now begins with the rows of the file, times included, though all of them are computed
\* anew, and has its size, unless that was the default.
CastsGrow ==
  mode # "none" /\ file # <<>> =>
    /\ IsPrefix(file[1].rows, Marshal(events))
    /\ file[1].size \in {DefaultSize, Size(events)}

\* Between two stamped lines that one connection has read lies the time their stamps say,
\* whatever other connections and other clocks record in between.
LogGapsKept ==
  mode = "logs" =>
    \A p \in Earlier(events) :
      LET a == events[p[1]]  b == events[p[2]] IN
      a.type = "o" /\ b.type = "o" /\ a.data[1] = b.data[1] =>
        LET s == log[a.data[2]].stamp  t == log[b.data[2]].stamp IN
        s # NoStamp /\ t # NoStamp => b.at - a.at = t - s
=============================================================================
