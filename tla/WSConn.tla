------------------------------- MODULE WSConn -------------------------------
(***************************************************************************)
(* What the three run*WS functions of src/internal/api/ws.go share: a      *)
(* WebSocket connection, the flush of the recording, the handler's read    *)
(* loop, and the write goroutine that drains writeCh and closes `done'     *)
(* when it stops.  The goroutine that fills writeCh differs per mode and   *)
(* belongs to the modules that extend this one.                            *)
(*                                                                         *)
(* Output is a sequence of chunks numbered from 1; 0 is the ExitMessage.   *)
(***************************************************************************)
EXTENDS Integers, Sequences, FiniteSets

CONSTANTS
  Conns,        \* WebSocket connections to one session
  ChCap,        \* capacity of writeCh (64 in the code)
  MaxOutput     \* bound: chunks the container prints

ASSUME ChCapAssumption == ChCap \in Nat \ {0}
ASSUME MaxOutputAssumption == MaxOutput \in Nat

Chunks == 1 .. MaxOutput
Exit == 0
Messages == Chunks \cup {Exit}

VARIABLES
  rec,          \* the output events of Session.Recorder
  client,       \* the browser: "absent", "up" or "gone"
  handler,      \* handleWebSocket: "idle", "flush", "start", "subscribed", "reading", ...
  snapshot,     \* what Recorder.All() gave flushEvents
  deadline,     \* the connection's write deadline: "none", "set" or "passed" (writes fail)
  writer,       \* the write goroutine: "idle", "running" or "stopped" (done is closed)
  writeCh,      \* its queue
  closed,       \* connections whose writeCh has been closed
  got           \* what the browser has received

wsVars == <<rec, client, handler, snapshot, deadline, writer, writeCh, closed, got>>

WSInit ==
  /\ rec = <<>>
  /\ client = [c \in Conns |-> "absent"]
  /\ handler = [c \in Conns |-> "idle"]
  /\ snapshot = [c \in Conns |-> <<>>]
  /\ deadline = [c \in Conns |-> "none"]
  /\ writer = [c \in Conns |-> "idle"]
  /\ writeCh = [c \in Conns |-> <<>>]
  /\ closed = {}
  /\ got = [c \in Conns |-> <<>>]

HandlerStep(c, from, to) == handler[c] = from /\ handler' = [handler EXCEPT ![c] = to]

-----------------------------------------------------------------------------
(* The browser and the clock *)

\* The upgrade succeeds and flushEvents takes its copy of the recording.
Dial(c) ==
  /\ client[c] = "absent"
  /\ client' = [client EXCEPT ![c] = "up"]
  /\ HandlerStep(c, "idle", "flush")
  /\ snapshot' = [snapshot EXCEPT ![c] = rec]
  /\ UNCHANGED <<rec, deadline, writer, writeCh, closed, got>>

\* The tab is closed or the network drops.
Leave(c) ==
  /\ client[c] = "up"
  /\ client' = [client EXCEPT ![c] = "gone"]
  /\ UNCHANGED <<rec, handler, snapshot, deadline, writer, writeCh, closed, got>>

\* Ten seconds after the last writeWS; nothing ever moves the deadline again.
DeadlinePasses(c) ==
  /\ deadline[c] = "set"
  /\ deadline' = [deadline EXCEPT ![c] = "passed"]
  /\ UNCHANGED <<rec, client, handler, snapshot, writer, writeCh, closed, got>>

-----------------------------------------------------------------------------
(* The handler *)

\* flushEvents: every writeWS sets the deadline, so it is set when there was anything to send.
\* What a browser that has left would have got does not matter.
FlushAll(c) ==
  /\ HandlerStep(c, "flush", "start")
  /\ got' = [got EXCEPT ![c] = snapshot[c]]
  /\ deadline' = [deadline EXCEPT ![c] = IF snapshot[c] = <<>> THEN "none" ELSE "set"]
  /\ UNCHANGED <<rec, client, snapshot, writer, writeCh, closed>>

\* A write of the flush fails or takes longer than ten seconds: flushEvents gives up, the mode's
\* own loop starts all the same, and every later write on the connection fails at once.
FlushFails(c) ==
  /\ HandlerStep(c, "flush", "start")
  /\ \E n \in 1 .. Len(snapshot[c]) : got' = [got EXCEPT ![c] = SubSeq(snapshot[c], 1, n - 1)]
  /\ deadline' = [deadline EXCEPT ![c] = "passed"]
  /\ UNCHANGED <<rec, client, snapshot, writer, writeCh, closed>>

FlushEvents(c) == FlushAll(c) \/ FlushFails(c)

\* conn.ReadMessage fails and the read loop is left.
ReadFails(c) ==
  /\ client[c] = "gone"
  /\ HandlerStep(c, "reading", "waiting")
  /\ UNCHANGED <<rec, client, snapshot, deadline, writer, writeCh, closed, got>>

\* <-done
Done(c) == writer[c] = "stopped"

-----------------------------------------------------------------------------
(* The write goroutine *)

Running(c) == writer[c] = "running" /\ writeCh[c] # <<>>

\* conn.WriteMessage succeeds and the browser gets the message.
Deliver(c) ==
  /\ Running(c) /\ client[c] = "up" /\ deadline[c] # "passed"
  /\ got' = [got EXCEPT ![c] = Append(@, Head(writeCh[c]))]
  /\ writeCh' = [writeCh EXCEPT ![c] = Tail(@)]
  /\ UNCHANGED <<rec, client, handler, snapshot, deadline, writer, closed>>

\* The browser has left but the kernel still takes the message.
Vanish(c) ==
  /\ Running(c) /\ client[c] = "gone" /\ deadline[c] # "passed"
  /\ writeCh' = [writeCh EXCEPT ![c] = Tail(@)]
  /\ UNCHANGED <<rec, client, handler, snapshot, deadline, writer, closed, got>>

\* conn.WriteMessage fails: the goroutine returns and closes done.
WriteFails(c) ==
  /\ Running(c) /\ (client[c] = "gone" \/ deadline[c] = "passed")
  /\ writeCh' = [writeCh EXCEPT ![c] = Tail(@)]
  /\ writer' = [writer EXCEPT ![c] = "stopped"]
  /\ UNCHANGED <<rec, client, handler, snapshot, deadline, closed, got>>

\* writeCh is closed and drained: the goroutine returns and closes done.
WriterEnds(c) ==
  /\ writer[c] = "running" /\ writeCh[c] = <<>> /\ c \in closed
  /\ writer' = [writer EXCEPT ![c] = "stopped"]
  /\ UNCHANGED <<rec, client, handler, snapshot, deadline, writeCh, closed, got>>

Writer(c) == Deliver(c) \/ Vanish(c) \/ WriteFails(c) \/ WriterEnds(c)

\* What the goroutine does in the end whatever its browser does: a WriteMessage to a browser that
\* is there and does not read may block for ever, one to a browser that has gone may not.
WriterFreed(c) == Vanish(c) \/ WriteFails(c) \/ WriterEnds(c)

\* Mutant: the channel takes one message more than its capacity.
OfferOver(c, m) ==
  /\ Len(writeCh[c]) <= ChCap
  /\ writeCh' = [writeCh EXCEPT ![c] = Append(@, m)]

\* The send half of `select { case writeCh <- m: case <-done: }'.
Offer(c, m) ==
  /\ Len(writeCh[c]) < ChCap
  /\ writeCh' = [writeCh EXCEPT ![c] = Append(@, m)]

WSTypeOK ==
  /\ rec \in Seq(Chunks)
  /\ client \in [Conns -> {"absent", "up", "gone"}]
  /\ handler \in [Conns -> {"idle", "flush", "start", "subscribed", "reading", "waiting",
                         "returned"}]
  /\ snapshot \in [Conns -> Seq(Chunks)]
  /\ deadline \in [Conns -> {"none", "set", "passed"}]
  /\ writer \in [Conns -> {"idle", "running", "stopped"}]
  /\ writeCh \in [Conns -> Seq(Messages)]
  /\ \A c \in Conns : Len(writeCh[c]) <= ChCap
  /\ closed \subseteq Conns
  /\ got \in [Conns -> Seq(Messages)]
=============================================================================
