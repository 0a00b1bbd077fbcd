-------------------------- MODULE LogsSessionProofs --------------------------
(***************************************************************************)
(* Theorems about LogsSession, for any number of browsers, queues of any   *)
(* capacity and a log of any length.                                       *)
(***************************************************************************)
EXTENDS LogsSession, WSConnProofs

\* The log reader has a line in hand for the browser.
InHand(c) == scanner[c] \in {"record", "send"}

LogTypes ==
  /\ printed \in 0 .. MaxOutput
  /\ scanner \in [Conns -> {"idle", "scan", "record", "send", "stopped"}]
  /\ line \in [Conns -> 0 .. printed]
  /\ \A c \in Conns : InHand(c) => line[c] \in 1 .. printed

\* The log is not read before the handler has asked for it.
Unread(c) ==
  handler[c] \in {"idle", "flush", "start", "subscribed"} => scanner[c] = "idle" /\ line[c] = 0

\* The connection can still bring something to its browser.
Healthy(c) ==
  /\ handler[c] \notin {"idle", "flush"}
  /\ client[c] = "up" /\ deadline[c] # "passed" /\ writer[c] # "stopped"

\* What follows the snapshot: the log from its first line, received, queued and in hand, without
\* a gap as long as the connection is good for anything.
Lines(c) == Len(got[c]) - Len(snapshot[c])
LiveLines(c) ==
  \A i \in Len(snapshot[c]) + 1 .. Len(got[c]) : got[c][i] = i - Len(snapshot[c])
QueuedLines(c) ==
  Healthy(c) =>
    /\ \A i \in 1 .. Len(writeCh[c]) : writeCh[c][i] = Lines(c) + i
    /\ line[c] = Lines(c) + Len(writeCh[c]) + IF InHand(c) THEN 1 ELSE 0

InLine(c) == Unread(c) /\ LiveLines(c) /\ QueuedLines(c)

IInv == Connections /\ LogTypes /\ \A c \in Conns : InLine(c)

-----------------------------------------------------------------------------
\* What one connection's reader is at.
SameScanner(c) == scanner'[c] = scanner[c] /\ line'[c] = line[c]

LEMMA InitIInv == Init => IInv
<1> SUFFICES ASSUME Init PROVE IInv
  OBVIOUS
<1>1. Connections
  BY ConnectionsStart DEF Init
<1>2. LogTypes
  BY MaxOutputAssumption DEF Init, LogTypes, InHand
<1>3. ASSUME NEW c \in Conns PROVE InLine(c)
  BY <1>3 DEF Init, WSInit, InLine, Unread, LiveLines, QueuedLines, Healthy
<1> QED BY <1>1, <1>2, <1>3 DEF IInv

LEMMA LineFrame ==
  ASSUME NEW c \in Conns, InLine(c), SameWS(c), SameScanner(c)
  PROVE  InLine(c)'
BY DEF InLine, Unread, LiveLines, QueuedLines, Healthy, Lines, InHand, SameWS, SameScanner

\* It is enough to look at the connection that a step is about.
LEMMA OneConnection ==
  ASSUME IInv, Connections', LogTypes', NEW c \in Conns, InLine(c)',
         \A d \in Conns \ {c} : SameWS(d) /\ SameScanner(d)
  PROVE  IInv'
BY LineFrame DEF IInv

\* The container writes to its log or stops, or the log breaks off.
LEMMA OutsideIInv ==
  ASSUME IInv, Output \/ ContainerStops \/ (\E c \in Conns : LogBreaks(c)) \/ UNCHANGED vars
  PROVE  IInv'
<1>1. UNCHANGED wsVars /\ UNCHANGED <<scanner, line>>
      /\ printed' \in 0 .. MaxOutput /\ printed <= printed'
  BY MaxOutputAssumption DEF Output, ContainerStops, LogBreaks, vars, logVars, IInv, LogTypes
<1>2. Connections'
  BY <1>1, ConnectionFrame DEF IInv, Connections, WSTypeOK, SameWS, wsVars
<1>3. LogTypes'
  <2>1. \A n \in 0 .. printed : n \in 0 .. printed'
    BY <1>1 DEF IInv, LogTypes
  <2>2. \A n \in 1 .. printed : n \in 1 .. printed'
    BY <1>1 DEF IInv, LogTypes
  <2>3. line' \in [Conns -> 0 .. printed']
    BY <1>1, <2>1 DEF IInv, LogTypes
  <2> QED BY <1>1, <2>2, <2>3 DEF IInv, LogTypes, InHand
<1>4. ASSUME NEW c \in Conns PROVE InLine(c)'
  BY <1>1, LineFrame DEF IInv, SameWS, SameScanner, wsVars
<1> QED BY <1>2, <1>3, <1>4 DEF IInv

\* The browser, the clock, the flush, the read loop and the write goroutine.
LEMMA SharedIInv ==
  ASSUME IInv, NEW c \in Conns, WSStep(c), UNCHANGED logVars
  PROVE  IInv'
<1>1. /\ Connections /\ Connections' /\ WSTypeOK /\ Before(c) /\ FlushFirst(c)
      /\ InLine(c) /\ UNCHANGED <<printed, scanner, line>>
  BY SharedKeepsConnections DEF IInv, Connections, logVars
<1>2. LogTypes' /\ \A d \in Conns : SameScanner(d)
  BY <1>1 DEF IInv, LogTypes, InHand, SameScanner
<1>3. ASSUME InLine(c)', \A d \in Conns \ {c} : SameWS(d) PROVE IInv'
  BY <1>1, <1>2, <1>3, OneConnection
<1>4. CASE Dial(c)
  <2>1. InLine(c)'
    BY <1>1, <1>2, <1>4, DialHere
    DEF InLine, Unread, LiveLines, QueuedLines, Healthy, Before, SameScanner
  <2> QED BY <1>1, <1>3, <1>4, <2>1, DialHere
<1>5. CASE FlushEvents(c)
  <2>1. /\ handler[c] = "flush" /\ handler'[c] = "start"
        /\ snapshot'[c] = snapshot[c] /\ writer'[c] = writer[c] /\ writeCh'[c] = writeCh[c]
        /\ Len(got'[c]) <= Len(snapshot[c])
        /\ deadline'[c] = "passed" \/ got'[c] = snapshot[c]
        /\ Len(snapshot[c]) \in Nat /\ got'[c] \in Seq(Messages)
    BY <1>1, <1>5, FlushHere, ConnValues DEF Connections, WSTypeOK
  <2>2. scanner'[c] = "idle" /\ line'[c] = 0 /\ writeCh'[c] = <<>>
    BY <1>1, <1>2, <2>1 DEF InLine, Unread, Before, SameScanner
  <2>3. InLine(c)'
    BY <2>1, <2>2 DEF InLine, Unread, LiveLines, QueuedLines, Healthy, Lines, InHand
  <2> QED BY <1>1, <1>3, <1>5, <2>3, FlushHere
<1>6. CASE Leave(c) \/ DeadlinePasses(c) \/ ReadFails(c)
  <2>1. /\ snapshot'[c] = snapshot[c] /\ writer'[c] = writer[c] /\ writeCh'[c] = writeCh[c]
        /\ got'[c] = got[c]
        /\ client'[c] = client[c] \/ client'[c] = "gone"
        /\ deadline'[c] = deadline[c] \/ deadline'[c] = "passed"
        /\ handler'[c] = handler[c] \/ (handler[c] = "reading" /\ handler'[c] = "waiting")
    BY <1>1, <1>6, ClockHere
  <2>2. InLine(c)'
    BY <1>1, <1>2, <2>1
    DEF InLine, Unread, LiveLines, QueuedLines, Healthy, Lines, InHand, SameScanner
  <2> QED BY <1>1, <1>3, <1>6, <2>2, ClockHere
<1>7. CASE Writer(c)
  <2>1. /\ handler'[c] = handler[c] /\ snapshot'[c] = snapshot[c] /\ client'[c] = client[c]
        /\ deadline'[c] = deadline[c] /\ writer[c] = "running"
        /\ \/ /\ writeCh[c] # <<>> /\ writeCh'[c] = Tail(writeCh[c])
              /\ client[c] = "up" /\ deadline[c] # "passed"
              /\ got'[c] = Append(got[c], Head(writeCh[c]))
           \/ /\ ~Healthy(c)' /\ got'[c] = got[c]
    BY <1>1, <1>7, WriterHere DEF Healthy
  <2>2. handler[c] \notin {"idle", "flush", "start", "subscribed"}
    BY <1>1, <2>1 DEF Before
  <2>3. Unread(c)'
    BY <2>1, <2>2 DEF Unread
  <2>4. CASE ~Healthy(c)' /\ got'[c] = got[c]
    <3> InLine(c)'
      BY <1>1, <2>1, <2>3, <2>4 DEF InLine, LiveLines, QueuedLines
    <3> QED BY <1>1, <1>3, <1>7, WriterHere
  <2>5. CASE /\ writeCh[c] # <<>> /\ writeCh'[c] = Tail(writeCh[c])
             /\ client[c] = "up" /\ deadline[c] # "passed"
             /\ got'[c] = Append(got[c], Head(writeCh[c]))
    <3>1. Healthy(c)
      BY <2>1, <2>2, <2>5 DEF Healthy
    <3>2. /\ Len(got'[c]) = Len(got[c]) + 1 /\ got'[c][Len(got[c]) + 1] = writeCh[c][1]
          /\ \A i \in 1 .. Len(got[c]) : got'[c][i] = got[c][i]
      BY <1>1, <2>5, ConnValues, RestOfQueue, LongerByOne
    <3>3. /\ Len(writeCh[c]) >= 1 /\ Len(writeCh'[c]) = Len(writeCh[c]) - 1
          /\ \A i \in 1 .. Len(writeCh'[c]) :
               i + 1 \in 1 .. Len(writeCh[c]) /\ writeCh'[c][i] = writeCh[c][i + 1]
      BY <1>1, <2>5, ConnValues, RestOfQueue
    <3>4. /\ Len(got[c]) \in Nat /\ Len(snapshot[c]) \in Nat /\ Len(writeCh[c]) \in Nat
          /\ Len(got[c]) >= Len(snapshot[c])
      BY <1>1, <2>2, <2>5, ConnValues DEF FlushFirst
    <3>5. Lines(c)' = Lines(c) + 1 /\ Lines(c) \in Int
      BY <2>1, <3>2, <3>4 DEF Lines
    <3>6. writeCh[c][1] = Lines(c) + 1
      BY <1>1, <3>1, <3>3, <3>4 DEF InLine, QueuedLines
    <3>7. LiveLines(c)'
      <4>1. \A i \in Len(snapshot[c]) + 1 .. Len(got[c]) :
              i \in 1 .. Len(got[c]) /\ got[c][i] = i - Len(snapshot[c])
        BY <1>1, <3>4 DEF InLine, LiveLines
      <4>2. got'[c][Len(got[c]) + 1] = (Len(got[c]) + 1) - Len(snapshot[c])
        BY <3>2, <3>4, <3>6 DEF Lines
      <4>3. \A i \in Len(snapshot[c]) + 1 .. Len(got[c]) + 1 :
              i \in Len(snapshot[c]) + 1 .. Len(got[c]) \/ i = Len(got[c]) + 1
        BY <3>4
      <4>4. \A i \in Len(snapshot[c]) + 1 .. Len(got[c]) + 1 : got'[c][i] = i - Len(snapshot[c])
        <5> SUFFICES ASSUME NEW i \in Len(snapshot[c]) + 1 .. Len(got[c]) + 1
                     PROVE  got'[c][i] = i - Len(snapshot[c])
          OBVIOUS
        <5>1. CASE i \in Len(snapshot[c]) + 1 .. Len(got[c])
          BY <3>2, <4>1, <5>1
        <5>2. CASE i = Len(got[c]) + 1
          BY <3>4, <4>2, <5>2
        <5> QED BY <4>3, <5>1, <5>2
      <4> QED BY <2>1, <3>2, <4>4 DEF LiveLines
    <3>8. QueuedLines(c)'
      <4>1. \A i \in 1 .. Len(writeCh'[c]) : writeCh'[c][i] = Lines(c) + (i + 1)
        BY <1>1, <3>1, <3>3 DEF InLine, QueuedLines
      <4>2. \A i \in 1 .. Len(writeCh'[c]) : writeCh'[c][i] = Lines(c)' + i
        BY <3>3, <3>4, <3>5, <4>1
      <4>3. line'[c] = Lines(c)' + Len(writeCh'[c]) + IF InHand(c)' THEN 1 ELSE 0
        BY <1>1, <1>2, <3>1, <3>3, <3>4, <3>5 DEF InLine, QueuedLines, InHand, SameScanner
      <4> QED BY <4>2, <4>3 DEF QueuedLines
    <3>9. InLine(c)'
      BY <2>3, <3>7, <3>8 DEF InLine
    <3> QED BY <1>1, <1>3, <1>7, <3>9, WriterHere
  <2> QED BY <2>1, <2>4, <2>5
<1> QED BY <1>4, <1>5, <1>6, <1>7 DEF WSStep

-----------------------------------------------------------------------------
(* The handler and the log reader *)

\* What a step of either does to the connection's variables in WSConn.
LEMMA OwnStepConnections ==
  ASSUME Connections, WSTypeOK', NEW c \in Conns, \A d \in Conns \ {c} : SameWS(d),
         handler[c] \notin {"idle", "flush"},
         handler'[c] \notin {"idle", "flush", "start", "subscribed"},
         snapshot'[c] = snapshot[c], got'[c] = got[c], deadline'[c] = deadline[c]
  PROVE  Connections'
<1>1. Before(c)' /\ FlushFirst(c)'
  BY AfterFlush DEF Connections, Before
<1> QED BY <1>1, ConnectionFrame DEF Connections

LEMMA HandlerIInv ==
  ASSUME IInv, NEW c \in Conns, StartLogs(c) \/ LogsFail(c) \/ Return(c)
  PROVE  IInv'
<1>1. /\ UNCHANGED <<rec, client, snapshot, deadline, writeCh, closed, got, printed, line>>
      /\ handler[c] \in {"start", "waiting"} /\ handler'[c] \in {"reading", "returned"}
      /\ handler' = [handler EXCEPT ![c] = handler'[c]]
      /\ writer' = writer \/ (writer[c] = "idle" /\ writer' = [writer EXCEPT ![c] = "running"])
      /\ scanner' = scanner \/ (scanner[c] = "idle" /\ scanner' = [scanner EXCEPT ![c] = "scan"])
  BY DEF StartLogs, LogsFail, Return, HandlerStep, ScannerStep, logVars, IInv, Connections, WSTypeOK,
         Before
<1>2. WSTypeOK' /\ \A d \in Conns \ {c} : SameWS(d) /\ SameScanner(d)
  <2>1. WSTypeOK'
    <3>1. handler' \in [Conns -> {"idle", "flush", "start", "subscribed", "reading", "waiting",
                                  "returned"}]
      <4>1. PICK h \in {"reading", "returned"} : handler' = [handler EXCEPT ![c] = h]
        BY <1>1
      <4> QED BY <4>1 DEF IInv, Connections, WSTypeOK
    <3>2. writer' \in [Conns -> {"idle", "running", "stopped"}]
      BY <1>1 DEF IInv, Connections, WSTypeOK
    <3> QED BY <1>1, <3>1, <3>2 DEF IInv, Connections, WSTypeOK
  <2>2. \A d \in Conns \ {c} :
          handler'[d] = handler[d] /\ writer'[d] = writer[d] /\ scanner'[d] = scanner[d]
    BY <1>1 DEF IInv, Connections, WSTypeOK, LogTypes
  <2> QED BY <1>1, <2>1, <2>2 DEF SameWS, SameScanner
<1>3. Connections'
  BY <1>1, <1>2, OwnStepConnections DEF IInv
<1>4. LogTypes'
  BY <1>1 DEF IInv, LogTypes, InHand
<1>5. InHand(c)' <=> InHand(c)
  BY <1>1 DEF InHand, IInv, LogTypes
<1>6. Healthy(c)' => Healthy(c)
  BY <1>1 DEF Healthy
<1>7. InLine(c)'
  BY <1>1, <1>5, <1>6 DEF IInv, InLine, Unread, LiveLines, QueuedLines, Lines
<1> QED BY <1>2, <1>3, <1>4, <1>7, OneConnection

\* The log reader reads a line, records it, gives up or ends.
LEMMA ReaderIInv ==
  ASSUME IInv, NEW c \in Conns, Scan(c) \/ ScanEnds(c) \/ Record(c) \/ GiveUp(c)
  PROVE  IInv'
<1>1. /\ UNCHANGED <<client, handler, snapshot, deadline, writer, writeCh, got, printed>>
      /\ closed' \subseteq Conns
      /\ scanner[c] # "idle" /\ scanner'[c] \in {"record", "send", "stopped"}
      /\ scanner' = [scanner EXCEPT ![c] = scanner'[c]]
  BY DEF Scan, ScanEnds, Record, GiveUp, ScannerStep, wsVars, IInv, Connections, WSTypeOK, LogTypes
<1>2. handler[c] \notin {"idle", "flush", "start", "subscribed"}
  BY <1>1 DEF IInv, InLine, Unread
<1>3. /\ printed \in Nat /\ printed <= MaxOutput /\ line[c] \in 0 .. printed
      /\ InHand(c) => line[c] \in 1 .. printed
  BY MaxOutputAssumption DEF IInv, LogTypes
<1>4. rec' \in Seq(Chunks)
  <2>1. CASE Record(c)
    <3>1. line[c] \in Chunks
      BY <1>3, <2>1, MaxOutputAssumption DEF Record, ScannerStep, InHand, Chunks
    <3> QED BY <2>1, <3>1 DEF Record, IInv, Connections, WSTypeOK
  <2>2. CASE ~Record(c)
    BY <2>2 DEF Scan, ScanEnds, GiveUp, wsVars, IInv, Connections, WSTypeOK
  <2> QED BY <2>1, <2>2
<1>5. WSTypeOK' /\ \A d \in Conns : SameWS(d)
  BY <1>1, <1>4 DEF IInv, Connections, WSTypeOK, SameWS
<1>6. Connections'
  BY <1>5, ConnectionFrame DEF IInv, Connections
<1>7. \/ line' = line /\ (InHand(c)' => InHand(c)) /\ (Healthy(c)' => (InHand(c)' <=> InHand(c)))
      \/ /\ line[c] < printed /\ line' = [line EXCEPT ![c] = line[c] + 1] /\ line'[c] = line[c] + 1
         /\ ~InHand(c) /\ InHand(c)'
  <2>1. CASE Scan(c)
    BY <2>1 DEF Scan, ScannerStep, InHand, IInv, LogTypes
  <2>2. CASE ScanEnds(c) \/ Record(c)
    BY <2>2 DEF ScanEnds, Record, ScannerStep, InHand, IInv, LogTypes
  <2>3. CASE GiveUp(c)
    BY <2>3 DEF GiveUp, Done, Healthy, ScannerStep, InHand, IInv, LogTypes
  <2> QED BY <2>1, <2>2, <2>3
<1>8. LogTypes' /\ \A d \in Conns \ {c} : SameScanner(d)
  <2>1. scanner' \in [Conns -> {"idle", "scan", "record", "send", "stopped"}]
    BY <1>1 DEF IInv, LogTypes
  <2>2. \A d \in Conns \ {c} : SameScanner(d) /\ (InHand(d)' <=> InHand(d))
    BY <1>1, <1>7 DEF IInv, LogTypes, SameScanner, InHand
  <2>3. line[c] < printed => line[c] + 1 \in 0 .. printed /\ line[c] + 1 \in 1 .. printed
    BY <1>3
  <2>4. line' \in [Conns -> 0 .. printed]
    BY <1>7, <2>3 DEF IInv, LogTypes
  <2>5. \A d \in Conns : InHand(d)' => line'[d] \in 1 .. printed
    BY <1>3, <1>7, <2>2, <2>3 DEF IInv, LogTypes, SameScanner
  <2> QED BY <1>1, <2>1, <2>2, <2>4, <2>5 DEF IInv, LogTypes
<1>9. InLine(c)'
  <2>1. Unread(c)' /\ LiveLines(c)'
    BY <1>1, <1>2 DEF Unread, LiveLines, IInv, InLine
  <2>2. Healthy(c)' <=> Healthy(c)
    BY <1>1 DEF Healthy
  <2>3. Lines(c)' = Lines(c) /\ Lines(c) \in Int /\ Len(writeCh[c]) \in Nat
    BY <1>1, ConnValues DEF Lines, IInv, Connections
  <2>4. QueuedLines(c)'
    BY <1>1, <1>3, <1>7, <2>2, <2>3 DEF QueuedLines, IInv, InLine
  <2> QED BY <2>1, <2>4 DEF InLine
<1> QED BY <1>5, <1>6, <1>8, <1>9, OneConnection

\* The line goes into the queue.
LEMMA QueueIInv ==
  ASSUME IInv, NEW c \in Conns, Queue(c)
  PROVE  IInv'
<1>1. /\ UNCHANGED <<rec, client, handler, snapshot, deadline, writer, closed, got, printed, line>>
      /\ scanner[c] = "send" /\ scanner'[c] = "scan" /\ scanner' = [scanner EXCEPT ![c] = "scan"]
      /\ Len(writeCh[c]) < ChCap /\ writeCh' = [writeCh EXCEPT ![c] = Append(writeCh[c], line[c])]
  BY DEF Queue, Offer, ScannerStep, IInv, LogTypes
<1>2. /\ printed \in Nat /\ printed <= MaxOutput /\ line[c] \in 1 .. printed
      /\ WSTypeOK /\ InLine(c) /\ InHand(c) /\ ~InHand(c)'
  BY <1>1, MaxOutputAssumption DEF IInv, Connections, LogTypes, InHand
<1>3. line[c] \in Messages
  BY <1>2, MaxOutputAssumption DEF Messages, Chunks
<1>4. handler[c] \notin {"idle", "flush", "start", "subscribed"}
  BY <1>1 DEF IInv, InLine, Unread
<1>5. PICK q : q = Append(writeCh[c], line[c])
  OBVIOUS
<1>6. /\ q \in Seq(Messages) /\ Len(writeCh[c]) \in Nat /\ Len(q) = Len(writeCh[c]) + 1
      /\ q[Len(writeCh[c]) + 1] = line[c]
      /\ \A i \in 1 .. Len(writeCh[c]) : q[i] = writeCh[c][i]
      /\ \A i \in 1 .. Len(q) : i \in 1 .. Len(writeCh[c]) \/ i = Len(writeCh[c]) + 1
  BY <1>2, <1>3, <1>5, ConnValues, LongerByOne
<1>7. Len(q) <= ChCap
  BY <1>1, <1>6, ChCapAssumption
<1>8. writeCh'[c] = q /\ WSTypeOK' /\ \A d \in Conns \ {c} : SameWS(d) /\ SameScanner(d)
  BY <1>1, <1>2, <1>5, <1>6, <1>7 DEF WSTypeOK, SameWS, SameScanner, IInv, LogTypes
<1>9. Connections'
  BY <1>1, <1>4, <1>8, OwnStepConnections DEF IInv
<1>10. LogTypes'
  BY <1>1 DEF IInv, LogTypes, InHand
<1>11. InLine(c)'
  <2>1. Unread(c)' /\ LiveLines(c)'
    BY <1>1, <1>2, <1>4 DEF Unread, LiveLines, InLine
  <2>2. Healthy(c)' <=> Healthy(c)
    BY <1>1 DEF Healthy
  <2>3. Lines(c)' = Lines(c) /\ Lines(c) \in Int
    BY <1>1, <1>2, ConnValues DEF Lines
  <2>4. QueuedLines(c)'
    BY <1>1, <1>2, <1>6, <1>8, <2>2, <2>3 DEF QueuedLines, InLine
  <2> QED BY <2>1, <2>4 DEF InLine
<1> QED BY <1>8, <1>9, <1>10, <1>11, OneConnection

LEMMA NextIInv == IInv /\ [Next]_vars => IInv'
<1> SUFFICES ASSUME IInv, [Next]_vars PROVE IInv'
  OBVIOUS
<1>1. ASSUME NEW c \in Conns,
             \/ Shared(Dial(c)) \/ Shared(Leave(c)) \/ Shared(DeadlinePasses(c))
             \/ Shared(FlushEvents(c)) \/ Shared(ReadFails(c)) \/ Shared(Writer(c))
      PROVE  IInv'
  BY <1>1, SharedIInv DEF Shared, WSStep
<1>2. ASSUME NEW c \in Conns, StartLogs(c) \/ LogsFail(c) \/ Return(c) PROVE IInv'
  BY <1>2, HandlerIInv
<1>3. ASSUME NEW c \in Conns, Scanner(c) PROVE IInv'
  BY <1>3, ReaderIInv, QueueIInv DEF Scanner
<1>4. CASE Output \/ ContainerStops \/ (\E c \in Conns : LogBreaks(c)) \/ UNCHANGED vars
  BY <1>4, OutsideIInv
<1> QED BY <1>1, <1>2, <1>3, <1>4 DEF Next, Handler

\* After the flush a browser of a logs session gets the lines of the container's log in order,
\* none missing and none twice, whatever the other browsers of the session do, and from the first
\* one on if it was there before anything was recorded (ws.go:206-265).
THEOREM LogIsWhole == Spec => []LogWithoutGaps
<1>1. ASSUME IInv, NEW c \in Conns
      PROVE  /\ snapshot[c] = <<>> /\ got[c] # <<>> => got[c][1] = 1
             /\ \A i \in Len(snapshot[c]) + 1 .. Len(got[c]) - 1 : got[c][i + 1] = got[c][i] + 1
  <2>1. /\ \A i \in Len(snapshot[c]) + 1 .. Len(got[c]) : got[c][i] = i - Len(snapshot[c])
        /\ Len(snapshot[c]) \in Nat /\ Len(got[c]) \in Nat /\ got[c] \in Seq(Messages)
    BY <1>1, ConnValues DEF IInv, Connections, InLine, LiveLines, WSTypeOK
  <2>2. ASSUME snapshot[c] = <<>>, got[c] # <<>> PROVE got[c][1] = 1
    <3>1. Len(snapshot[c]) = 0 /\ Len(got[c]) >= 1
      BY <2>1, <2>2
    <3> QED BY <2>1, <3>1
  <2>3. ASSUME NEW i \in Len(snapshot[c]) + 1 .. Len(got[c]) - 1
        PROVE  got[c][i + 1] = got[c][i] + 1
    <3>1. /\ i \in Len(snapshot[c]) + 1 .. Len(got[c])
          /\ i + 1 \in Len(snapshot[c]) + 1 .. Len(got[c])
      BY <2>1
    <3>2. got[c][i] = i - Len(snapshot[c]) /\ got[c][i + 1] = (i + 1) - Len(snapshot[c])
      BY <2>1, <3>1
    <3> QED BY <2>1, <3>2
  <2> QED BY <2>2, <2>3
<1>2. IInv => LogWithoutGaps
  BY <1>1 DEF LogWithoutGaps
<1> QED BY <1>2, InitIInv, NextIInv, PTL DEF Spec

-----------------------------------------------------------------------------
(* The log readers and ContainerStream *)

\* The log as connection c has it from Runtime.Logs; it may break off, and the handler closes it
\* when it returns.
Log(c) == INSTANCE ContainerStream WITH
  Readers <- {c}, delivered <- line[c], cut <- (c \in broken \/ handler[c] = "returned"),
  source <- IF stopped THEN "exited" ELSE "running",
  calling <- IF scanner[c] = "scan" THEN {c} ELSE {}

LEMMA LogInit == ASSUME NEW c \in Conns, Init PROVE Log(c)!Init
<1>1. /\ printed = 0 /\ line[c] = 0
      /\ (IF stopped THEN "exited" ELSE "running") = "running"
      /\ (IF scanner[c] = "scan" THEN {c} ELSE {}) = {}
  BY DEF Init
<1>2. (c \in broken \/ handler[c] = "returned") = FALSE
  <2>1. ~(c \in broken \/ handler[c] = "returned")
    BY DEF Init, WSInit
  <2> QED BY <2>1, Zenon
<1> QED BY <1>1, <1>2, Zenon DEF Log!Init

\* A step of another connection's goroutines.
LEMMA OtherRefines ==
  ASSUME NEW c \in Conns, UNCHANGED <<printed, stopped, broken>>, SameWS(c), SameScanner(c)
  PROVE  UNCHANGED Log(c)!vars
BY DEF SameWS, SameScanner, Log!vars

\* What the handler does: it opens the log, or fails to, and closes it when it returns.
LEMMA HandlerRefines ==
  ASSUME IInv, NEW c \in Conns, StartLogs(c) \/ LogsFail(c) \/ Return(c)
  PROVE  [Log(c)!Next]_(Log(c)!vars)
<1>1. /\ handler \in [Conns -> {"idle", "flush", "start", "subscribed", "reading", "waiting",
                                "returned"}]
      /\ scanner \in [Conns -> {"idle", "scan", "record", "send", "stopped"}]
  BY DEF IInv, Connections, WSTypeOK, LogTypes
<1>2. CASE StartLogs(c)
  <2>1. /\ handler[c] = "start" /\ handler'[c] = "reading"
        /\ scanner[c] = "idle" /\ scanner'[c] = "scan"
        /\ UNCHANGED <<printed, stopped, line, broken>>
    BY <1>1, <1>2 DEF StartLogs, HandlerStep, ScannerStep
  <2>2. Log(c)!CallRead(c)
    BY <2>1 DEF Log!CallRead
  <2> QED BY <2>2 DEF Log!Next
<1>3. CASE LogsFail(c) \/ Return(c)
  <2>1. handler'[c] = "returned" /\ UNCHANGED logVars
    BY <1>1, <1>3 DEF LogsFail, Return, HandlerStep
  <2>2. Log(c)!Cut
    BY <2>1 DEF logVars, Log!Cut
  <2> QED BY <2>2 DEF Log!Next
<1> QED BY <1>2, <1>3

\* What the log reader does.
LEMMA ScannerRefines ==
  ASSUME IInv, NEW c \in Conns, Scanner(c)
  PROVE  [Log(c)!Next]_(Log(c)!vars)
<1>1. /\ scanner \in [Conns -> {"idle", "scan", "record", "send", "stopped"}]
      /\ line \in [Conns -> 0 .. printed]
      /\ UNCHANGED <<printed, stopped, broken, handler>>
  BY DEF IInv, LogTypes, Scanner, Scan, ScanEnds, Record, Queue, GiveUp, wsVars
<1>2. CASE Scan(c)
  <2>1. /\ line[c] < printed /\ line'[c] = line[c] + 1
        /\ scanner[c] = "scan" /\ scanner'[c] = "record"
    BY <1>1, <1>2 DEF Scan, ScannerStep
  <2>2. Log(c)!Deliver(c)
    BY <1>1, <2>1 DEF Log!Deliver
  <2> QED BY <2>2 DEF Log!Next
<1>3. CASE ScanEnds(c)
  <2>1. /\ line' = line /\ scanner[c] = "scan" /\ scanner'[c] = "stopped"
        /\ (stopped /\ line[c] = printed) \/ c \in broken \/ handler[c] = "returned"
    BY <1>1, <1>3 DEF ScanEnds, ScannerStep
  <2>2. Log(c)!Fail(c)
    BY <1>1, <2>1 DEF Log!Fail
  <2> QED BY <2>2 DEF Log!Next
<1>4. CASE Queue(c)
  <2>1. line' = line /\ scanner[c] = "send" /\ scanner'[c] = "scan"
    BY <1>1, <1>4 DEF Queue, ScannerStep
  <2>2. Log(c)!CallRead(c)
    BY <1>1, <2>1 DEF Log!CallRead
  <2> QED BY <2>2 DEF Log!Next
<1>5. CASE Record(c) \/ GiveUp(c)
  <2>1. line' = line /\ scanner[c] # "scan" /\ scanner'[c] # "scan"
    BY <1>1, <1>5 DEF Record, GiveUp, ScannerStep
  <2> QED BY <1>1, <2>1 DEF Log!vars
<1> QED BY <1>2, <1>3, <1>4, <1>5 DEF Scanner

\* The steps that the modes share do not open or close the log.
LEMMA SharedRefines ==
  ASSUME IInv, NEW c \in Conns, WSStep(c), UNCHANGED logVars
  PROVE  UNCHANGED Log(c)!vars
<1>1. WSTypeOK
  BY DEF IInv, Connections
<1>2. handler'[c] = "returned" <=> handler[c] = "returned"
  BY <1>1, DialHere, FlushHere, ClockHere, WriterHere DEF WSStep
<1> QED BY <1>2 DEF logVars, Log!vars

LEMMA ContainerRefines ==
  ASSUME NEW c \in Conns, Output \/ ContainerStops \/ \E d \in Conns : LogBreaks(d)
  PROVE  [Log(c)!Next]_(Log(c)!vars)
<1>1. Output => Log(c)!Output
  BY DEF Output, wsVars, Log!Output
<1>2. ContainerStops => Log(c)!Exit
  BY DEF ContainerStops, wsVars, Log!Exit
<1>3. ASSUME NEW d \in Conns, LogBreaks(d) PROVE Log(c)!Cut \/ UNCHANGED Log(c)!vars
  <2>1. CASE d = c
    BY <1>3, <2>1 DEF LogBreaks, wsVars, Log!Cut
  <2>2. CASE d # c
    BY <1>3, <2>2 DEF LogBreaks, wsVars, Log!vars
  <2> QED BY <2>1, <2>2
<1> QED BY <1>1, <1>2, <1>3 DEF Log!Next

LEMMA NextRefines ==
  ASSUME IInv, NEW c \in Conns, [Next]_vars
  PROVE  [Log(c)!Next]_(Log(c)!vars)
<1>1. CASE Output \/ ContainerStops \/ \E d \in Conns : LogBreaks(d)
  BY <1>1, ContainerRefines
<1>2. CASE UNCHANGED vars
  BY <1>2 DEF vars, wsVars, logVars, Log!vars
<1>3. ASSUME NEW d \in Conns, WSStep(d), UNCHANGED logVars PROVE [Log(c)!Next]_(Log(c)!vars)
  <2>1. CASE d = c
    BY <1>3, <2>1, SharedRefines
  <2>2. CASE d # c
    <3>1. SameWS(c)
      BY <1>3, <2>2, DialHere, FlushHere, ClockHere, WriterHere DEF WSStep, IInv, Connections
    <3> QED BY <1>3, <3>1, OtherRefines DEF logVars, SameScanner
  <2> QED BY <2>1, <2>2
<1>4. ASSUME NEW d \in Conns, StartLogs(d) \/ LogsFail(d) \/ Return(d) \/ Scanner(d)
      PROVE  [Log(c)!Next]_(Log(c)!vars)
  <2>1. CASE d = c
    BY <1>4, <2>1, HandlerRefines, ScannerRefines
  <2>2. CASE d # c
    <3>1. /\ handler'[c] = handler[c] /\ scanner'[c] = scanner[c] /\ line'[c] = line[c]
          /\ UNCHANGED <<printed, stopped, broken>>
      BY <1>4, <2>2
      DEF StartLogs, LogsFail, Return, HandlerStep, ScannerStep, Scanner, Scan, ScanEnds, Record,
          Queue, GiveUp, logVars, wsVars, IInv, Connections, WSTypeOK, LogTypes
    <3> QED BY <3>1 DEF Log!vars
  <2> QED BY <2>1, <2>2
<1> QED BY <1>1, <1>2, <1>3, <1>4 DEF Next, Handler, Shared, WSStep

\* Each connection of a logs session has the log to itself: whatever the others read, its own
\* reader gets it from the first line in order and without a gap, and stops only at the log's end,
\* when the connection it reads from is lost or a line is too long for it, or when its handler has
\* closed the log (ws.go:228-270).
THEOREM EachReadsTheLog ==
  ASSUME NEW c \in Conns
  PROVE  Spec => Log(c)!Init /\ [][Log(c)!Next]_(Log(c)!vars)
<1>1. Init => Log(c)!Init
  BY LogInit
<1>2. IInv /\ [Next]_vars => [Log(c)!Next]_(Log(c)!vars)
  BY NextRefines
<1> QED BY <1>1, <1>2, InitIInv, NextIInv, PTL DEF Spec

-----------------------------------------------------------------------------
(* The end of a connection *)

ScannerCan(c) ==
  \/ /\ scanner[c] = "scan"
     /\ line[c] < printed \/ stopped \/ c \in broken \/ handler[c] = "returned"
  \/ scanner[c] = "record"
  \/ scanner[c] = "send" /\ (Len(writeCh[c]) < ChCap \/ Done(c))

Over(c) ==
  handler[c] = "returned" /\ writer[c] \in {"idle", "stopped"} /\ scanner[c] \in {"idle", "stopped"}

\* The goroutines of a connection never wait for each other: when the container has stopped, or
\* the log has broken off, and the browser has gone, one of them can go on until all three have
\* ended.
SomebodyMoves ==
  \A c \in Conns :
    (stopped \/ c \in broken) /\ client[c] = "gone" =>
      Over(c) \/ HandlerCan(c) \/ WriterCan(c) \/ ScannerCan(c)

\* A bound on the steps they have left when the log has ended or broken off: four for each line
\* that is still to be read, one for each that is queued, and the rest of their own programs.
ScannerLeft(c) ==
  CASE scanner[c] = "idle" -> 2 [] scanner[c] = "scan" -> 1 [] scanner[c] = "record" -> 4
    [] scanner[c] = "send" -> 3 [] scanner[c] = "stopped" -> 0
ToRead(c) == IF c \in broken THEN 0 ELSE 4 * (printed - line[c])
Left(c) == ToRead(c) + ScannerLeft(c) + ConnLeft(c)

\* From then on each of their steps brings the end nearer, and no step of anybody else puts it off.
EndComesNearer ==
  [][\A c \in Conns : stopped \/ c \in broken =>
         /\ Left(c)' <= Left(c)
         /\ Handler(c) \/ Shared(Writer(c)) \/ Scanner(c) => Left(c)' < Left(c)]_vars

\* Who has started, and who has ended before whom.
Phases(c) ==
  /\ client[c] = "absent" <=> handler[c] = "idle"
  /\ handler[c] # "subscribed"
  /\ handler[c] \in {"idle", "flush", "start"} => scanner[c] = "idle"
  /\ handler[c] \in {"reading", "waiting"} => scanner[c] # "idle"
  /\ scanner[c] = "idle" <=> writer[c] = "idle"
  /\ scanner[c] = "stopped" <=> c \in closed
  /\ handler[c] = "returned" => writer[c] # "running"

PhaseInv == \A c \in Conns : Phases(c)

SamePhase(c) ==
  /\ client'[c] = client[c] /\ handler'[c] = handler[c] /\ writer'[c] = writer[c]
  /\ scanner'[c] = scanner[c] /\ (c \in closed' <=> c \in closed)

LEMMA OnePhase ==
  ASSUME PhaseInv, NEW c \in Conns, Phases(c)', \A d \in Conns \ {c} : SamePhase(d)
  PROVE  PhaseInv'
BY DEF PhaseInv, Phases, SamePhase

LEMMA PhaseInit == Init => PhaseInv
BY DEF Init, WSInit, PhaseInv, Phases

LEMMA PhaseShared ==
  ASSUME WSTypeOK, PhaseInv, NEW c \in Conns, WSStep(c), UNCHANGED logVars
  PROVE  PhaseInv'
<1>1. Phases(c) /\ scanner' = scanner
  BY DEF PhaseInv, logVars
<1>2. \A d \in Conns \ {c} : SamePhase(d)
  BY <1>1, DialHere, FlushHere, ClockHere, WriterHere DEF WSStep, SameWS, SamePhase
<1>3. CASE Dial(c)
  <2> Phases(c)'
    BY <1>1, <1>3, DialHere DEF Phases
  <2> QED BY <1>2, OnePhase
<1>4. CASE FlushEvents(c)
  <2>1. /\ handler[c] = "flush" /\ handler'[c] = "start" /\ client'[c] = client[c]
        /\ writer'[c] = writer[c] /\ closed' = closed
    BY <1>4, FlushHere
  <2> Phases(c)'
    BY <1>1, <2>1 DEF Phases
  <2> QED BY <1>2, OnePhase
<1>5. CASE Leave(c) \/ DeadlinePasses(c) \/ ReadFails(c)
  <2>1. client'[c] = "absent" <=> client[c] = "absent"
    BY <1>5 DEF Leave, DeadlinePasses, ReadFails, WSTypeOK
  <2>2. /\ writer'[c] = writer[c] /\ closed' = closed
        /\ handler'[c] = handler[c] \/ (handler[c] = "reading" /\ handler'[c] = "waiting")
    BY <1>5, ClockHere
  <2> Phases(c)'
    BY <1>1, <2>1, <2>2 DEF Phases
  <2> QED BY <1>2, OnePhase
<1>6. CASE Writer(c)
  <2>1. /\ client'[c] = client[c] /\ handler'[c] = handler[c] /\ closed' = closed
        /\ writer[c] = "running" /\ writer'[c] \in {"running", "stopped"}
    BY <1>6, WriterHere
  <2> Phases(c)'
    BY <1>1, <2>1 DEF Phases
  <2> QED BY <1>2, OnePhase
<1> QED BY <1>3, <1>4, <1>5, <1>6 DEF WSStep

LEMMA PhaseOwn ==
  ASSUME WSTypeOK, LogTypes, PhaseInv, NEW c \in Conns,
         StartLogs(c) \/ LogsFail(c) \/ Return(c) \/ Scanner(c)
  PROVE  PhaseInv'
<1>1. Phases(c) /\ client' = client
  BY DEF PhaseInv, StartLogs, LogsFail, Return, Scanner, Scan, ScanEnds, Record, Queue, GiveUp, wsVars
<1>2. \A d \in Conns \ {c} : SamePhase(d)
  BY DEF StartLogs, LogsFail, Return, Scanner, Scan, ScanEnds, Record, Queue, GiveUp, wsVars, logVars,
         ScannerStep, HandlerStep, SamePhase, LogTypes, WSTypeOK
<1>3. CASE StartLogs(c)
  <2> Phases(c)'
    BY <1>1, <1>3 DEF StartLogs, HandlerStep, ScannerStep, Phases, LogTypes, WSTypeOK
  <2> QED BY <1>2, OnePhase
<1>4. CASE LogsFail(c) \/ Return(c)
  <2>1. /\ UNCHANGED <<writer, closed, scanner>> /\ handler'[c] = "returned"
        /\ handler[c] = "start" \/ (handler[c] = "waiting" /\ writer[c] = "stopped")
    BY <1>4 DEF LogsFail, Return, HandlerStep, Done, logVars, WSTypeOK
  <2> Phases(c)'
    BY <1>1, <2>1 DEF Phases
  <2> QED BY <1>2, OnePhase
<1>5. CASE Scan(c) \/ Record(c) \/ Queue(c)
  <2>1. /\ UNCHANGED <<handler, writer, closed>>
        /\ scanner[c] \notin {"idle", "stopped"} /\ scanner'[c] \notin {"idle", "stopped"}
    BY <1>5 DEF Scan, Record, Queue, ScannerStep, wsVars, LogTypes
  <2> Phases(c)'
    BY <1>1, <2>1 DEF Phases
  <2> QED BY <1>2, OnePhase
<1>6. CASE ScanEnds(c) \/ GiveUp(c)
  <2>1. /\ UNCHANGED <<handler, writer>> /\ closed' = closed \cup {c}
        /\ scanner[c] \in {"scan", "send"} /\ scanner'[c] = "stopped"
    BY <1>6 DEF ScanEnds, GiveUp, ScannerStep, LogTypes
  <2> Phases(c)'
    BY <1>1, <2>1 DEF Phases
  <2> QED BY <1>2, OnePhase
<1> QED BY <1>3, <1>4, <1>5, <1>6 DEF Scanner

LEMMA PhaseAlways == Spec => []PhaseInv
<1>1. IInv /\ PhaseInv /\ [Next]_vars => PhaseInv'
  <2> SUFFICES ASSUME IInv, PhaseInv, [Next]_vars PROVE PhaseInv'
    OBVIOUS
  <2>0. WSTypeOK /\ LogTypes
    BY DEF IInv, Connections
  <2>1. CASE Output \/ ContainerStops \/ (\E c \in Conns : LogBreaks(c)) \/ UNCHANGED vars
    BY <2>1 DEF Output, ContainerStops, LogBreaks, vars, wsVars, logVars, PhaseInv, Phases
  <2>2. ASSUME NEW c \in Conns,
               \/ Shared(Dial(c)) \/ Shared(Leave(c)) \/ Shared(DeadlinePasses(c))
               \/ Shared(FlushEvents(c)) \/ Shared(ReadFails(c)) \/ Shared(Writer(c))
        PROVE  PhaseInv'
    BY <2>0, <2>2, PhaseShared DEF Shared, WSStep
  <2>3. ASSUME NEW c \in Conns, StartLogs(c) \/ LogsFail(c) \/ Return(c) \/ Scanner(c)
        PROVE  PhaseInv'
    BY <2>0, <2>3, PhaseOwn
  <2> QED BY <2>1, <2>2, <2>3 DEF Next, Handler
<1> QED BY <1>1, PhaseInit, InitIInv, NextIInv, PTL DEF Spec

\* No goroutine of a logs connection waits for another of them for ever (ws.go:205-282).
THEOREM NoCircularWait == Spec => []SomebodyMoves
<1>1. IInv /\ PhaseInv => SomebodyMoves
  <2> SUFFICES ASSUME IInv, PhaseInv, NEW c \in Conns,
                      stopped \/ c \in broken, client[c] = "gone",
                      ~HandlerCan(c), ~WriterCan(c), ~ScannerCan(c)
               PROVE  Over(c)
    BY DEF SomebodyMoves
  <2>0. WSTypeOK /\ LogTypes /\ Phases(c)
    BY DEF IInv, Connections, PhaseInv
  <2>1. handler[c] \in {"waiting", "returned"}
    BY <2>0 DEF Phases, HandlerCan, WSTypeOK
  <2>2. scanner[c] \in {"idle", "send", "stopped"}
    BY <2>0 DEF ScannerCan, LogTypes
  <2>3. writer[c] # "running"
    <3>1. SUFFICES ASSUME writer[c] = "running" PROVE FALSE
      OBVIOUS
    <3>2. writeCh[c] = <<>> /\ c \notin closed
      BY <3>1 DEF WriterCan
    <3>3. scanner[c] = "send"
      BY <2>0, <2>2, <3>1, <3>2 DEF Phases
    <3>4. Len(writeCh[c]) < ChCap
      BY <3>2, ChCapAssumption
    <3> QED BY <3>3, <3>4 DEF ScannerCan
  <2>4. handler[c] = "returned"
    BY <2>0, <2>1, <2>3 DEF Phases, HandlerCan, Done, WSTypeOK
  <2>5. scanner[c] # "send"
    BY <2>0, <2>3 DEF Phases, ScannerCan, Done, WSTypeOK
  <2> QED BY <2>0, <2>2, <2>3, <2>4, <2>5 DEF Over, WSTypeOK
<1> QED BY <1>1, InitIInv, NextIInv, PhaseAlways, PTL DEF Spec

\* The numbers that are counted.
LEMMA LeftValues ==
  ASSUME WSTypeOK, LogTypes, NEW c \in Conns
  PROVE  /\ ToRead(c) \in Int
         /\ ScannerLeft(c) \in Nat /\ ConnLeft(c) \in Nat /\ Left(c) \in Int
         /\ HandlerLeft(c) \in Nat /\ WriterLeft(c) \in Nat /\ Len(writeCh[c]) \in Nat
<1>1. ScannerLeft(c) \in Nat
  BY DEF ScannerLeft, LogTypes
<1>2. ToRead(c) \in Int
  BY MaxOutputAssumption DEF ToRead, LogTypes
<1>3. ConnLeft(c) \in Nat
  BY ConnLeftNat
<1>4. Left(c) \in Int
  BY <1>1, <1>2, <1>3 DEF Left
<1> QED BY <1>1, <1>2, <1>3, <1>4, ConnLeftNat, ConnValues

LEMMA LeftNext ==
  ASSUME WSTypeOK', LogTypes', NEW c \in Conns
  PROVE  Left(c)' \in Int
<1>1. ScannerLeft(c)' \in Int
  BY DEF ScannerLeft, LogTypes
<1>2. ConnLeft(c)' \in Int
  BY ConnLeftNatNext
<1>3. ToRead(c)' \in Int
  BY MaxOutputAssumption DEF ToRead, LogTypes
<1> QED BY <1>1, <1>2, <1>3 DEF Left

\* A step of the handler or of the log reader is one step less.
LEMMA OwnStepCounts ==
  ASSUME WSTypeOK, LogTypes, NEW c \in Conns,
         StartLogs(c) \/ LogsFail(c) \/ Return(c) \/ Scanner(c)
  PROVE  Left(c)' < Left(c)
<1>0. /\ ToRead(c) \in Int
      /\ ScannerLeft(c) \in Nat /\ ConnLeft(c) \in Nat /\ Left(c) \in Int
      /\ HandlerLeft(c) \in Nat /\ WriterLeft(c) \in Nat /\ Len(writeCh[c]) \in Nat
  BY LeftValues
<1>1. line' = line => ToRead(c)' = ToRead(c)
  BY DEF ToRead, StartLogs, LogsFail, Return, Scanner, Scan, ScanEnds, Record, Queue, GiveUp, logVars
<1>2. CASE StartLogs(c)
  <2>1. /\ handler[c] = "start" /\ handler'[c] = "reading" /\ writer'[c] = "running"
        /\ scanner[c] = "idle" /\ scanner'[c] = "scan" /\ writeCh' = writeCh /\ line' = line
    BY <1>2 DEF StartLogs, HandlerStep, ScannerStep, LogTypes, WSTypeOK
  <2>2. HandlerLeft(c) = 4 /\ HandlerLeft(c)' = 2 /\ ScannerLeft(c) = 2 /\ ScannerLeft(c)' = 1
    BY <2>1 DEF HandlerLeft, ScannerLeft
  <2>3. WriterLeft(c)' = 1
    BY <2>1 DEF WriterLeft
  <2>4. ConnLeft(c)' = ConnLeft(c) - (1 + WriterLeft(c))
    <3>1. ConnLeft(c)' = 2 + 1 + Len(writeCh[c])
      BY <2>1, <2>2, <2>3 DEF ConnLeft
    <3>2. WriterLeft(c) \in Int /\ Len(writeCh[c]) \in Int
      BY <1>0
    <3> QED BY <2>2, <3>1, <3>2 DEF ConnLeft
  <2>5. ToRead(c)' = ToRead(c)
    BY <1>1, <2>1
  <2> QED BY <1>0, <2>2, <2>4, <2>5 DEF Left
<1>3. CASE LogsFail(c) \/ Return(c)
  <2>1. /\ handler[c] \in {"start", "waiting"} /\ handler'[c] = "returned" /\ writer' = writer
        /\ scanner' = scanner /\ writeCh' = writeCh /\ line' = line
    BY <1>3 DEF LogsFail, Return, HandlerStep, logVars, LogTypes, WSTypeOK
  <2>2. HandlerLeft(c)' = 0 /\ (HandlerLeft(c) = 4 \/ HandlerLeft(c) = 1)
    BY <2>1 DEF HandlerLeft
  <2>3. ScannerLeft(c)' = ScannerLeft(c) /\ WriterLeft(c)' = WriterLeft(c)
    BY <2>1 DEF ScannerLeft, WriterLeft
  <2>4. ConnLeft(c)' = ConnLeft(c) - HandlerLeft(c)
    <3>1. ConnLeft(c)' = 0 + WriterLeft(c) + Len(writeCh[c])
      BY <2>1, <2>2, <2>3 DEF ConnLeft
    <3>2. HandlerLeft(c) \in Int /\ WriterLeft(c) \in Int /\ Len(writeCh[c]) \in Int
      BY <1>0
    <3> QED BY <3>1, <3>2 DEF ConnLeft
  <2>5. ToRead(c)' = ToRead(c)
    BY <1>1, <2>1
  <2> QED BY <1>0, <2>2, <2>3, <2>4, <2>5 DEF Left
<1>4. CASE Scanner(c)
  <2>1. HandlerLeft(c)' = HandlerLeft(c) /\ WriterLeft(c)' = WriterLeft(c)
    BY <1>4 DEF HandlerLeft, WriterLeft, Scanner, Scan, ScanEnds, Record, Queue, GiveUp, wsVars
  <2>2. CASE Scan(c)
    <3>1. /\ scanner[c] = "scan" /\ scanner'[c] = "record" /\ line'[c] = line[c] + 1
          /\ writeCh' = writeCh
      BY <2>2 DEF Scan, ScannerStep, wsVars, LogTypes
    <3>2. ScannerLeft(c) = 1 /\ ScannerLeft(c)' = 4
      BY <3>1 DEF ScannerLeft
    <3>3. ToRead(c)' = ToRead(c) - 4
      <4>1. /\ printed' = printed /\ printed \in Int /\ line[c] \in Int
            /\ broken' = broken /\ c \notin broken
        BY <2>2, MaxOutputAssumption DEF Scan, LogTypes
      <4> QED BY <3>1, <4>1 DEF ToRead
    <3>4. ConnLeft(c)' = ConnLeft(c)
      BY <2>1, <3>1 DEF ConnLeft
    <3> QED BY <1>0, <3>2, <3>3, <3>4 DEF Left
  <2>3. CASE ScanEnds(c)
    <3>1. scanner[c] = "scan" /\ scanner'[c] = "stopped" /\ line' = line /\ writeCh' = writeCh
      BY <2>3 DEF ScanEnds, ScannerStep, LogTypes
    <3>2. ScannerLeft(c) = 1 /\ ScannerLeft(c)' = 0
      BY <3>1 DEF ScannerLeft
    <3>3. ToRead(c)' = ToRead(c) /\ ConnLeft(c)' = ConnLeft(c)
      BY <1>1, <2>1, <3>1 DEF ConnLeft
    <3> QED BY <1>0, <3>2, <3>3 DEF Left
  <2>4. CASE Record(c)
    <3>1. scanner[c] = "record" /\ scanner'[c] = "send" /\ line' = line /\ writeCh' = writeCh
      BY <2>4 DEF Record, ScannerStep, LogTypes
    <3>2. ScannerLeft(c) = 4 /\ ScannerLeft(c)' = 3
      BY <3>1 DEF ScannerLeft
    <3>3. ToRead(c)' = ToRead(c) /\ ConnLeft(c)' = ConnLeft(c)
      BY <1>1, <2>1, <3>1 DEF ConnLeft
    <3> QED BY <1>0, <3>2, <3>3 DEF Left
  <2>5. CASE Queue(c)
    <3>1. /\ scanner[c] = "send" /\ scanner'[c] = "scan" /\ line' = line
          /\ writeCh'[c] = Append(writeCh[c], line[c])
      BY <2>5 DEF Queue, Offer, ScannerStep, LogTypes, WSTypeOK
    <3>2. ScannerLeft(c) = 3 /\ ScannerLeft(c)' = 1
      BY <3>1 DEF ScannerLeft
    <3>3. Len(writeCh'[c]) = Len(writeCh[c]) + 1
      BY <3>1, ConnValues, QueueGrows
    <3>4. ToRead(c)' = ToRead(c) /\ ConnLeft(c)' = ConnLeft(c) + 1
      BY <1>0, <1>1, <2>1, <3>1, <3>3 DEF ConnLeft
    <3> QED BY <1>0, <3>2, <3>4 DEF Left
  <2>6. CASE GiveUp(c)
    <3>1. scanner[c] = "send" /\ scanner'[c] = "stopped" /\ line' = line /\ writeCh' = writeCh
      BY <2>6 DEF GiveUp, ScannerStep, LogTypes
    <3>2. ScannerLeft(c) = 3 /\ ScannerLeft(c)' = 0
      BY <3>1 DEF ScannerLeft
    <3>3. ToRead(c)' = ToRead(c) /\ ConnLeft(c)' = ConnLeft(c)
      BY <1>1, <2>1, <3>1 DEF ConnLeft
    <3> QED BY <1>0, <3>2, <3>3 DEF Left
  <2> QED BY <1>4, <2>2, <2>3, <2>4, <2>5, <2>6 DEF Scanner
<1> QED BY <1>2, <1>3, <1>4

\* The shared steps fill no queue and read no line.
LEMMA SharedStepCounts ==
  ASSUME WSTypeOK, LogTypes, NEW c \in Conns, WSStep(c), UNCHANGED logVars
  PROVE  /\ Left(c)' <= Left(c)
         /\ FlushEvents(c) \/ ReadFails(c) \/ Writer(c) => Left(c)' < Left(c)
<1>0. /\ ToRead(c) \in Int
      /\ ScannerLeft(c) \in Nat /\ ConnLeft(c) \in Nat /\ Left(c) \in Int
      /\ HandlerLeft(c) \in Nat /\ WriterLeft(c) \in Nat /\ Len(writeCh[c]) \in Nat
  BY LeftValues
<1>1. WSTypeOK'
  BY DialHere, FlushHere, ClockHere, WriterHere DEF WSStep
<1>2. ScannerLeft(c)' = ScannerLeft(c) /\ ToRead(c)' = ToRead(c)
  BY DEF ScannerLeft, ToRead, logVars
<1>3. ConnLeft(c)' \in Int
  BY <1>1, ConnLeftNatNext
<1>4. /\ ConnLeft(c)' <= ConnLeft(c)
      /\ FlushEvents(c) \/ ReadFails(c) \/ Writer(c) => ConnLeft(c)' < ConnLeft(c)
  BY SharedCountsDown
<1> QED BY <1>0, <1>2, <1>3, <1>4 DEF Left

\* A step for another connection changes nothing of this one.
LEMMA OthersStep ==
  ASSUME WSTypeOK, LogTypes, NEW c \in Conns, NEW d \in Conns, d # c,
         \/ WSStep(d) /\ UNCHANGED logVars
         \/ StartLogs(d) \/ LogsFail(d) \/ Return(d) \/ Scanner(d)
  PROVE  Left(c)' = Left(c)
<1>1. SameWS(c)
  <2>1. CASE WSStep(d)
    BY <2>1, DialHere, FlushHere, ClockHere, WriterHere DEF WSStep
  <2>2. CASE StartLogs(d) \/ LogsFail(d) \/ Return(d) \/ Scanner(d)
    BY <2>2 DEF StartLogs, LogsFail, Return, Scanner, Scan, ScanEnds, Record, Queue, GiveUp, wsVars,
         HandlerStep, Offer, SameWS, WSTypeOK
  <2> QED BY <2>1, <2>2
<1>2. /\ scanner'[c] = scanner[c] /\ line'[c] = line[c] /\ printed' = printed
      /\ broken' = broken
  BY DEF StartLogs, LogsFail, Return, Scanner, Scan, ScanEnds, Record, Queue, GiveUp, ScannerStep,
     logVars, LogTypes
<1>3. ScannerLeft(c)' = ScannerLeft(c) /\ ConnLeft(c)' = ConnLeft(c) /\ ToRead(c)' = ToRead(c)
  BY <1>1, <1>2 DEF SameWS, ScannerLeft, ToRead, ConnLeft, HandlerLeft, WriterLeft
<1> QED BY <1>3 DEF Left

\* The goroutines of a logs connection never run in a circle either: once the container has
\* stopped or the log broken off, each of their steps lowers a number that nobody else raises
\* (ws.go:205-282).
THEOREM EndIsCounted == Spec => EndComesNearer
<1>1. ASSUME IInv, IInv', Next, NEW c \in Conns, stopped \/ c \in broken
      PROVE  /\ Left(c)' <= Left(c)
             /\ Handler(c) \/ Shared(Writer(c)) \/ Scanner(c) => Left(c)' < Left(c)
  <2>0. WSTypeOK /\ LogTypes /\ Left(c) \in Int /\ Left(c)' \in Int
    BY <1>1, LeftValues, LeftNext DEF IInv, Connections
  <2>1. ASSUME Handler(c) \/ Shared(Writer(c)) \/ Scanner(c) PROVE Left(c)' < Left(c)
    <3>1. \/ StartLogs(c) \/ LogsFail(c) \/ Return(c) \/ Scanner(c)
          \/ /\ FlushEvents(c) \/ ReadFails(c) \/ Writer(c)
             /\ WSStep(c) /\ UNCHANGED logVars
      BY <2>1 DEF Handler, Shared, WSStep
    <3> QED BY <2>0, <3>1, OwnStepCounts, SharedStepCounts
  <2>2. ASSUME NEW d \in Conns,
               \/ WSStep(d) /\ UNCHANGED logVars
               \/ StartLogs(d) \/ LogsFail(d) \/ Return(d) \/ Scanner(d)
        PROVE  Left(c)' <= Left(c)
    <3>1. CASE d # c
      BY <2>0, <2>2, <3>1, OthersStep
    <3>2. CASE d = c
      <4>1. StartLogs(c) \/ LogsFail(c) \/ Return(c) \/ Scanner(c) => Left(c)' < Left(c)
        BY <2>1 DEF Handler
      <4> QED BY <2>0, <2>2, <3>2, <4>1, SharedStepCounts
    <3> QED BY <3>1, <3>2
  <2>3. ASSUME Output \/ ContainerStops \/ \E d \in Conns : LogBreaks(d) PROVE Left(c)' <= Left(c)
    <3>1. ScannerLeft(c)' = ScannerLeft(c) /\ ConnLeft(c)' = ConnLeft(c)
      BY <2>3
      DEF Output, ContainerStops, LogBreaks, wsVars, ScannerLeft, ConnLeft, HandlerLeft, WriterLeft
    <3>2. ToRead(c) \in Int /\ ToRead(c) >= 0
      <4>1. line[c] \in 0 .. printed /\ printed \in 0 .. MaxOutput
        BY <2>0 DEF LogTypes
      <4> QED BY <4>1, MaxOutputAssumption DEF ToRead
    <3>3. ToRead(c)' = ToRead(c) \/ ToRead(c)' = 0
      <4>1. CASE Output
        BY <1>1, <2>3, <4>1 DEF Output, ToRead
      <4>2. CASE ContainerStops \/ \E d \in Conns : LogBreaks(d)
        BY <2>3, <4>2 DEF ContainerStops, LogBreaks, ToRead
      <4> QED BY <2>3, <4>1, <4>2
    <3>4. ScannerLeft(c) \in Nat /\ ConnLeft(c) \in Nat
      BY <2>0, LeftValues
    <3> QED BY <3>1, <3>2, <3>3, <3>4 DEF Left
  <2>4. \E d \in Conns :
          \/ WSStep(d) /\ UNCHANGED logVars
          \/ StartLogs(d) \/ LogsFail(d) \/ Return(d) \/ Scanner(d)
          \/ Output \/ ContainerStops \/ \E e \in Conns : LogBreaks(e)
    BY <1>1 DEF Next, Handler, Shared, WSStep
  <2> QED BY <2>0, <2>1, <2>2, <2>3, <2>4
<1>2. IInv /\ IInv' /\ [Next]_vars =>
        [\A c \in Conns : stopped \/ c \in broken =>
             /\ Left(c)' <= Left(c)
             /\ Handler(c) \/ Shared(Writer(c)) \/ Scanner(c) => Left(c)' < Left(c)]_vars
  BY <1>1
<1> QED BY <1>2, InitIInv, NextIInv, PTL DEF Spec, EndComesNearer
-----------------------------------------------------------------------------
(* What the browsers have seen can be played back *)

\* The line that a connection is about to queue is in the recording.
HandSeen(c) == scanner[c] = "send" => InRecord(line[c])
SeenInv == \A c \in Conns : Seen(c) /\ HandSeen(c)

LEMMA SeenInit == Init => SeenInv
BY DEF Init, WSInit, SeenInv, Seen, HandSeen, AllInRecord

\* A step that neither shows nor records anything.
LEMMA SeenStill ==
  ASSUME SeenInv, UNCHANGED <<rec, snapshot, writeCh, got>>,
         \A d \in Conns : scanner'[d] = "send" => scanner[d] = "send" /\ line'[d] = line[d]
  PROVE  SeenInv'
<1>1. \A m : InRecord(m)' <=> InRecord(m)
  BY DEF InRecord
<1>2. ASSUME NEW d \in Conns PROVE Seen(d)' /\ HandSeen(d)'
  BY <1>1, SeenFrame DEF SeenInv, HandSeen
<1> QED BY <1>2 DEF SeenInv

\* A line is recorded ...
LEMMA SeenRecord ==
  ASSUME IInv, SeenInv, NEW c \in Conns, Record(c)
  PROVE  SeenInv'
<1>1. /\ rec' = Append(rec, line[c]) /\ UNCHANGED <<snapshot, writeCh, got, line>>
      /\ \A d \in Conns \ {c} : scanner'[d] = scanner[d]
  BY DEF Record, ScannerStep, IInv, LogTypes
<1>2. InRecord(line[c])' /\ \A m : InRecord(m) => InRecord(m)'
  BY <1>1, RecordGrows DEF IInv, Connections, WSTypeOK
<1>3. ASSUME NEW d \in Conns PROVE Seen(d)'
  BY <1>1, <1>2, SeenFrame DEF SeenInv
<1>4. ASSUME NEW d \in Conns PROVE HandSeen(d)'
  <2>1. CASE d = c
    BY <1>1, <1>2, <2>1 DEF HandSeen
  <2>2. CASE d # c
    BY <1>1, <1>2, <2>2 DEF HandSeen, SeenInv
  <2> QED BY <2>1, <2>2
<1> QED BY <1>3, <1>4 DEF SeenInv

\* ... before it is queued.
LEMMA SeenQueue ==
  ASSUME IInv, SeenInv, NEW c \in Conns, Queue(c)
  PROVE  SeenInv'
<1>1. /\ UNCHANGED <<rec, snapshot, got, line>> /\ scanner[c] = "send"
      /\ writeCh'[c] = Append(writeCh[c], line[c])
      /\ \A d \in Conns \ {c} : writeCh'[d] = writeCh[d]
      /\ \A d \in Conns : scanner'[d] = "send" => scanner[d] = "send"
  BY DEF Queue, Offer, ScannerStep, IInv, LogTypes, Connections, WSTypeOK
<1>2. line[c] \in Messages /\ InRecord(line[c])
  <2>1. line[c] \in 1 .. printed /\ printed \in 0 .. MaxOutput
    BY <1>1 DEF IInv, LogTypes, InHand
  <2>2. line[c] \in Chunks
    BY <2>1, MaxOutputAssumption DEF Chunks
  <2> QED BY <1>1, <2>2 DEF SeenInv, HandSeen, Messages
<1>3. \A m : InRecord(m)' <=> InRecord(m)
  BY <1>1 DEF InRecord
<1>4. ASSUME NEW d \in Conns PROVE Seen(d)'
  <2>1. CASE d = c
    BY <1>1, <1>2, <2>1, SeenQueued DEF SeenInv, IInv, Connections
  <2>2. CASE d # c
    BY <1>1, <1>3, <2>2, SeenFrame DEF SeenInv
  <2> QED BY <2>1, <2>2
<1>5. ASSUME NEW d \in Conns PROVE HandSeen(d)'
  BY <1>1, <1>3 DEF HandSeen, SeenInv
<1> QED BY <1>4, <1>5 DEF SeenInv

LEMMA SeenNext == IInv /\ SeenInv /\ [Next]_vars => SeenInv'
<1> SUFFICES ASSUME IInv, SeenInv, [Next]_vars PROVE SeenInv'
  OBVIOUS
<1>1. CASE Output \/ ContainerStops \/ (\E c \in Conns : LogBreaks(c)) \/ UNCHANGED vars
  BY <1>1, SeenStill DEF Output, ContainerStops, LogBreaks, vars, wsVars, logVars
<1>2. ASSUME NEW c \in Conns,
             \/ Shared(Dial(c)) \/ Shared(Leave(c)) \/ Shared(DeadlinePasses(c))
             \/ Shared(FlushEvents(c)) \/ Shared(ReadFails(c)) \/ Shared(Writer(c))
      PROVE  SeenInv'
  <2>1. WSStep(c) /\ UNCHANGED <<scanner, line>>
    BY <1>2 DEF Shared, WSStep, logVars
  <2>2. (\A m : InRecord(m)' <=> InRecord(m)) /\ \A d \in Conns : Seen(d)'
    BY <2>1, SeenShared DEF SeenInv, IInv, Connections
  <2> QED BY <2>1, <2>2 DEF SeenInv, HandSeen
<1>3. ASSUME NEW c \in Conns,
             \/ StartLogs(c) \/ LogsFail(c) \/ Return(c) \/ Scan(c) \/ ScanEnds(c) \/ GiveUp(c)
      PROVE  SeenInv'
  <2>1. /\ UNCHANGED <<rec, snapshot, writeCh, got>>
        /\ \A d \in Conns : scanner'[d] = "send" => scanner[d] = "send" /\ line'[d] = line[d]
    BY <1>3
    DEF StartLogs, LogsFail, Return, Scan, ScanEnds, GiveUp, ScannerStep, wsVars, logVars, IInv,
        LogTypes
  <2> QED BY <2>1, SeenStill
<1>4. ASSUME NEW c \in Conns, Record(c) \/ Queue(c) PROVE SeenInv'
  BY <1>4, SeenRecord, SeenQueue
<1> QED BY <1>1, <1>2, <1>3, <1>4 DEF Next, Handler, Scanner

\* Whatever lines a browser was shown are in the recording that the session's other browsers are
\* given and the player plays (ws.go:84, ws.go:257-265): a line is recorded before it is queued,
\* and every flush is a copy of the recording.
THEOREM SeenCanBePlayedBack == Spec => []SeenIsRecorded
<1>1. IInv /\ SeenInv => SeenIsRecorded
  BY DEF SeenInv, Seen, AllInRecord, InRecord, SeenIsRecorded
<1> QED BY <1>1, SeenInit, SeenNext, InitIInv, NextIInv, PTL DEF Spec
=============================================================================
