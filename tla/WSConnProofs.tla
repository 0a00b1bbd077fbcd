----------------------------- MODULE WSConnProofs -----------------------------
(***************************************************************************)
(* What the steps that the session modes share do to a connection: they    *)
(* keep the types of WSConn's variables, leave every other connection      *)
(* alone, and move messages from the snapshot and the queue to the         *)
(* browser.  The proofs about the modes are built on these lemmas.         *)
(***************************************************************************)
EXTENDS WSConn, TLAPS

\* A step of the browser, the clock, flushEvents, the read loop or the write goroutine.
WSStep(c) ==
  \/ Dial(c) \/ Leave(c) \/ DeadlinePasses(c) \/ FlushEvents(c) \/ ReadFails(c) \/ Writer(c)

\* What belongs to connection c.
SameWS(c) ==
  /\ client'[c] = client[c] /\ handler'[c] = handler[c] /\ snapshot'[c] = snapshot[c]
  /\ deadline'[c] = deadline[c] /\ writer'[c] = writer[c] /\ writeCh'[c] = writeCh[c]
  /\ got'[c] = got[c]

\* Nothing live is under way before the handler starts its goroutines ...
Before(c) ==
  /\ handler[c] \in {"idle", "flush", "start", "subscribed"} =>
       writer[c] = "idle" /\ writeCh[c] = <<>>
  /\ handler[c] \in {"idle", "flush"} => got[c] = <<>> /\ deadline[c] = "none"

\* ... and what the browser got first is the snapshot, or, when a write of the flush failed and
\* the connection is of no use any more, a part of it.
FlushFirst(c) ==
  /\ \A i \in 1 .. Len(got[c]) : i <= Len(snapshot[c]) => got[c][i] = snapshot[c][i]
  /\ handler[c] \notin {"idle", "flush"} /\ deadline[c] # "passed" =>
       Len(got[c]) >= Len(snapshot[c])

Connections == WSTypeOK /\ \A c \in Conns : Before(c) /\ FlushFirst(c)

-----------------------------------------------------------------------------
\* What one connection's values are.
LEMMA ConnValues ==
  ASSUME WSTypeOK, NEW c \in Conns
  PROVE  /\ snapshot[c] \in Seq(Chunks) /\ Len(snapshot[c]) \in Nat
         /\ got[c] \in Seq(Messages) /\ Len(got[c]) \in Nat
         /\ writeCh[c] \in Seq(Messages) /\ Len(writeCh[c]) \in Nat /\ Len(writeCh[c]) <= ChCap
BY DEF WSTypeOK

\* What is left of a queue when its head has gone.
LEMMA RestOfQueue ==
  ASSUME NEW S, NEW s \in Seq(S), s # <<>>
  PROVE  /\ Len(s) \in Nat /\ Len(s) >= 1 /\ Head(s) = s[1] /\ Head(s) \in S
         /\ Tail(s) \in Seq(S) /\ Len(Tail(s)) = Len(s) - 1
         /\ \A j \in 1 .. Len(Tail(s)) : j + 1 \in 1 .. Len(s) /\ Tail(s)[j] = s[j + 1]
<1>1. /\ Len(s) \in Nat /\ Len(s) >= 1 /\ Head(s) = s[1] /\ Head(s) \in S
      /\ Tail(s) \in Seq(S) /\ Len(Tail(s)) = Len(s) - 1
  OBVIOUS
<1>2. \A j \in 1 .. Len(s) - 1 : Tail(s)[j] = s[j + 1]
  OBVIOUS
<1> QED BY <1>1, <1>2

\* What a message appended to a sequence leaves of it.
LEMMA LongerByOne ==
  ASSUME NEW S, NEW s \in Seq(S), NEW m \in S
  PROVE  /\ Append(s, m) \in Seq(S) /\ Len(s) \in Nat /\ Len(Append(s, m)) = Len(s) + 1
         /\ Append(s, m)[Len(s) + 1] = m
         /\ \A i \in 1 .. Len(s) : Append(s, m)[i] = s[i]
         /\ \A i \in 1 .. Len(Append(s, m)) : i \in 1 .. Len(s) \/ i = Len(s) + 1
OBVIOUS

LEMMA QueueGrows ==
  ASSUME NEW s \in Seq(Messages), NEW m
  PROVE  Len(Append(s, m)) = Len(s) + 1
OBVIOUS

-----------------------------------------------------------------------------
(* Each shared step, seen from its connection *)

LEMMA DialHere ==
  ASSUME WSTypeOK, NEW c \in Conns, Dial(c)
  PROVE  /\ WSTypeOK' /\ rec' = rec /\ closed' = closed
         /\ \A d \in Conns \ {c} : SameWS(d)
         /\ handler[c] = "idle" /\ handler'[c] = "flush" /\ client'[c] = "up"
         /\ snapshot'[c] = rec
         /\ deadline'[c] = deadline[c] /\ writer'[c] = writer[c] /\ writeCh'[c] = writeCh[c]
         /\ got'[c] = got[c]
<1>1. /\ rec' = rec /\ closed' = closed /\ deadline' = deadline /\ writer' = writer
      /\ writeCh' = writeCh /\ got' = got /\ handler[c] = "idle"
      /\ client' = [client EXCEPT ![c] = "up"] /\ handler' = [handler EXCEPT ![c] = "flush"]
      /\ snapshot' = [snapshot EXCEPT ![c] = rec]
  BY DEF Dial, HandlerStep
<1>2. WSTypeOK'
  BY <1>1 DEF WSTypeOK
<1> QED BY <1>1, <1>2 DEF WSTypeOK, SameWS

\* The flush sends the snapshot, or fails and sends a part of it.
LEMMA FlushHere ==
  ASSUME WSTypeOK, NEW c \in Conns, FlushEvents(c)
  PROVE  /\ WSTypeOK' /\ rec' = rec /\ closed' = closed
         /\ \A d \in Conns \ {c} : SameWS(d)
         /\ handler[c] = "flush" /\ handler'[c] = "start" /\ client'[c] = client[c]
         /\ snapshot'[c] = snapshot[c] /\ writer'[c] = writer[c] /\ writeCh'[c] = writeCh[c]
         /\ Len(got'[c]) <= Len(snapshot[c])
         /\ \A i \in 1 .. Len(got'[c]) : got'[c][i] = snapshot[c][i]
         /\ deadline'[c] = "passed" \/ got'[c] = snapshot[c]
<1>1. /\ rec' = rec /\ closed' = closed /\ client' = client /\ snapshot' = snapshot
      /\ writer' = writer /\ writeCh' = writeCh /\ handler[c] = "flush"
      /\ handler' = [handler EXCEPT ![c] = "start"]
  BY DEF FlushEvents, FlushAll, FlushFails, HandlerStep
<1>2. PICK n \in 0 .. Len(snapshot[c]), t \in {"none", "set", "passed"} :
        /\ got' = [got EXCEPT ![c] = SubSeq(snapshot[c], 1, n)]
        /\ deadline' = [deadline EXCEPT ![c] = t]
        /\ t = "passed" \/ n = Len(snapshot[c])
  <2>1. CASE FlushAll(c)
    <3>1. SubSeq(snapshot[c], 1, Len(snapshot[c])) = snapshot[c] /\ Len(snapshot[c]) \in Nat
      BY DEF WSTypeOK
    <3>2. PICK t \in {"none", "set", "passed"} : deadline' = [deadline EXCEPT ![c] = t]
      BY <2>1 DEF FlushAll
    <3>3. got' = [got EXCEPT ![c] = SubSeq(snapshot[c], 1, Len(snapshot[c]))]
      BY <2>1, <3>1 DEF FlushAll
    <3>4. Len(snapshot[c]) \in 0 .. Len(snapshot[c])
      BY <3>1
    <3> QED BY <3>2, <3>3, <3>4
  <2>2. CASE FlushFails(c)
    <3>1. PICK n \in 1 .. Len(snapshot[c]) :
            got' = [got EXCEPT ![c] = SubSeq(snapshot[c], 1, n - 1)]
      BY <2>2 DEF FlushFails
    <3>2. n - 1 \in 0 .. Len(snapshot[c])
      BY ConnValues
    <3> QED BY <2>2, <3>1, <3>2 DEF FlushFails
  <2> QED BY <2>1, <2>2 DEF FlushEvents
<1> DEFINE sent == SubSeq(snapshot[c], 1, n)
<1>3. /\ sent \in Seq(Chunks) /\ Len(sent) = n
      /\ \A i \in 1 .. n : sent[i] = snapshot[c][i]
      /\ n = Len(snapshot[c]) => sent = snapshot[c]
  BY ConnValues
<1>4. sent \in Seq(Messages)
  BY <1>3 DEF Messages
<1> HIDE DEF sent
<1>5. got'[c] = sent /\ deadline'[c] = t
  BY <1>2 DEF WSTypeOK, sent
<1>6. WSTypeOK'
  BY <1>1, <1>2, <1>4 DEF WSTypeOK, sent
<1>7. \A d \in Conns \ {c} : SameWS(d)
  BY <1>1, <1>2 DEF WSTypeOK, SameWS
<1>8. handler'[c] = "start"
  BY <1>1 DEF WSTypeOK
<1>9. Len(got'[c]) <= Len(snapshot[c])
  BY <1>3, <1>5, ConnValues
<1>10. /\ \A i \in 1 .. Len(got'[c]) : got'[c][i] = snapshot[c][i]
       /\ deadline'[c] = "passed" \/ got'[c] = snapshot[c]
  BY <1>2, <1>3, <1>5
<1> QED BY <1>1, <1>6, <1>7, <1>8, <1>9, <1>10

\* A browser leaves, a deadline passes, or the read loop notices that the browser has left.
LEMMA ClockHere ==
  ASSUME WSTypeOK, NEW c \in Conns, Leave(c) \/ DeadlinePasses(c) \/ ReadFails(c)
  PROVE  /\ WSTypeOK' /\ rec' = rec /\ closed' = closed
         /\ \A d \in Conns \ {c} : SameWS(d)
         /\ snapshot'[c] = snapshot[c] /\ writer'[c] = writer[c] /\ writeCh'[c] = writeCh[c]
         /\ got'[c] = got[c]
         /\ client'[c] = client[c] \/ client'[c] = "gone"
         /\ deadline'[c] = deadline[c] \/ (deadline[c] = "set" /\ deadline'[c] = "passed")
         /\ handler'[c] = handler[c] \/ (handler[c] = "reading" /\ handler'[c] = "waiting")
<1>1. CASE Leave(c)
  BY <1>1 DEF Leave, WSTypeOK, SameWS
<1>2. CASE DeadlinePasses(c)
  BY <1>2 DEF DeadlinePasses, WSTypeOK, SameWS
<1>3. CASE ReadFails(c)
  BY <1>3 DEF ReadFails, HandlerStep, WSTypeOK, SameWS
<1> QED BY <1>1, <1>2, <1>3

\* The write goroutine takes the head of its queue and hands it to the browser, or to nobody,
\* after which nothing more gets to the browser; or it ends.
LEMMA WriterHere ==
  ASSUME WSTypeOK, NEW c \in Conns, Writer(c)
  PROVE  /\ WSTypeOK' /\ rec' = rec /\ closed' = closed
         /\ \A d \in Conns \ {c} : SameWS(d)
         /\ handler'[c] = handler[c] /\ snapshot'[c] = snapshot[c] /\ client'[c] = client[c]
         /\ deadline'[c] = deadline[c]
         /\ writer[c] = "running" /\ writer'[c] \in {"running", "stopped"}
         /\ \/ /\ writeCh[c] # <<>> /\ writeCh'[c] = Tail(writeCh[c])
               /\ client[c] = "up" /\ deadline[c] # "passed"
               /\ got'[c] = Append(got[c], Head(writeCh[c]))
            \/ /\ writeCh[c] # <<>> /\ writeCh'[c] = Tail(writeCh[c])
               /\ client[c] = "gone" \/ deadline[c] = "passed"
               /\ got'[c] = got[c]
            \/ writeCh'[c] = writeCh[c] /\ got'[c] = got[c] /\ writer'[c] = "stopped"
<1>1. /\ rec' = rec /\ closed' = closed /\ client' = client /\ handler' = handler
      /\ snapshot' = snapshot /\ deadline' = deadline /\ writer[c] = "running"
      /\ writer' = writer \/ writer' = [writer EXCEPT ![c] = "stopped"]
  BY DEF Writer, Deliver, Vanish, WriteFails, WriterEnds, Running
<1>2. CASE WriterEnds(c)
  BY <1>2 DEF WriterEnds, WSTypeOK, SameWS
<1>3. CASE Deliver(c) \/ Vanish(c) \/ WriteFails(c)
  <2>1. writeCh[c] # <<>> /\ writeCh' = [writeCh EXCEPT ![c] = Tail(writeCh[c])]
    BY <1>3 DEF Deliver, Vanish, WriteFails, Running
  <2>2. PICK s : s = Tail(writeCh[c])
    OBVIOUS
  <2>3. s \in Seq(Messages) /\ Len(s) <= ChCap
    BY <2>1, <2>2, ConnValues, RestOfQueue, ChCapAssumption
  <2>4. writeCh' \in [Conns -> Seq(Messages)] /\ \A d \in Conns : Len(writeCh'[d]) <= ChCap
    BY <2>1, <2>2, <2>3 DEF WSTypeOK
  <2>5. PICK g : g = Append(got[c], Head(writeCh[c]))
    OBVIOUS
  <2>6. g \in Seq(Messages)
    BY <2>1, <2>5, ConnValues, RestOfQueue, LongerByOne
  <2>7. got' = got \/ got' = [got EXCEPT ![c] = g]
    BY <1>3, <2>5 DEF Deliver, Vanish, WriteFails
  <2>8. got' \in [Conns -> Seq(Messages)]
    BY <2>6, <2>7 DEF WSTypeOK
  <2>9. WSTypeOK'
    BY <1>1, <2>4, <2>8 DEF WSTypeOK
  <2>10. \A d \in Conns \ {c} : SameWS(d)
    BY <1>1, <2>1, <2>7 DEF WSTypeOK, SameWS
  <2>11. writeCh'[c] = Tail(writeCh[c])
    BY <2>1 DEF WSTypeOK
  <2>12. \/ client[c] = "up" /\ deadline[c] # "passed" /\ got'[c] = Append(got[c], Head(writeCh[c]))
         \/ (client[c] = "gone" \/ deadline[c] = "passed") /\ got'[c] = got[c]
    BY <1>3 DEF Deliver, Vanish, WriteFails, WSTypeOK
  <2>13. writer'[c] \in {"running", "stopped"}
    BY <1>1 DEF WSTypeOK
  <2> QED BY <1>1, <2>1, <2>9, <2>10, <2>11, <2>12, <2>13
<1> QED BY <1>2, <1>3 DEF Writer

-----------------------------------------------------------------------------
(* The shared invariant of the connections *)

LEMMA ConnectionsStart == WSInit => Connections
BY ChCapAssumption DEF WSInit, Connections, WSTypeOK, Before, FlushFirst

\* A connection that a step leaves alone.
LEMMA ConnectionFrame ==
  ASSUME NEW c \in Conns, Before(c), FlushFirst(c), SameWS(c)
  PROVE  Before(c)' /\ FlushFirst(c)'
BY DEF Before, FlushFirst, SameWS

\* The handler moves on, or another goroutine works, after the flush: what the browser has got
\* stays.
LEMMA AfterFlush ==
  ASSUME NEW c \in Conns, Before(c), FlushFirst(c),
         handler[c] \notin {"idle", "flush"}, handler'[c] \notin {"idle", "flush"},
         snapshot'[c] = snapshot[c], got'[c] = got[c],
         deadline'[c] = deadline[c] \/ deadline'[c] = "passed"
  PROVE  FlushFirst(c)'
BY DEF FlushFirst

\* Every shared step keeps the invariant.
LEMMA SharedKeepsConnections ==
  ASSUME Connections, NEW c \in Conns, WSStep(c)
  PROVE  Connections'
<1>1. ASSUME WSTypeOK', \A d \in Conns \ {c} : SameWS(d), Before(c)', FlushFirst(c)'
      PROVE  Connections'
  BY <1>1, ConnectionFrame DEF Connections
<1>2. WSTypeOK /\ Before(c) /\ FlushFirst(c)
  BY DEF Connections
<1>3. CASE Dial(c)
  <2>1. Before(c)' /\ FlushFirst(c)'
    BY <1>2, <1>3, DialHere DEF Before, FlushFirst
  <2> QED BY <1>1, <1>2, <1>3, <2>1, DialHere
<1>4. CASE FlushEvents(c)
  <2>1. /\ handler[c] = "flush" /\ handler'[c] = "start"
        /\ snapshot'[c] = snapshot[c] /\ writer'[c] = writer[c] /\ writeCh'[c] = writeCh[c]
        /\ \A i \in 1 .. Len(got'[c]) : got'[c][i] = snapshot[c][i]
        /\ deadline'[c] = "passed" \/ got'[c] = snapshot[c]
    BY <1>2, <1>4, FlushHere
  <2>2. Before(c)' /\ FlushFirst(c)'
    BY <1>2, <2>1, ConnValues DEF Before, FlushFirst
  <2> QED BY <1>1, <1>2, <1>4, <2>2, FlushHere
<1>5. CASE Leave(c) \/ DeadlinePasses(c) \/ ReadFails(c)
  <2>1. Before(c)' /\ FlushFirst(c)'
    BY <1>2, <1>5, ClockHere DEF Before, FlushFirst
  <2> QED BY <1>1, <1>2, <1>5, <2>1, ClockHere
<1>6. CASE Writer(c)
  <2>1. /\ handler'[c] = handler[c] /\ snapshot'[c] = snapshot[c] /\ deadline'[c] = deadline[c]
        /\ writer[c] = "running"
        /\ \/ got'[c] = got[c]
           \/ /\ deadline[c] # "passed" /\ writeCh[c] # <<>>
              /\ got'[c] = Append(got[c], Head(writeCh[c]))
    BY <1>2, <1>6, WriterHere
  <2>2. handler[c] \notin {"idle", "flush", "start", "subscribed"}
    BY <1>2, <2>1 DEF Before
  <2>3. Before(c)'
    BY <2>1, <2>2 DEF Before
  <2>4. CASE got'[c] = got[c]
    <3> FlushFirst(c)'
      BY <1>2, <2>1, <2>2, <2>4, AfterFlush
    <3> QED BY <1>1, <1>2, <1>6, <2>3, WriterHere
  <2>5. CASE /\ deadline[c] # "passed" /\ writeCh[c] # <<>>
             /\ got'[c] = Append(got[c], Head(writeCh[c]))
    <3>1. /\ Len(got'[c]) = Len(got[c]) + 1
          /\ \A i \in 1 .. Len(got[c]) : got'[c][i] = got[c][i]
          /\ \A i \in 1 .. Len(got'[c]) : i \in 1 .. Len(got[c]) \/ i = Len(got[c]) + 1
      BY <1>2, <2>5, ConnValues, RestOfQueue, LongerByOne
    <3>2. Len(got[c]) >= Len(snapshot[c])
      BY <1>2, <2>2, <2>5 DEF FlushFirst
    <3>3. FlushFirst(c)'
      BY <1>2, <2>1, <3>1, <3>2, ConnValues DEF FlushFirst
    <3> QED BY <1>1, <1>2, <1>6, <2>3, <3>3, WriterHere
  <2> QED BY <2>1, <2>4, <2>5
<1> QED BY <1>3, <1>4, <1>5, <1>6 DEF WSStep

-----------------------------------------------------------------------------
(* The end of a connection *)

\* What the handler and the write goroutine need to go on.
HandlerCan(c) ==
  \/ handler[c] \in {"flush", "start", "subscribed"}
  \/ handler[c] = "reading" /\ client[c] = "gone"
  \/ handler[c] = "waiting" /\ Done(c)

WriterCan(c) == writer[c] = "running" /\ (writeCh[c] # <<>> \/ c \in closed)

\* A bound on the steps that the two have left while nobody fills the queue.
HandlerLeft(c) ==
  CASE handler[c] = "idle" -> 6 [] handler[c] = "flush" -> 5 [] handler[c] = "start" -> 4
    [] handler[c] = "subscribed" -> 3 [] handler[c] = "reading" -> 2
    [] handler[c] = "waiting" -> 1 [] handler[c] = "returned" -> 0
WriterLeft(c) ==
  CASE writer[c] = "idle" -> 2 [] writer[c] = "running" -> 1 [] writer[c] = "stopped" -> 0
ConnLeft(c) == HandlerLeft(c) + WriterLeft(c) + Len(writeCh[c])

LEMMA ConnLeftNat ==
  ASSUME WSTypeOK, NEW c \in Conns
  PROVE  HandlerLeft(c) \in Nat /\ WriterLeft(c) \in Nat /\ ConnLeft(c) \in Nat
<1>1. HandlerLeft(c) \in Nat
  BY DEF HandlerLeft, WSTypeOK
<1>2. WriterLeft(c) \in Nat
  BY DEF WriterLeft, WSTypeOK
<1> QED BY <1>1, <1>2, ConnValues DEF ConnLeft

LEMMA ConnLeftNatNext ==
  ASSUME WSTypeOK', NEW c \in Conns
  PROVE  ConnLeft(c)' \in Nat
<1>1. HandlerLeft(c)' \in Nat
  BY DEF HandlerLeft, WSTypeOK
<1>2. WriterLeft(c)' \in Nat
  BY DEF WriterLeft, WSTypeOK
<1>3. Len(writeCh'[c]) \in Nat
  BY DEF WSTypeOK
<1> QED BY <1>1, <1>2, <1>3 DEF ConnLeft

\* The shared steps count down.
LEMMA SharedCountsDown ==
  ASSUME WSTypeOK, NEW c \in Conns, WSStep(c)
  PROVE  /\ ConnLeft(c)' <= ConnLeft(c)
         /\ FlushEvents(c) \/ ReadFails(c) \/ Writer(c) => ConnLeft(c)' < ConnLeft(c)
<1>1. HandlerLeft(c) \in Nat /\ WriterLeft(c) \in Nat /\ Len(writeCh[c]) \in Nat
  BY ConnLeftNat, ConnValues
<1>2. CASE Dial(c) \/ FlushEvents(c)
  <2>1. HandlerLeft(c)' < HandlerLeft(c)
    BY <1>2, DialHere, FlushHere DEF HandlerLeft
  <2>2. WriterLeft(c)' = WriterLeft(c) /\ writeCh'[c] = writeCh[c]
    BY <1>2, DialHere, FlushHere DEF WriterLeft
  <2>3. HandlerLeft(c)' \in Nat
    BY <1>2, DialHere, FlushHere DEF HandlerLeft
  <2> QED BY <1>1, <2>1, <2>2, <2>3 DEF ConnLeft
<1>3. CASE Leave(c) \/ DeadlinePasses(c) \/ ReadFails(c)
  <2>1. WriterLeft(c)' = WriterLeft(c) /\ writeCh'[c] = writeCh[c]
    BY <1>3, ClockHere DEF WriterLeft
  <2>2. CASE handler'[c] = handler[c]
    <3>1. HandlerLeft(c)' = HandlerLeft(c)
      BY <2>2 DEF HandlerLeft
    <3>2. ~(FlushEvents(c) \/ ReadFails(c) \/ Writer(c))
      <4>1. ~ReadFails(c)
        BY <2>2 DEF ReadFails, HandlerStep, WSTypeOK
      <4>2. ~FlushEvents(c)
        BY <2>2, FlushHere
      <4>3. ~Writer(c)
        BY <1>3, <4>1 DEF Leave, DeadlinePasses, Writer, Deliver, Vanish, WriteFails, WriterEnds, WSTypeOK
      <4> QED BY <4>1, <4>2, <4>3
    <3> QED BY <1>1, <2>1, <3>1, <3>2 DEF ConnLeft
  <2>3. CASE handler[c] = "reading" /\ handler'[c] = "waiting"
    <3>1. HandlerLeft(c) = 2 /\ HandlerLeft(c)' = 1
      BY <2>3 DEF HandlerLeft
    <3> QED BY <1>1, <2>1, <3>1 DEF ConnLeft
  <2> QED BY <1>3, <2>2, <2>3, ClockHere
<1>4. CASE Writer(c)
  <2>1. HandlerLeft(c)' = HandlerLeft(c)
    BY <1>4, WriterHere DEF HandlerLeft
  <2>2. WriterLeft(c) = 1 /\ WriterLeft(c)' \in {0, 1} /\ (writer'[c] = "stopped" => WriterLeft(c)' = 0)
    BY <1>4, WriterHere DEF WriterLeft
  <2>3. CASE writeCh[c] # <<>> /\ writeCh'[c] = Tail(writeCh[c])
    <3>1. Len(writeCh'[c]) = Len(writeCh[c]) - 1
      BY <2>3, ConnValues, RestOfQueue
    <3> QED BY <1>1, <2>1, <2>2, <3>1 DEF ConnLeft
  <2>4. CASE writeCh'[c] = writeCh[c] /\ writer'[c] = "stopped"
    BY <1>1, <2>1, <2>2, <2>4 DEF ConnLeft
  <2> QED BY <1>4, <2>3, <2>4, WriterHere
<1> QED BY <1>2, <1>3, <1>4 DEF WSStep

-----------------------------------------------------------------------------
(* What the browsers have seen and the recording *)

\* All that a browser has been sent, but for the exit message, is in the recording.
SeenIsRecorded ==
  \A c \in Conns : \A i \in 1 .. Len(got[c]) :
    got[c][i] # Exit => \E k \in 1 .. Len(rec) : rec[k] = got[c][i]

InRecord(m) == m = Exit \/ \E i \in 1 .. Len(rec) : rec[i] = m
AllInRecord(s) == \A i \in 1 .. Len(s) : InRecord(s[i])

\* All that a connection has had, or has in its queue.
Seen(c) == AllInRecord(snapshot[c]) /\ AllInRecord(writeCh[c]) /\ AllInRecord(got[c])

\* The recording only grows.
LEMMA RecordGrows ==
  ASSUME rec \in Seq(Chunks), NEW x, rec' = Append(rec, x)
  PROVE  InRecord(x)' /\ \A m : InRecord(m) => InRecord(m)'
<1>1. /\ Len(rec') = Len(rec) + 1 /\ rec'[Len(rec) + 1] = x /\ Len(rec) \in Nat
      /\ \A i \in 1 .. Len(rec) : rec'[i] = rec[i]
  OBVIOUS
<1>2. Len(rec) + 1 \in 1 .. Len(rec') /\ \A i \in 1 .. Len(rec) : i \in 1 .. Len(rec')
  BY <1>1
<1> QED BY <1>1, <1>2 DEF InRecord

\* What is added to a sequence, or taken from its front.
LEMMA RecordedAppend ==
  ASSUME NEW s \in Seq(Messages), AllInRecord(s), NEW m \in Messages, InRecord(m)
  PROVE  AllInRecord(Append(s, m))
<1>1. \A i \in 1 .. Len(Append(s, m)) :
        (i \in 1 .. Len(s) /\ Append(s, m)[i] = s[i]) \/ Append(s, m)[i] = m
  BY LongerByOne
<1> QED BY <1>1 DEF AllInRecord

LEMMA RecordedTail ==
  ASSUME NEW s \in Seq(Messages), s # <<>>, AllInRecord(s)
  PROVE  AllInRecord(Tail(s)) /\ InRecord(Head(s)) /\ Head(s) \in Messages
<1>1. /\ Len(s) >= 1 /\ Len(s) \in Nat /\ Head(s) = s[1] /\ Head(s) \in Messages
      /\ \A j \in 1 .. Len(Tail(s)) : j + 1 \in 1 .. Len(s) /\ Tail(s)[j] = s[j + 1]
  BY RestOfQueue
<1>2. 1 \in 1 .. Len(s)
  BY <1>1
<1> QED BY <1>1, <1>2 DEF AllInRecord

\* A connection that a step leaves alone.
LEMMA SeenFrame ==
  ASSUME NEW c \in Conns, Seen(c), \A m : InRecord(m) => InRecord(m)',
         snapshot'[c] = snapshot[c], writeCh'[c] = writeCh[c], got'[c] = got[c]
  PROVE  Seen(c)'
BY DEF Seen, AllInRecord

\* A message that is recorded joins the queue.
LEMMA SeenQueued ==
  ASSUME WSTypeOK, NEW c \in Conns, Seen(c), rec' = rec, NEW m \in Messages, InRecord(m),
         snapshot'[c] = snapshot[c], got'[c] = got[c], writeCh'[c] = Append(writeCh[c], m)
  PROVE  Seen(c)'
<1>1. \A x : InRecord(x)' <=> InRecord(x)
  BY DEF InRecord
<1>2. AllInRecord(Append(writeCh[c], m))
  BY ConnValues, RecordedAppend DEF Seen
<1> QED BY <1>1, <1>2 DEF Seen, AllInRecord

\* The shared steps show a browser what is in the recording, or in its queue.
LEMMA SeenShared ==
  ASSUME WSTypeOK, \A d \in Conns : Seen(d), NEW c \in Conns, WSStep(c)
  PROVE  (\A m : InRecord(m)' <=> InRecord(m)) /\ \A d \in Conns : Seen(d)'
<1>1. rec' = rec /\ \A d \in Conns \ {c} : SameWS(d)
  BY DialHere, FlushHere, ClockHere, WriterHere DEF WSStep
<1>2. \A m : InRecord(m)' <=> InRecord(m)
  BY <1>1 DEF InRecord
<1>3. ASSUME NEW d \in Conns, d # c PROVE Seen(d)'
  BY <1>1, <1>2, <1>3, SeenFrame DEF SameWS
<1>4. Seen(c)'
  <2>1. CASE Dial(c)
    <3>1. snapshot'[c] = rec /\ writeCh'[c] = writeCh[c] /\ got'[c] = got[c]
      BY <2>1, DialHere
    <3>2. AllInRecord(rec)
      BY DEF AllInRecord, InRecord
    <3> QED BY <1>2, <3>1, <3>2 DEF Seen, AllInRecord
  <2>2. CASE FlushEvents(c)
    <3>1. /\ snapshot'[c] = snapshot[c] /\ writeCh'[c] = writeCh[c]
          /\ Len(got'[c]) <= Len(snapshot[c])
          /\ \A i \in 1 .. Len(got'[c]) : got'[c][i] = snapshot[c][i]
      BY <2>2, FlushHere
    <3>2. Len(snapshot[c]) \in Nat /\ Len(got'[c]) \in Nat
      <4>1. WSTypeOK'
        BY <2>2, FlushHere
      <4> QED BY <4>1, ConnValues DEF WSTypeOK
    <3>3. \A i \in 1 .. Len(got'[c]) : i \in 1 .. Len(snapshot[c])
      BY <3>1, <3>2
    <3> QED BY <1>2, <3>1, <3>3 DEF Seen, AllInRecord
  <2>3. CASE Leave(c) \/ DeadlinePasses(c) \/ ReadFails(c)
    BY <1>2, <2>3, ClockHere, SeenFrame
  <2>4. CASE Writer(c)
    <3>1. /\ snapshot'[c] = snapshot[c]
          /\ \/ writeCh'[c] = writeCh[c] /\ got'[c] = got[c]
             \/ /\ writeCh[c] # <<>> /\ writeCh'[c] = Tail(writeCh[c])
                /\ got'[c] = got[c] \/ got'[c] = Append(got[c], Head(writeCh[c]))
      BY <2>4, WriterHere
    <3>2. writeCh[c] \in Seq(Messages) /\ got[c] \in Seq(Messages)
      BY ConnValues
    <3>3. CASE writeCh'[c] = writeCh[c] /\ got'[c] = got[c]
      BY <1>2, <3>1, <3>3, SeenFrame
    <3>4. CASE /\ writeCh[c] # <<>> /\ writeCh'[c] = Tail(writeCh[c])
               /\ got'[c] = got[c] \/ got'[c] = Append(got[c], Head(writeCh[c]))
      <4>1. AllInRecord(Tail(writeCh[c])) /\ AllInRecord(Append(got[c], Head(writeCh[c])))
        BY <3>2, <3>4, RecordedTail, RecordedAppend DEF Seen
      <4> QED BY <1>2, <3>1, <3>4, <4>1 DEF Seen, AllInRecord
    <3> QED BY <3>1, <3>3, <3>4
  <2> QED BY <2>1, <2>2, <2>3, <2>4 DEF WSStep
<1> QED BY <1>2, <1>3, <1>4
=============================================================================
