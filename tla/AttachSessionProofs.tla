------------------------- MODULE AttachSessionProofs -------------------------
(***************************************************************************)
(* Theorems about AttachSession, for any number of browsers, channels of   *)
(* any capacity and any amount of output.                                  *)
(***************************************************************************)
EXTENDS AttachSession, WSConnProofs

\* The recording is as long as what the pump has read, but for the chunk that it is about to
\* record.
RecordKeepsUp ==
  /\ chunk \in Nat
  /\ rec \in Seq(Nat)
  /\ Len(rec) = IF pump = "record" THEN chunk - 1 ELSE chunk

IInv == RecordKeepsUp /\ RecordedInOrder

\* What the invariant depends on.
recordVars == <<rec, pump, chunk>>

LEMMA RecordFrame == IInv /\ UNCHANGED recordVars => IInv'
BY DEF IInv, RecordKeepsUp, RecordedInOrder, recordVars

LEMMA InitIInv == Init => IInv
BY DEF Init, WSInit, IInv, RecordKeepsUp, RecordedInOrder

\* A step of the pump keeps it: it reads the next chunk only when the last one is recorded.
LEMMA PumpIInv == IInv /\ Pump => IInv'
<1> SUFFICES ASSUME IInv, Pump PROVE IInv'
  OBVIOUS
<1> USE DEF IInv, RecordKeepsUp, RecordedInOrder
<1>1. CASE ReadStream
  BY <1>1 DEF ReadStream, PumpStep, wsVars
<1>2. CASE ReadError
  BY <1>2 DEF ReadError, PumpStep, wsVars
<1>3. CASE Record
  <2>1. /\ pump = "record" /\ pump' = "copy"
        /\ rec' = Append(rec, chunk) /\ chunk' = chunk
    BY <1>3 DEF Record, PumpStep
  <2>2. /\ rec' \in Seq(Nat) /\ Len(rec') = chunk
        /\ \A i \in 1 .. Len(rec') : rec'[i] = IF i = chunk THEN chunk ELSE rec[i]
    BY <2>1
  <2> QED BY <2>1, <2>2
<1>4. CASE CopySubscribers
  BY <1>4 DEF CopySubscribers, PumpStep, wsVars
<1>5. CASE SendToNext
  BY <1>5 DEF SendToNext, wsVars
<1>6. CASE BroadcastEnds
  BY <1>6 DEF BroadcastEnds, PumpStep, wsVars
<1> QED BY <1>1, <1>2, <1>3, <1>4, <1>5, <1>6 DEF Pump

\* Nor does a connection disturb the recording: all it does to the pump is start it, once.
LEMMA ConnectionIInv ==
  ASSUME IInv, NEW c \in Conns,
         \/ Shared(Dial(c)) \/ Shared(Leave(c)) \/ Shared(DeadlinePasses(c))
         \/ Handler(c) \/ Shared(Writer(c)) \/ Forwarder(c)
  PROVE  IInv'
<1>1. CASE Shared(Dial(c)) \/ Shared(Leave(c)) \/ Shared(DeadlinePasses(c))
  <2> UNCHANGED recordVars
    BY <1>1 DEF Shared, Dial, Leave, DeadlinePasses, pumpVars, recordVars
  <2> QED BY RecordFrame
<1>2. CASE Handler(c)
  <2>1. CASE Shared(FlushEvents(c)) \/ Shared(ReadFails(c))
    <3> UNCHANGED recordVars
      BY <2>1 DEF Shared, FlushEvents, FlushAll, FlushFails, ReadFails, pumpVars, recordVars
    <3> QED BY RecordFrame
  <2>2. CASE Subscribe(c) \/ Return(c)
    <3> UNCHANGED recordVars
      BY <2>2 DEF Subscribe, Return, pumpVars, recordVars
    <3> QED BY RecordFrame
  <2>3. CASE StartAttach(c)
    <3> /\ UNCHANGED <<rec, chunk>>
        /\ pump' = IF pump = "off" THEN "read" ELSE pump
      BY <2>3 DEF StartAttach
    <3> QED BY DEF IInv, RecordKeepsUp, RecordedInOrder
  <2> QED BY <1>2, <2>1, <2>2, <2>3 DEF Handler
<1>3. CASE Shared(Writer(c))
  <2> UNCHANGED recordVars
    BY <1>3 DEF Shared, Writer, Deliver, Vanish, WriteFails, WriterEnds, pumpVars, recordVars
  <2> QED BY RecordFrame
<1>4. CASE Forwarder(c)
  <2> UNCHANGED recordVars
    BY <1>4 DEF Forwarder, TakeChunk, Cancelled, Queue, GiveUp, pumpVars, wsVars, recordVars
  <2> QED BY RecordFrame
<1> QED BY <1>1, <1>2, <1>3, <1>4

LEMMA NextIInv == IInv /\ [Next]_vars => IInv'
<1> SUFFICES ASSUME IInv, [Next]_vars PROVE IInv'
  OBVIOUS
<1>1. CASE Output \/ ContainerStops \/ CloseStream
  <2> UNCHANGED recordVars
    BY <1>1 DEF Output, ContainerStops, CloseStream, wsVars, recordVars
  <2> QED BY RecordFrame
<1>2. CASE Pump
  BY <1>2, PumpIInv
<1>3. CASE \E c \in Conns :
             \/ Shared(Dial(c)) \/ Shared(Leave(c)) \/ Shared(DeadlinePasses(c))
             \/ Handler(c) \/ Shared(Writer(c)) \/ Forwarder(c)
  BY <1>3, ConnectionIInv
<1>4. CASE UNCHANGED vars
  <2> UNCHANGED recordVars
    BY <1>4 DEF vars, wsVars, pumpVars, recordVars
  <2> QED BY RecordFrame
<1> QED BY <1>1, <1>2, <1>3, <1>4 DEF Next

\* However many browsers connect, fall behind and leave, and whenever, the recording of an
\* attach session is the container's output, every chunk once and in order (session.go:168-191).
THEOREM RecordingIsTheOutput == Spec => []RecordedInOrder
<1>1. IInv => RecordedInOrder
  BY DEF IInv
<1> QED BY <1>1, InitIInv, NextIInv, PTL DEF Spec

-----------------------------------------------------------------------------
(* Sequences of numbers *)

Elems(s) == {s[i] : i \in 1 .. Len(s)}
Distinct(s) == \A i, j \in 1 .. Len(s) : s[i] = s[j] => i = j
Increasing(s) == \A i, j \in 1 .. Len(s) : i < j => s[i] < s[j]

\* An increasing sequence begins with its least element.
LEMMA IncreasingTail ==
  ASSUME NEW S, NEW s \in Seq(S), s # <<>>, Increasing(s)
  PROVE  /\ Increasing(Tail(s))
         /\ Elems(s) = {Head(s)} \cup Elems(Tail(s))
         /\ \A x \in Elems(Tail(s)) : Head(s) < x
<1>1. /\ Len(s) \in Nat /\ Len(s) >= 1 /\ Head(s) = s[1] /\ Len(Tail(s)) = Len(s) - 1
      /\ \A j \in 1 .. Len(Tail(s)) : j + 1 \in 1 .. Len(s) /\ Tail(s)[j] = s[j + 1]
  BY RestOfQueue
<1>2. PICK t : t = Tail(s)
  OBVIOUS
<1>3. Increasing(t)
  BY <1>1, <1>2 DEF Increasing
<1>4. \A i \in 1 .. Len(s) : i = 1 \/ (i - 1 \in 1 .. Len(t) /\ s[i] = t[i - 1])
  BY <1>1, <1>2
<1>5. Elems(s) \subseteq {Head(s)} \cup Elems(t)
  BY <1>1, <1>4 DEF Elems
<1>6. {Head(s)} \cup Elems(t) \subseteq Elems(s)
  BY <1>1, <1>2 DEF Elems
<1>7. \A x \in Elems(t) : Head(s) < x
  BY <1>1, <1>2 DEF Elems, Increasing
<1> QED BY <1>2, <1>3, <1>5, <1>6, <1>7

\* It stays increasing when something larger than all of it is appended.
LEMMA IncreasingAppend ==
  ASSUME NEW S, NEW s \in Seq(S), NEW m \in S, Increasing(s), \A x \in Elems(s) : x < m
  PROVE  Increasing(Append(s, m)) /\ Elems(Append(s, m)) = Elems(s) \cup {m}
<1>1. PICK t : t = Append(s, m)
  OBVIOUS
<1>2. /\ Len(s) \in Nat /\ Len(t) = Len(s) + 1 /\ t[Len(s) + 1] = m
      /\ \A i \in 1 .. Len(s) : t[i] = s[i]
      /\ \A i \in 1 .. Len(t) : i \in 1 .. Len(s) \/ i = Len(s) + 1
  BY <1>1, LongerByOne
<1>3. ASSUME NEW i \in 1 .. Len(t), NEW j \in 1 .. Len(t), i < j PROVE t[i] < t[j]
  <2>1. i \in 1 .. Len(s)
    BY <1>2, <1>3
  <2>2. CASE j \in 1 .. Len(s)
    BY <1>2, <1>3, <2>1, <2>2 DEF Increasing
  <2>3. CASE j = Len(s) + 1
    BY <1>2, <2>1, <2>3 DEF Elems
  <2> QED BY <1>2, <2>2, <2>3
<1>4. Elems(t) \subseteq Elems(s) \cup {m}
  BY <1>2 DEF Elems
<1>5. Elems(s) \cup {m} \subseteq Elems(t)
  <2>1. \A i \in 1 .. Len(s) : i \in 1 .. Len(t)
    BY <1>2
  <2>2. Len(s) + 1 \in 1 .. Len(t)
    BY <1>2
  <2> QED BY <1>2, <2>1, <2>2 DEF Elems
<1> QED BY <1>1, <1>3, <1>4, <1>5 DEF Increasing

\* What is left of a sequence without repetitions when its head has gone.
LEMMA DistinctTail ==
  ASSUME NEW S, NEW s \in Seq(S), s # <<>>, Distinct(s)
  PROVE  /\ Tail(s) \in Seq(S) /\ Distinct(Tail(s)) /\ Head(s) \in S
         /\ Elems(Tail(s)) = Elems(s) \ {Head(s)} /\ Head(s) \in Elems(s)
<1>1. /\ Len(s) \in Nat /\ Len(s) >= 1 /\ Head(s) = s[1] /\ Head(s) \in S
      /\ Tail(s) \in Seq(S) /\ Len(Tail(s)) = Len(s) - 1
      /\ \A j \in 1 .. Len(Tail(s)) : j + 1 \in 1 .. Len(s) /\ Tail(s)[j] = s[j + 1]
  BY RestOfQueue
<1>2. PICK t : t = Tail(s)
  OBVIOUS
<1>3. Distinct(t)
  BY <1>1, <1>2 DEF Distinct
<1>4. \A i \in 1 .. Len(s) : i = 1 \/ (i - 1 \in 1 .. Len(t) /\ s[i] = t[i - 1])
  BY <1>1, <1>2
<1>5. Elems(s) \ {Head(s)} \subseteq Elems(t)
  BY <1>1, <1>4 DEF Elems
<1>6. Elems(t) \subseteq Elems(s) \ {Head(s)}
  <2>1. \A j \in 1 .. Len(t) : j + 1 \in 1 .. Len(s) /\ 1 \in 1 .. Len(s) /\ j + 1 # 1
    BY <1>1, <1>2
  <2>2. \A j \in 1 .. Len(t) : t[j] = s[j + 1] /\ t[j] # s[1]
    BY <1>1, <1>2, <2>1 DEF Distinct
  <2> QED BY <1>1, <2>1, <2>2 DEF Elems
<1>7. Head(s) \in Elems(s)
  BY <1>1 DEF Elems
<1> QED BY <1>1, <1>2, <1>3, <1>5, <1>6, <1>7

LEMMA DistinctAppend ==
  ASSUME NEW S, NEW s \in Seq(S), NEW m \in S, Distinct(s), m \notin Elems(s)
  PROVE  Distinct(Append(s, m)) /\ Elems(Append(s, m)) = Elems(s) \cup {m}
<1>1. PICK t : t = Append(s, m)
  OBVIOUS
<1>2. /\ Len(s) \in Nat /\ Len(t) = Len(s) + 1 /\ t[Len(s) + 1] = m
      /\ \A i \in 1 .. Len(s) : t[i] = s[i]
      /\ \A i \in 1 .. Len(t) : i \in 1 .. Len(s) \/ i = Len(s) + 1
  BY <1>1, LongerByOne
<1>3. Distinct(t)
  BY <1>2 DEF Distinct, Elems
<1>4. Elems(t) \subseteq Elems(s) \cup {m}
  BY <1>2 DEF Elems
<1>5. Elems(s) \cup {m} \subseteq Elems(t)
  <2>1. (\A i \in 1 .. Len(s) : i \in 1 .. Len(t)) /\ Len(s) + 1 \in 1 .. Len(t)
    BY <1>2
  <2> QED BY <1>2, <2>1 DEF Elems
<1> QED BY <1>1, <1>3, <1>4, <1>5

\* The loop of Unsubscribe finds the one place where the subscription is and closes the gap.
LEMMA DistinctRemove ==
  ASSUME NEW S, NEW s \in Seq(S), Distinct(s), NEW e \in Elems(s)
  PROVE  /\ RemoveFirst(s, e) \in Seq(S) /\ Distinct(RemoveFirst(s, e))
         /\ Elems(RemoveFirst(s, e)) = Elems(s) \ {e}
<1>1. PICK i \in 1 .. Len(s) : s[i] = e
  BY DEF Elems
<1>2. {j \in 1 .. Len(s) : s[j] = e} = {i}
  BY <1>1 DEF Distinct
<1>3. Min({i}) = i
  BY DEF Min
<1>4. SelectInSeq(s, LAMBDA v : v = e) = i
  BY <1>2, <1>3 DEF SelectInSeq
<1>5. RemoveFirst(s, e) = RemoveAt(s, i)
  BY <1>1, <1>4 DEF RemoveFirst
<1>6. PICK a : a = SubSeq(s, 1, i - 1)
  OBVIOUS
<1>7. PICK b : b = SubSeq(s, i + 1, Len(s))
  OBVIOUS
<1>8. PICK t : t = a \o b
  OBVIOUS
<1>9. /\ t \in Seq(S) /\ Len(s) \in Nat /\ Len(t) = Len(s) - 1
      /\ \A j \in 1 .. Len(t) : t[j] = s[IF j < i THEN j ELSE j + 1]
  <2>1. a \in Seq(S) /\ Len(a) = i - 1 /\ \A j \in 1 .. i - 1 : a[j] = s[j]
    BY <1>6
  <2>2. b \in Seq(S) /\ Len(b) = Len(s) - i /\ \A j \in 1 .. Len(s) - i : b[j] = s[i + j]
    BY <1>7
  <2>3. /\ t \in Seq(S) /\ Len(t) = Len(a) + Len(b)
        /\ \A j \in 1 .. Len(a) + Len(b) : t[j] = IF j <= Len(a) THEN a[j] ELSE b[j - Len(a)]
    <3>1. a \in Seq(S) /\ b \in Seq(S)
      BY <2>1, <2>2
    <3>2. t \in Seq(S) /\ Len(t) = Len(a) + Len(b)
      BY <1>8, <3>1
    <3>3. \A j \in 1 .. Len(a) + Len(b) : t[j] = IF j <= Len(a) THEN a[j] ELSE b[j - Len(a)]
      BY <1>8, <3>1
    <3> QED BY <3>2, <3>3
  <2>4. Len(s) \in Nat /\ Len(t) = Len(s) - 1
    BY <2>1, <2>2, <2>3
  <2>5. ASSUME NEW j \in 1 .. Len(t), j < i PROVE t[j] = s[j]
    BY <2>1, <2>3, <2>4, <2>5
  <2>6. ASSUME NEW j \in 1 .. Len(t), ~(j < i) PROVE t[j] = s[j + 1]
    <3>1. j - (i - 1) \in 1 .. Len(s) - i /\ i + (j - (i - 1)) = j + 1
      BY <2>4, <2>6
    <3> QED BY <2>1, <2>2, <2>3, <2>4, <2>6, <3>1
  <2> QED BY <2>3, <2>4, <2>5, <2>6
<1>10. ASSUME NEW j \in 1 .. Len(t)
       PROVE  /\ (IF j < i THEN j ELSE j + 1) \in 1 .. Len(s)
              /\ (IF j < i THEN j ELSE j + 1) # i
  <2>1. Len(s) \in Nat /\ Len(t) = Len(s) - 1
    BY <1>9
  <2>2. CASE j < i
    BY <2>1, <2>2
  <2>3. CASE ~(j < i)
    BY <2>1, <2>3
  <2> QED BY <2>2, <2>3
<1>11. Distinct(t)
  BY <1>9, <1>10 DEF Distinct
<1>12. Elems(t) \subseteq Elems(s) \ {e}
  BY <1>1, <1>9, <1>10 DEF Elems, Distinct
<1>13. Elems(s) \ {e} \subseteq Elems(t)
  <2> SUFFICES ASSUME NEW k \in 1 .. Len(s), s[k] # e PROVE s[k] \in Elems(t)
    BY DEF Elems
  <2>1. CASE k < i
    BY <1>9, <2>1 DEF Elems
  <2>2. CASE k > i
    <3>1. k - 1 \in 1 .. Len(t) /\ ~(k - 1 < i) /\ (k - 1) + 1 = k
      BY <1>9, <2>2
    <3>2. t[k - 1] = s[k]
      BY <1>9, <3>1
    <3> QED BY <3>1, <3>2 DEF Elems
  <2> QED BY <1>1, <2>1, <2>2
<1> QED BY <1>5, <1>6, <1>7, <1>8, <1>9, <1>11, <1>12, <1>13 DEF RemoveAt

-----------------------------------------------------------------------------
(* The way of a chunk to the browsers *)

Below(X, Y) == \A x \in X, y \in Y : x < y

\* The stations of connection c: what came after the snapshot, what is in writeCh, in the hands
\* of the forwarder and in the subscription's channel, and the chunk Broadcast has yet to offer.
Sent(c) == {got[c][i] : i \in Len(snapshot[c]) + 1 .. Len(got[c])}
Queued(c) == Elems(writeCh[c])
InHand(c) == IF forwarder[c] = "send" THEN {held[c]} ELSE {}
Waiting(c) == Elems(subCh[c])
Coming(c) ==
  IF pump \in {"record", "copy"} \/ (pump = "send" /\ c \in Elems(audience)) THEN {chunk} ELSE {}

\* Older chunks are further on.
InLine(G, W, H, S, A) ==
  /\ Below(G, W) /\ Below(G, H) /\ Below(G, S) /\ Below(G, A)
  /\ Below(W, H) /\ Below(W, S) /\ Below(W, A)
  /\ Below(H, S) /\ Below(H, A)
  /\ Below(S, A)

Under(c) == Sent(c) \cup Queued(c) \cup InHand(c) \cup Waiting(c)

\* What is under way has been read, and is not older than the end of the snapshot.
Bounds(c) ==
  /\ \A x \in Under(c) : Len(snapshot[c]) <= x /\ x <= chunk
  /\ \A x \in Coming(c) : Len(snapshot[c]) <= x

InOrder(c) ==
  /\ InLine(Sent(c), Queued(c), InHand(c), Waiting(c), Coming(c))
  /\ \A i, j \in Len(snapshot[c]) + 1 .. Len(got[c]) : i < j => got[c][i] < got[c][j]
  /\ Increasing(writeCh[c]) /\ Increasing(subCh[c])

\* The snapshot is the beginning of the recording.
Snapshot(c) ==
  Len(snapshot[c]) <= Len(rec) /\ \A i \in 1 .. Len(snapshot[c]) : snapshot[c][i] = i

\* Nothing is on its way to a connection that has not subscribed.
Unsubscribed(c) ==
  /\ handler[c] \in {"idle", "flush", "start"} => subCh[c] = <<>> /\ c \notin Elems(audience)
  /\ handler[c] \in {"idle", "flush", "start", "subscribed"} => forwarder[c] = "idle"

Flow(c) == Unsubscribed(c) /\ Snapshot(c) /\ Bounds(c) /\ InOrder(c)

\* Broadcast's list names each subscriber once, and only while Broadcast runs.
Audience ==
  /\ pump # "send" => audience = <<>>
  /\ Distinct(audience)
  /\ pump \in {"record", "copy", "send"} => chunk >= 1

Served ==
  /\ \A c \in Conns :
       c \in Elems(subscribers) <=> handler[c] \in {"subscribed", "reading", "waiting"}
  /\ Distinct(subscribers)

FlowInv ==
  /\ TypeOK /\ Connections /\ IInv
  /\ Audience /\ Served
  /\ \A c \in Conns : Flow(c)

\* The rest of what belongs to connection c.
SameSub(c) == subCh'[c] = subCh[c] /\ forwarder'[c] = forwarder[c] /\ held'[c] = held[c]

LEMMA Fewer ==
  ASSUME NEW G, NEW W, NEW H, NEW S, NEW A, InLine(G, W, H, S, A),
         NEW G2 \in SUBSET G, NEW W2 \in SUBSET W, NEW H2 \in SUBSET H, NEW S2 \in SUBSET S,
         NEW A2 \in SUBSET A
  PROVE  InLine(G2, W2, H2, S2, A2)
BY DEF InLine, Below

\* What one connection's values are.
LEMMA FlowValues ==
  ASSUME TypeOK, NEW c \in Conns
  PROVE  /\ WSTypeOK /\ rec \in Seq(Chunks) /\ Len(rec) \in Nat
         /\ snapshot[c] \in Seq(Chunks) /\ Len(snapshot[c]) \in Nat
         /\ got[c] \in Seq(Messages) /\ Len(got[c]) \in Nat
         /\ writeCh[c] \in Seq(Messages) /\ subCh[c] \in Seq(Chunks)
         /\ audience \in Seq(Conns) /\ subscribers \in Seq(Conns)
         /\ printed \in Nat /\ chunk \in Nat /\ chunk <= printed /\ printed <= MaxOutput
         /\ held[c] \in 0 .. MaxOutput /\ held[c] \in Messages
         /\ \A x \in Under(c) : x \in Int
<1>1. WSTypeOK /\ snapshot[c] \in Seq(Chunks) /\ got[c] \in Seq(Messages)
      /\ writeCh[c] \in Seq(Messages) /\ rec \in Seq(Chunks)
  BY DEF TypeOK, WSTypeOK
<1>2. /\ subCh[c] \in Seq(Chunks) /\ audience \in Seq(Conns) /\ subscribers \in Seq(Conns)
      /\ printed \in Nat /\ chunk \in Nat /\ chunk <= printed /\ printed <= MaxOutput
      /\ held[c] \in 0 .. MaxOutput
  BY MaxOutputAssumption DEF TypeOK
<1>3. held[c] \in Messages
  BY <1>2, MaxOutputAssumption DEF Messages, Chunks, Exit
<1>4. \A x \in Sent(c) : x \in Int
  <2>1. \A i \in 1 .. Len(got[c]) : got[c][i] \in Int
    BY <1>1, MaxOutputAssumption DEF Messages, Chunks, Exit
  <2>2. \A i \in Len(snapshot[c]) + 1 .. Len(got[c]) : i \in 1 .. Len(got[c])
    BY <1>1
  <2> QED BY <2>1, <2>2 DEF Sent
<1>5. \A x \in Queued(c) : x \in Int
  BY <1>1, MaxOutputAssumption DEF Queued, Elems, Messages, Chunks, Exit
<1>6. \A x \in Waiting(c) : x \in Int
  BY <1>2, MaxOutputAssumption DEF Waiting, Elems, Chunks
<1>7. \A x \in InHand(c) : x \in Int
  BY <1>2, MaxOutputAssumption DEF InHand
<1> QED BY <1>1, <1>2, <1>3, <1>4, <1>5, <1>6, <1>7 DEF Under

\* A connection that a step leaves alone, although the pump may have moved on.
LEMMA FlowFrame ==
  ASSUME TypeOK, NEW c \in Conns, Flow(c), SameWS(c), SameSub(c), Coming(c)' \subseteq Coming(c),
         handler[c] \in {"idle", "flush", "start"} /\ c \notin Elems(audience)
           => c \notin Elems(audience'),
         chunk' = chunk, Len(rec) <= Len(rec'), Len(rec') \in Nat
  PROVE  Flow(c)'
<1>1. Sent(c)' = Sent(c) /\ Queued(c)' = Queued(c) /\ InHand(c)' = InHand(c)
      /\ Waiting(c)' = Waiting(c)
  BY DEF SameWS, SameSub, Sent, Queued, InHand, Waiting
<1>2. InLine(Sent(c), Queued(c), InHand(c), Waiting(c), Coming(c)')
  BY Fewer DEF Flow, InOrder
<1>3. InOrder(c)'
  BY <1>1, <1>2 DEF Flow, InOrder, SameWS, SameSub
<1>4. Bounds(c)'
  BY <1>1 DEF Flow, Bounds, Under, SameWS
<1>5. Snapshot(c)'
  BY FlowValues DEF Flow, Snapshot, SameWS
<1>6. Unsubscribed(c)'
  BY DEF Flow, Unsubscribed, SameWS, SameSub
<1> QED BY <1>3, <1>4, <1>5, <1>6 DEF Flow

\* A step of the rest of the world: nothing of this changes.
LEMMA FlowStill ==
  ASSUME FlowInv, IInv', TypeOK', UNCHANGED <<wsVars, subVars, pump, chunk, audience>>
  PROVE  FlowInv'
<1>1. \A c \in Conns : SameWS(c) /\ SameSub(c) /\ Coming(c)' = Coming(c)
  BY DEF wsVars, subVars, SameWS, SameSub, Coming
<1>2. TypeOK /\ Len(rec) \in Nat /\ rec' = rec /\ audience' = audience /\ chunk' = chunk
  BY DEF FlowInv, TypeOK, WSTypeOK, wsVars
<1>3. Connections'
  BY <1>1, ConnectionFrame DEF FlowInv, Connections, TypeOK
<1>4. Audience' /\ Served'
  BY DEF FlowInv, Audience, Served, wsVars, subVars
<1>5. ASSUME NEW c \in Conns PROVE Flow(c)'
  <2>1. Flow(c)
    BY DEF FlowInv
  <2>2. Len(rec) <= Len(rec') /\ Len(rec') \in Nat
    BY <1>2
  <2> QED BY <1>1, <1>2, <2>1, <2>2, FlowFrame
<1> QED BY <1>3, <1>4, <1>5 DEF FlowInv

\* A step of one connection that leaves the pump alone.
LEMMA OneFlow ==
  ASSUME FlowInv, IInv', TypeOK', Connections', Served', NEW c \in Conns, Flow(c)',
         rec' = rec, UNCHANGED <<chunk, audience>>, pump' = pump \/ (pump = "off" /\ pump' = "read"),
         \A d \in Conns \ {c} : SameWS(d) /\ SameSub(d)
  PROVE  FlowInv'
<1>1. TypeOK /\ Len(rec) <= Len(rec') /\ Len(rec') \in Nat
  <2>1. rec \in Seq(Chunks)
    BY DEF FlowInv, TypeOK, WSTypeOK
  <2> QED BY <2>1 DEF FlowInv
<1>2. Audience'
  BY DEF FlowInv, Audience
<1>3. ASSUME NEW d \in Conns \ {c} PROVE Flow(d)'
  <2>1. Flow(d) /\ Coming(d)' \subseteq Coming(d) /\ SameWS(d) /\ SameSub(d)
    BY DEF FlowInv, Coming
  <2> QED BY <1>1, <2>1, FlowFrame
<1> QED BY <1>2, <1>3 DEF FlowInv

\* The browser, the clock, the flush, the read loop and the write goroutine.
LEMMA FlowShared ==
  ASSUME FlowInv, IInv', NEW c \in Conns, WSStep(c), UNCHANGED <<pumpVars, subVars>>
  PROVE  FlowInv'
<1>1. /\ TypeOK /\ WSTypeOK /\ Connections /\ Connections' /\ WSTypeOK' /\ Before(c)
      /\ FlushFirst(c) /\ Flow(c) /\ Served /\ Audience
      /\ \A d \in Conns : SameSub(d) /\ Coming(d)' = Coming(d)
      /\ UNCHANGED <<pump, chunk, audience, subscribers, forwarder, subCh, held>>
  BY SharedKeepsConnections DEF FlowInv, Connections, pumpVars, subVars, SameSub, Coming
<1>2. TypeOK'
  BY <1>1 DEF TypeOK, pumpVars, subVars
<1>3. ASSUME Flow(c)', rec' = rec, \A d \in Conns \ {c} : SameWS(d),
             handler'[c] \in {"subscribed", "reading", "waiting"}
               <=> handler[c] \in {"subscribed", "reading", "waiting"}
      PROVE  FlowInv'
  <2>1. Served'
    BY <1>1, <1>3 DEF Served, SameWS
  <2> QED BY <1>1, <1>2, <1>3, <2>1, OneFlow
<1>4. Waiting(c)' = Waiting(c) /\ InHand(c)' = InHand(c)
  BY <1>1 DEF Waiting, InHand
<1>5. CASE Dial(c)
  <2>1. /\ handler[c] = "idle" /\ handler'[c] = "flush" /\ snapshot'[c] = rec /\ rec' = rec
        /\ writeCh'[c] = writeCh[c] /\ got'[c] = got[c]
    BY <1>1, <1>5, DialHere
  <2>2. writeCh[c] = <<>> /\ got[c] = <<>> /\ subCh[c] = <<>> /\ forwarder[c] = "idle"
    BY <1>1, <2>1 DEF Before, Flow, Unsubscribed
  <2>3. /\ Sent(c)' = {} /\ Queued(c)' = {} /\ InHand(c)' = {} /\ Waiting(c)' = {}
    BY <1>1, <2>1, <2>2, FlowValues DEF Sent, Queued, InHand, Waiting, Elems
  <2>4. InOrder(c)'
    BY <1>1, <2>1, <2>2, <2>3, FlowValues DEF InOrder, InLine, Below, Increasing
  <2>5. Bounds(c)'
    <3>1. \A x \in Coming(c) : Len(rec) <= x
      BY FlowValues DEF FlowInv, IInv, RecordKeepsUp, Coming
    <3> QED BY <1>1, <2>1, <2>3, <3>1 DEF Bounds, Under
  <2>6. Snapshot(c)'
    BY <1>1, <2>1, FlowValues DEF Snapshot, FlowInv, IInv, RecordedInOrder
  <2>7. Unsubscribed(c)'
    BY <1>1, <2>1 DEF Unsubscribed, Flow
  <2>8. Flow(c)'
    BY <2>4, <2>5, <2>6, <2>7 DEF Flow
  <2> QED BY <1>1, <1>3, <1>5, <2>1, <2>8, DialHere
<1>6. CASE FlushEvents(c)
  <2>1. /\ handler[c] = "flush" /\ handler'[c] = "start" /\ snapshot'[c] = snapshot[c] /\ rec' = rec
        /\ writeCh'[c] = writeCh[c] /\ Len(got'[c]) <= Len(snapshot[c])
    BY <1>1, <1>6, FlushHere
  <2>2. writeCh[c] = <<>> /\ subCh[c] = <<>> /\ forwarder[c] = "idle"
    BY <1>1, <2>1 DEF Before, Flow, Unsubscribed
  <2>3. Len(got'[c]) \in Nat
    BY <1>1, ConnValues DEF WSTypeOK
  <2>4. /\ Sent(c)' = {} /\ Queued(c)' = {} /\ InHand(c)' = {} /\ Waiting(c)' = {}
    BY <1>1, <2>1, <2>2, <2>3, FlowValues DEF Sent, Queued, InHand, Waiting, Elems
  <2>5. InOrder(c)'
    BY <1>1, <2>1, <2>2, <2>3, <2>4, FlowValues DEF InOrder, InLine, Below, Increasing
  <2>6. Bounds(c)' /\ Snapshot(c)' /\ Unsubscribed(c)'
    BY <1>1, <2>1, <2>4 DEF Bounds, Under, Snapshot, Unsubscribed, Flow
  <2>7. Flow(c)'
    BY <2>5, <2>6 DEF Flow
  <2> QED BY <1>1, <1>3, <1>6, <2>1, <2>7, FlushHere
<1>7. CASE Leave(c) \/ DeadlinePasses(c) \/ ReadFails(c)
  <2>1. /\ snapshot'[c] = snapshot[c] /\ writeCh'[c] = writeCh[c] /\ got'[c] = got[c] /\ rec' = rec
        /\ handler'[c] = handler[c] \/ (handler[c] = "reading" /\ handler'[c] = "waiting")
    BY <1>1, <1>7, ClockHere
  <2>2. Sent(c)' = Sent(c) /\ Queued(c)' = Queued(c)
    BY <2>1 DEF Sent, Queued
  <2>3. Flow(c)'
    BY <1>1, <1>4, <2>1, <2>2 DEF Flow, InOrder, Bounds, Under, Snapshot, Unsubscribed
  <2> QED BY <1>1, <1>3, <1>7, <2>1, <2>3, ClockHere
<1>8. CASE Writer(c)
  <2>1. /\ handler'[c] = handler[c] /\ snapshot'[c] = snapshot[c] /\ rec' = rec
        /\ writer[c] = "running"
        /\ \/ /\ writeCh[c] # <<>> /\ writeCh'[c] = Tail(writeCh[c]) /\ deadline[c] # "passed"
              /\ got'[c] = Append(got[c], Head(writeCh[c]))
           \/ /\ writeCh[c] # <<>> /\ writeCh'[c] = Tail(writeCh[c]) /\ got'[c] = got[c]
           \/ writeCh'[c] = writeCh[c] /\ got'[c] = got[c]
    BY <1>1, <1>8, WriterHere
  <2>2. ASSUME InOrder(c)', Bounds(c)' PROVE FlowInv'
    <3>1. Snapshot(c)' /\ Unsubscribed(c)'
      BY <1>1, <2>1 DEF Flow, Snapshot, Unsubscribed
    <3> QED BY <1>1, <1>3, <1>8, <2>1, <2>2, <3>1, WriterHere DEF Flow
  <2>3. CASE writeCh'[c] = writeCh[c] /\ got'[c] = got[c]
    <3>1. InOrder(c)' /\ Bounds(c)'
      BY <1>1, <1>4, <2>1, <2>3 DEF Flow, InOrder, Bounds, Under, Sent, Queued
    <3> QED BY <2>2, <3>1
  <2>4. ASSUME writeCh[c] # <<>>, writeCh'[c] = Tail(writeCh[c])
        PROVE  /\ Increasing(writeCh'[c])
               /\ Queued(c) = {Head(writeCh[c])} \cup Queued(c)'
               /\ \A x \in Queued(c)' : Head(writeCh[c]) < x
    BY <1>1, <2>4, FlowValues, IncreasingTail DEF Flow, InOrder, Queued
  <2>5. CASE writeCh[c] # <<>> /\ writeCh'[c] = Tail(writeCh[c]) /\ got'[c] = got[c]
    <3>1. Sent(c)' = Sent(c) /\ Queued(c)' \subseteq Queued(c)
      BY <2>1, <2>4, <2>5 DEF Sent
    <3>2. InLine(Sent(c), Queued(c)', InHand(c), Waiting(c), Coming(c))
      BY <1>1, <3>1, Fewer DEF Flow, InOrder
    <3>3. InOrder(c)' /\ Bounds(c)'
      BY <1>1, <1>4, <2>1, <2>4, <2>5, <3>1, <3>2 DEF Flow, InOrder, Bounds, Under
    <3> QED BY <2>2, <3>3
  <2>6. CASE /\ writeCh[c] # <<>> /\ writeCh'[c] = Tail(writeCh[c]) /\ deadline[c] # "passed"
             /\ got'[c] = Append(got[c], Head(writeCh[c]))
    <3>1. PICK x : x = Head(writeCh[c])
      OBVIOUS
    <3>2. /\ Len(got'[c]) = Len(got[c]) + 1 /\ got'[c][Len(got[c]) + 1] = x
          /\ \A i \in 1 .. Len(got[c]) : got'[c][i] = got[c][i]
      BY <1>1, <2>6, <3>1, FlowValues, RestOfQueue, LongerByOne
    <3>3. /\ Len(got[c]) \in Nat /\ Len(snapshot[c]) \in Nat /\ Len(got[c]) >= Len(snapshot[c])
      BY <1>1, <2>1, <2>6, FlowValues DEF FlushFirst, Before
    <3>4. \A i \in Len(snapshot[c]) + 1 .. Len(got'[c]) :
            \/ i \in Len(snapshot[c]) + 1 .. Len(got[c]) /\ i \in 1 .. Len(got[c])
            \/ i = Len(got[c]) + 1
      BY <3>2, <3>3
    <3>5. /\ \A i \in Len(snapshot[c]) + 1 .. Len(got[c]) : i \in Len(snapshot[c]) + 1 .. Len(got'[c])
          /\ Len(got[c]) + 1 \in Len(snapshot[c]) + 1 .. Len(got'[c])
      BY <3>2, <3>3
    <3>6. Sent(c)' \subseteq Sent(c) \cup {x}
      BY <2>1, <3>2, <3>4 DEF Sent
    <3>7. x \in Queued(c) /\ Queued(c)' \subseteq Queued(c) /\ \A y \in Queued(c)' : x < y
      BY <2>4, <2>6, <3>1
    <3>8. InLine(Sent(c)', Queued(c)', InHand(c), Waiting(c), Coming(c))
      BY <1>1, <3>6, <3>7 DEF Flow, InOrder, InLine, Below
    <3>9. ASSUME NEW i \in Len(snapshot[c]) + 1 .. Len(got'[c]),
                 NEW j \in Len(snapshot[c]) + 1 .. Len(got'[c]), i < j
          PROVE  got'[c][i] < got'[c][j]
      <4>1. i \in Len(snapshot[c]) + 1 .. Len(got[c]) /\ i \in 1 .. Len(got[c])
        BY <3>2, <3>3, <3>9
      <4>2. CASE j \in Len(snapshot[c]) + 1 .. Len(got[c]) /\ j \in 1 .. Len(got[c])
        BY <1>1, <3>2, <3>9, <4>1, <4>2 DEF Flow, InOrder
      <4>3. CASE j = Len(got[c]) + 1
        <5>1. got[c][i] \in Sent(c)
          BY <4>1 DEF Sent
        <5>2. got[c][i] < x
          BY <1>1, <3>7, <5>1 DEF Flow, InOrder, InLine, Below
        <5> QED BY <3>2, <4>1, <4>3, <5>2
      <4> QED BY <3>4, <4>2, <4>3
    <3>10. InOrder(c)'
      BY <1>1, <1>4, <2>1, <2>4, <2>6, <3>8, <3>9 DEF Flow, InOrder
    <3>11. Bounds(c)'
      BY <1>1, <1>4, <2>1, <3>6, <3>7 DEF Flow, Bounds, Under
    <3> QED BY <2>2, <3>10, <3>11
  <2> QED BY <2>1, <2>3, <2>5, <2>6
<1> QED BY <1>5, <1>6, <1>7, <1>8 DEF WSStep

-----------------------------------------------------------------------------
(* The steps of an attach session *)

LEMMA FlowStarts == Init => FlowInv
<1> SUFFICES ASSUME Init PROVE FlowInv
  OBVIOUS
<1>1. TypeOK
  BY SubCapAssumption, ChCapAssumption, MaxOutputAssumption DEF Init, WSInit, TypeOK, WSTypeOK
<1>2. Connections /\ IInv
  BY ConnectionsStart, InitIInv DEF Init
<1>3. Audience /\ Served
  BY DEF Init, WSInit, Audience, Served, Distinct, Elems
<1>4. ASSUME NEW c \in Conns PROVE Flow(c)
  <2>1. /\ got[c] = <<>> /\ snapshot[c] = <<>> /\ writeCh[c] = <<>> /\ subCh[c] = <<>>
        /\ forwarder[c] = "idle" /\ pump = "off" /\ rec = <<>> /\ audience = <<>>
    BY DEF Init, WSInit
  <2>2. Sent(c) = {} /\ Queued(c) = {} /\ InHand(c) = {} /\ Waiting(c) = {} /\ Coming(c) = {}
    BY <2>1 DEF Sent, Queued, InHand, Waiting, Coming, Elems
  <2>3. InOrder(c) /\ Bounds(c)
    BY <2>1, <2>2 DEF InOrder, InLine, Below, Increasing, Bounds, Under
  <2>4. Snapshot(c) /\ Unsubscribed(c)
    BY <2>1 DEF Snapshot, Unsubscribed, Elems
  <2> QED BY <2>3, <2>4 DEF Flow
<1> QED BY <1>1, <1>2, <1>3, <1>4 DEF FlowInv

\* The container prints or stops, and evict closes the stream.
LEMMA FlowOutside ==
  ASSUME FlowInv, IInv', Output \/ ContainerStops \/ CloseStream \/ UNCHANGED vars
  PROVE  FlowInv'
<1>1. /\ UNCHANGED <<wsVars, subVars, pump, chunk, audience>>
      /\ printed' = printed \/ (printed < MaxOutput /\ printed' = printed + 1)
      /\ stream' \in {stream, "exited", "closed"}
  BY DEF Output, ContainerStops, CloseStream, vars, pumpVars
<1>2. printed' \in 0 .. MaxOutput /\ chunk' \in 0 .. printed'
  BY <1>1, MaxOutputAssumption DEF FlowInv, TypeOK
<1>3. WSTypeOK'
  BY <1>1 DEF FlowInv, TypeOK, WSTypeOK, wsVars
<1>4. TypeOK'
  BY <1>1, <1>2, <1>3 DEF FlowInv, TypeOK, subVars
<1> QED BY <1>1, <1>4, FlowStill

\* The handler subscribes, starts the goroutines, or returns.
LEMMA FlowHandler ==
  ASSUME FlowInv, IInv', NEW c \in Conns, Subscribe(c) \/ StartAttach(c) \/ Return(c)
  PROVE  FlowInv'
<1>1. /\ TypeOK /\ WSTypeOK /\ Connections /\ Served /\ Audience /\ Before(c) /\ FlushFirst(c)
      /\ Flow(c)
  BY DEF FlowInv, Connections
<1>2. /\ UNCHANGED <<rec, client, snapshot, deadline, writeCh, closed, got, printed, stream,
                     chunk, audience, subCh, held>>
      /\ pump' = pump \/ (pump = "off" /\ pump' = "read")
      /\ \/ handler[c] = "start" /\ handler' = [handler EXCEPT ![c] = "subscribed"]
         \/ handler[c] = "subscribed" /\ handler' = [handler EXCEPT ![c] = "reading"]
         \/ handler[c] = "waiting" /\ handler' = [handler EXCEPT ![c] = "returned"]
  BY DEF Subscribe, StartAttach, Return, HandlerStep, pumpVars
<1>3. /\ handler' \in [Conns -> {"idle", "flush", "start", "subscribed", "reading", "waiting",
                                 "returned"}]
      /\ \A d \in Conns \ {c} : handler'[d] = handler[d]
      /\ \/ handler[c] = "start" /\ handler'[c] = "subscribed"
         \/ handler[c] = "subscribed" /\ handler'[c] = "reading"
         \/ handler[c] = "waiting" /\ handler'[c] = "returned"
  BY <1>1, <1>2 DEF WSTypeOK
<1>4. FlushFirst(c)'
  BY <1>1, <1>2, <1>3, AfterFlush
<1>5. ASSUME TypeOK', Served', Before(c)', Unsubscribed(c)', InHand(c)' = InHand(c),
             \A d \in Conns \ {c} : SameWS(d) /\ SameSub(d)
      PROVE  FlowInv'
  <2>1. Connections'
    BY <1>1, <1>4, <1>5, ConnectionFrame DEF Connections, TypeOK
  <2>2. /\ Sent(c)' = Sent(c) /\ Queued(c)' = Queued(c) /\ Waiting(c)' = Waiting(c)
        /\ Coming(c)' = Coming(c)
    BY <1>2 DEF Sent, Queued, Waiting, Coming
  <2>3. InOrder(c)' /\ Bounds(c)' /\ Snapshot(c)'
    BY <1>1, <1>2, <1>5, <2>2 DEF Flow, InOrder, Bounds, Under, Snapshot
  <2>4. Flow(c)'
    BY <1>5, <2>3 DEF Flow
  <2> QED BY <1>2, <1>5, <2>1, <2>4, OneFlow
<1>6. CASE Subscribe(c)
  <2>1. /\ handler[c] = "start" /\ handler'[c] = "subscribed" /\ writer' = writer /\ pump' = pump
        /\ subscribers' = Append(subscribers, c) /\ UNCHANGED <<cancelled, forwarder>>
    BY <1>3, <1>6 DEF Subscribe, HandlerStep, pumpVars
  <2>2. PICK s : s = Append(subscribers, c)
    OBVIOUS
  <2>3. /\ s \in Seq(Conns) /\ Distinct(s) /\ Elems(s) = Elems(subscribers) \cup {c}
    BY <1>1, <2>1, <2>2, FlowValues, DistinctAppend, LongerByOne DEF Served
  <2>4. TypeOK'
    BY <1>1, <1>2, <1>3, <2>1, <2>2, <2>3 DEF TypeOK, WSTypeOK
  <2>5. Served'
    BY <1>1, <1>3, <2>1, <2>2, <2>3 DEF Served
  <2>6. Before(c)' /\ Unsubscribed(c)' /\ InHand(c)' = InHand(c)
    BY <1>1, <1>2, <2>1 DEF Before, Flow, Unsubscribed, InHand
  <2>7. \A d \in Conns \ {c} : SameWS(d) /\ SameSub(d)
    BY <1>2, <1>3, <2>1 DEF SameWS, SameSub
  <2> QED BY <1>5, <2>4, <2>5, <2>6, <2>7
<1>7. CASE StartAttach(c)
  <2>1. /\ handler[c] = "subscribed" /\ handler'[c] = "reading"
        /\ writer' = [writer EXCEPT ![c] = "running"]
        /\ forwarder' = [forwarder EXCEPT ![c] = "select"] /\ UNCHANGED <<cancelled, subscribers>>
    BY <1>3, <1>7 DEF StartAttach, HandlerStep
  <2>2. /\ writer' \in [Conns -> {"idle", "running", "stopped"}]
        /\ forwarder' \in [Conns -> {"idle", "select", "send", "stopped"}]
        /\ forwarder'[c] = "select"
        /\ \A d \in Conns \ {c} : writer'[d] = writer[d] /\ forwarder'[d] = forwarder[d]
    BY <1>1, <2>1 DEF TypeOK, WSTypeOK
  <2>3. TypeOK'
    BY <1>1, <1>2, <1>3, <2>1, <2>2 DEF TypeOK, WSTypeOK
  <2>4. Served'
    BY <1>1, <1>3, <2>1 DEF Served
  <2>5. Before(c)' /\ Unsubscribed(c)' /\ InHand(c)' = InHand(c)
    BY <1>1, <2>1, <2>2 DEF Before, Flow, Unsubscribed, InHand
  <2>6. \A d \in Conns \ {c} : SameWS(d) /\ SameSub(d)
    BY <1>2, <1>3, <2>2 DEF SameWS, SameSub
  <2> QED BY <1>5, <2>3, <2>4, <2>5, <2>6
<1>8. CASE Return(c)
  <2>1. /\ handler[c] = "waiting" /\ handler'[c] = "returned" /\ writer' = writer /\ pump' = pump
        /\ subscribers' = RemoveFirst(subscribers, c) /\ cancelled' = cancelled \cup {c}
        /\ forwarder' = forwarder
    BY <1>3, <1>8 DEF Return, HandlerStep, pumpVars
  <2>2. PICK s : s = RemoveFirst(subscribers, c)
    OBVIOUS
  <2>3. c \in Elems(subscribers)
    BY <1>1, <2>1 DEF Served
  <2>4. /\ s \in Seq(Conns) /\ Distinct(s) /\ Elems(s) = Elems(subscribers) \ {c}
    BY <1>1, <2>2, <2>3, FlowValues, DistinctRemove DEF Served
  <2>5. TypeOK'
    BY <1>1, <1>2, <1>3, <2>1, <2>2, <2>4 DEF TypeOK, WSTypeOK
  <2>6. Served'
    BY <1>1, <1>3, <2>1, <2>2, <2>4 DEF Served
  <2>7. Before(c)' /\ Unsubscribed(c)' /\ InHand(c)' = InHand(c)
    BY <1>1, <1>2, <2>1 DEF Before, Flow, Unsubscribed, InHand
  <2>8. \A d \in Conns \ {c} : SameWS(d) /\ SameSub(d)
    BY <1>2, <1>3, <2>1 DEF SameWS, SameSub
  <2> QED BY <1>5, <2>5, <2>6, <2>7, <2>8
<1> QED BY <1>6, <1>7, <1>8

\* The forwarder takes a chunk from the subscription's channel, puts it into writeCh, or stops.
LEMMA FlowForwarder ==
  ASSUME FlowInv, IInv', NEW c \in Conns, Forwarder(c)
  PROVE  FlowInv'
<1>1. /\ TypeOK /\ WSTypeOK /\ Connections /\ Served /\ Before(c) /\ FlushFirst(c) /\ Flow(c)
  BY DEF FlowInv, Connections
<1>2. /\ UNCHANGED <<rec, client, handler, snapshot, deadline, writer, got, printed, stream, pump,
                     chunk, audience, subscribers, cancelled>>
      /\ forwarder[c] \in {"select", "send"}
  BY DEF Forwarder, TakeChunk, Cancelled, Queue, GiveUp, ForwarderStep, wsVars, pumpVars
<1>3. handler[c] \notin {"idle", "flush", "start", "subscribed"}
  BY <1>1, <1>2 DEF Flow, Unsubscribed
<1>4. Served' /\ Sent(c)' = Sent(c) /\ Coming(c)' = Coming(c)
  BY <1>1, <1>2 DEF Served, Sent, Coming
<1>5. ASSUME TypeOK', InOrder(c)', Under(c)' \subseteq Under(c),
             \A d \in Conns \ {c} : SameWS(d) /\ SameSub(d)
      PROVE  FlowInv'
  <2>1. Before(c)' /\ FlushFirst(c)'
    BY <1>1, <1>2, <1>3, AfterFlush DEF Before
  <2>2. Connections'
    BY <1>1, <1>5, <2>1, ConnectionFrame DEF Connections, TypeOK
  <2>3. Snapshot(c)' /\ Unsubscribed(c)'
    BY <1>1, <1>2, <1>3 DEF Flow, Snapshot, Unsubscribed
  <2>4. Bounds(c)'
    BY <1>1, <1>2, <1>4, <1>5 DEF Flow, Bounds
  <2>5. Flow(c)'
    BY <1>5, <2>3, <2>4 DEF Flow
  <2> QED BY <1>2, <1>4, <1>5, <2>2, <2>5, OneFlow
<1>6. CASE TakeChunk(c)
  <2>1. PICK x, s : x = Head(subCh[c]) /\ s = Tail(subCh[c])
    OBVIOUS
  <2>2. /\ x \in Chunks /\ s \in Seq(Chunks) /\ Len(s) <= SubCap
        /\ Increasing(s) /\ Waiting(c) = {x} \cup Elems(s) /\ \A y \in Elems(s) : x < y
    <3>1. subCh[c] # <<>> /\ Len(subCh[c]) <= SubCap /\ subCh[c] \in Seq(Chunks)
      BY <1>1, <1>6 DEF TakeChunk, TypeOK
    <3>2. x \in Chunks /\ s \in Seq(Chunks) /\ Len(s) = Len(subCh[c]) - 1 /\ Len(subCh[c]) \in Nat
      BY <2>1, <3>1, RestOfQueue
    <3>3. Len(s) <= SubCap
      BY <3>1, <3>2, SubCapAssumption
    <3>4. Increasing(s) /\ Waiting(c) = {x} \cup Elems(s) /\ \A y \in Elems(s) : x < y
      BY <1>1, <2>1, <3>1, IncreasingTail DEF Flow, InOrder, Waiting
    <3> QED BY <3>2, <3>3, <3>4
  <2>3. /\ forwarder[c] = "select" /\ forwarder' = [forwarder EXCEPT ![c] = "send"]
        /\ held' = [held EXCEPT ![c] = x] /\ subCh' = [subCh EXCEPT ![c] = s]
        /\ UNCHANGED <<writeCh, closed>>
    BY <1>6, <2>1 DEF TakeChunk, ForwarderStep, wsVars
  <2>4. /\ forwarder' \in [Conns -> {"idle", "select", "send", "stopped"}]
        /\ held' \in [Conns -> 0 .. MaxOutput]
        /\ subCh' \in [Conns -> Seq(Chunks)] /\ \A d \in Conns : Len(subCh'[d]) <= SubCap
        /\ forwarder'[c] = "send" /\ held'[c] = x /\ subCh'[c] = s
        /\ \A d \in Conns \ {c} : forwarder'[d] = forwarder[d] /\ held'[d] = held[d]
                                 /\ subCh'[d] = subCh[d]
    BY <1>1, <2>2, <2>3, MaxOutputAssumption DEF TypeOK, Chunks
  <2>5. TypeOK'
    BY <1>1, <1>2, <2>3, <2>4 DEF TypeOK, WSTypeOK
  <2>6. Queued(c)' = Queued(c) /\ InHand(c) = {} /\ InHand(c)' = {x} /\ Waiting(c)' = Elems(s)
    BY <2>3, <2>4 DEF Queued, InHand, Waiting
  <2>7. InLine(Sent(c)', Queued(c)', InHand(c)', Waiting(c)', Coming(c)')
    BY <1>1, <1>4, <2>2, <2>6 DEF Flow, InOrder, InLine, Below
  <2>8. InOrder(c)'
    BY <1>1, <1>2, <2>2, <2>3, <2>4, <2>7 DEF Flow, InOrder
  <2>9. Under(c)' \subseteq Under(c)
    BY <1>4, <2>2, <2>6 DEF Under
  <2> QED BY <1>2, <1>5, <2>3, <2>4, <2>5, <2>8, <2>9 DEF SameWS, SameSub
<1>7. CASE Queue(c)
  <2>1. PICK s : s = Append(writeCh[c], held[c])
    OBVIOUS
  <2>2. /\ forwarder[c] = "send" /\ forwarder' = [forwarder EXCEPT ![c] = "select"]
        /\ writeCh' = [writeCh EXCEPT ![c] = s] /\ Len(writeCh[c]) < ChCap
        /\ UNCHANGED <<held, subCh, closed>>
    BY <1>7, <2>1 DEF Queue, ForwarderStep, Offer
  <2>3. InHand(c) = {held[c]} /\ \A y \in Queued(c) : y < held[c]
    BY <1>1, <2>2 DEF InHand, Flow, InOrder, InLine, Below
  <2>4. /\ s \in Seq(Messages) /\ Len(s) <= ChCap
        /\ Increasing(s) /\ Elems(s) = Queued(c) \cup {held[c]}
    <3>1. writeCh[c] \in Seq(Messages) /\ held[c] \in Messages /\ Increasing(writeCh[c])
      BY <1>1, FlowValues DEF Flow, InOrder
    <3>2. s \in Seq(Messages) /\ Len(writeCh[c]) \in Nat /\ Len(s) = Len(writeCh[c]) + 1
      BY <2>1, <3>1, LongerByOne
    <3>3. Len(s) <= ChCap
      BY <2>2, <3>2, ChCapAssumption
    <3>4. Increasing(s) /\ Elems(s) = Queued(c) \cup {held[c]}
      BY <2>1, <2>3, <3>1, IncreasingAppend DEF Queued
    <3> QED BY <3>2, <3>3, <3>4
  <2>5. /\ forwarder' \in [Conns -> {"idle", "select", "send", "stopped"}]
        /\ writeCh' \in [Conns -> Seq(Messages)] /\ \A d \in Conns : Len(writeCh'[d]) <= ChCap
        /\ forwarder'[c] = "select" /\ writeCh'[c] = s
        /\ \A d \in Conns \ {c} : forwarder'[d] = forwarder[d] /\ writeCh'[d] = writeCh[d]
    BY <1>1, <2>2, <2>4 DEF TypeOK, WSTypeOK
  <2>6. TypeOK'
    BY <1>1, <1>2, <2>2, <2>5 DEF TypeOK, WSTypeOK
  <2>7. Queued(c)' = Elems(s) /\ InHand(c)' = {} /\ Waiting(c)' = Waiting(c)
    BY <2>2, <2>5 DEF Queued, InHand, Waiting
  <2>8. InLine(Sent(c)', Queued(c)', InHand(c)', Waiting(c)', Coming(c)')
    BY <1>1, <1>4, <2>3, <2>4, <2>7 DEF Flow, InOrder, InLine, Below
  <2>9. InOrder(c)'
    BY <1>1, <1>2, <2>2, <2>4, <2>5, <2>8 DEF Flow, InOrder
  <2>10. Under(c)' \subseteq Under(c)
    BY <1>4, <2>3, <2>4, <2>7 DEF Under
  <2> QED BY <1>2, <1>5, <2>2, <2>5, <2>6, <2>9, <2>10 DEF SameWS, SameSub
<1>8. CASE Cancelled(c) \/ GiveUp(c)
  <2>1. /\ forwarder' = [forwarder EXCEPT ![c] = "stopped"] /\ closed' = closed \cup {c}
        /\ UNCHANGED <<held, subCh, writeCh>>
    BY <1>8 DEF Cancelled, GiveUp, ForwarderStep
  <2>2. /\ forwarder' \in [Conns -> {"idle", "select", "send", "stopped"}]
        /\ forwarder'[c] = "stopped" /\ \A d \in Conns \ {c} : forwarder'[d] = forwarder[d]
    BY <1>1, <2>1 DEF TypeOK
  <2>3. TypeOK'
    BY <1>1, <1>2, <2>1, <2>2 DEF TypeOK, WSTypeOK
  <2>4. Queued(c)' = Queued(c) /\ InHand(c)' = {} /\ Waiting(c)' = Waiting(c)
    BY <2>1, <2>2 DEF Queued, InHand, Waiting
  <2>5. InLine(Sent(c)', Queued(c)', InHand(c)', Waiting(c)', Coming(c)')
    BY <1>1, <1>4, <2>4 DEF Flow, InOrder, InLine, Below
  <2>6. InOrder(c)'
    BY <1>1, <1>2, <2>1, <2>5 DEF Flow, InOrder
  <2>7. Under(c)' \subseteq Under(c)
    BY <1>4, <2>4 DEF Under
  <2> QED BY <1>2, <1>5, <2>1, <2>2, <2>3, <2>6, <2>7 DEF SameWS, SameSub
<1> QED BY <1>6, <1>7, <1>8 DEF Forwarder

\* The pump reads and records a chunk, copies the list of subscribers and offers them the chunk.
LEMMA FlowPump ==
  ASSUME FlowInv, IInv', Pump
  PROVE  FlowInv'
<1>1. /\ TypeOK /\ WSTypeOK /\ Connections /\ Served /\ Audience /\ IInv
      /\ rec \in Seq(Chunks) /\ Len(rec) \in Nat /\ audience \in Seq(Conns)
      /\ subscribers \in Seq(Conns) /\ chunk \in Nat /\ printed \in Nat /\ chunk <= printed
      /\ printed <= MaxOutput
  <2>1. TypeOK /\ Connections /\ Served /\ Audience /\ IInv
    BY DEF FlowInv
  <2>2. WSTypeOK /\ audience \in Seq(Conns) /\ subscribers \in Seq(Conns)
    BY <2>1 DEF TypeOK
  <2>3. printed \in 0 .. MaxOutput /\ chunk \in 0 .. printed
    BY <2>1 DEF TypeOK
  <2>4. rec \in Seq(Chunks)
    BY <2>2 DEF WSTypeOK
  <2> QED BY <2>1, <2>2, <2>3, <2>4, MaxOutputAssumption
<1>2. /\ UNCHANGED <<client, handler, snapshot, deadline, writer, writeCh, closed, got, printed,
                     stream, subscribers, cancelled, forwarder, held>>
      /\ \A c \in Conns : SameWS(c)
  BY DEF Pump, ReadStream, ReadError, Record, CopySubscribers, SendToNext, BroadcastEnds, wsVars,
         subVars, SameWS
<1>3. Served'
  BY <1>1, <1>2 DEF Served
<1>4. ASSUME TypeOK', Audience', \A c \in Conns : Flow(c)' PROVE FlowInv'
  <2>1. Connections'
    BY <1>1, <1>2, <1>4, ConnectionFrame DEF Connections, TypeOK
  <2> QED BY <1>3, <1>4, <2>1 DEF FlowInv
<1>5. CASE ReadStream
  <2>1. /\ chunk < printed /\ pump = "read" /\ pump' = "record" /\ chunk' = chunk + 1
        /\ UNCHANGED <<rec, audience, subCh>>
    BY <1>5 DEF ReadStream, PumpStep, wsVars, subVars
  <2>2. TypeOK'
    BY <1>1, <1>2, <2>1 DEF TypeOK, WSTypeOK
  <2>3. Audience'
    BY <1>1, <2>1 DEF Audience
  <2>4. ASSUME NEW c \in Conns PROVE Flow(c)'
    <3>1. Flow(c)
      BY DEF FlowInv
    <3>2. /\ Sent(c)' = Sent(c) /\ Queued(c)' = Queued(c) /\ InHand(c)' = InHand(c)
          /\ Waiting(c)' = Waiting(c) /\ Coming(c)' = {chunk + 1}
      BY <1>2, <2>1 DEF Sent, Queued, InHand, Waiting, Coming
    <3>3. \A x \in Under(c) : x \in Int /\ x <= chunk
      BY <1>1, <3>1, FlowValues DEF Flow, Bounds
    <3>4. Below(Under(c), {chunk + 1})
      BY <1>1, <3>3 DEF Below
    <3>5. InLine(Sent(c)', Queued(c)', InHand(c)', Waiting(c)', Coming(c)')
      BY <3>1, <3>2, <3>4 DEF Flow, InOrder, InLine, Below, Under
    <3>6. InOrder(c)'
      BY <1>2, <2>1, <3>1, <3>5 DEF Flow, InOrder
    <3>7. Len(snapshot[c]) \in Nat /\ Len(snapshot[c]) <= chunk
      BY <1>1, <2>1, <3>1, FlowValues DEF Flow, Snapshot, IInv, RecordKeepsUp
    <3>8. \A x \in Under(c) : Len(snapshot[c]) <= x /\ x <= chunk + 1
      BY <1>1, <3>1, <3>3 DEF Flow, Bounds
    <3>9. Len(snapshot[c]) <= chunk + 1
      BY <1>1, <3>7
    <3>10. Bounds(c)'
      BY <1>2, <2>1, <3>2, <3>8, <3>9 DEF Bounds, Under
    <3>11. Snapshot(c)' /\ Unsubscribed(c)'
      BY <1>2, <2>1, <3>1 DEF Flow, Snapshot, Unsubscribed
    <3> QED BY <3>6, <3>10, <3>11 DEF Flow
  <2> QED BY <1>4, <2>2, <2>3, <2>4
<1>6. ASSUME TypeOK', Audience', chunk' = chunk, subCh' = subCh,
             Len(rec) <= Len(rec'), Len(rec') \in Nat,
             \A c \in Conns : /\ Coming(c)' \subseteq Coming(c)
                              /\ handler[c] \in {"idle", "flush", "start"} /\ c \notin Elems(audience)
                                   => c \notin Elems(audience')
      PROVE  FlowInv'
  <2>1. ASSUME NEW c \in Conns PROVE Flow(c)'
    <3>1. Flow(c) /\ SameWS(c) /\ SameSub(c)
      BY <1>2, <1>6 DEF FlowInv, SameSub
    <3> QED BY <1>1, <1>6, <3>1, FlowFrame
  <2> QED BY <1>4, <1>6, <2>1
<1>7. CASE ReadError \/ BroadcastEnds
  <2>1. /\ pump' \in {"stopped", "read"} /\ UNCHANGED <<rec, chunk, audience, subCh>>
        /\ audience = <<>> /\ pump \in {"read", "send"}
    BY <1>1, <1>7 DEF ReadError, BroadcastEnds, PumpStep, wsVars, subVars, Audience
  <2>2. TypeOK' /\ Audience'
    BY <1>1, <1>2, <2>1 DEF TypeOK, WSTypeOK, Audience
  <2>3. \A c \in Conns : Coming(c)' = {}
    BY <2>1 DEF Coming
  <2> QED BY <1>1, <1>6, <2>1, <2>2, <2>3
<1>8. CASE Record
  <2>1. /\ pump = "record" /\ pump' = "copy" /\ rec' = Append(rec, chunk)
        /\ UNCHANGED <<chunk, audience, subCh>>
    BY <1>8 DEF Record, PumpStep, subVars
  <2>2. chunk \in Chunks
    BY <1>1, <2>1, MaxOutputAssumption DEF Chunks, Audience
  <2>3. PICK r : r = Append(rec, chunk)
    OBVIOUS
  <2>4. r \in Seq(Chunks) /\ Len(r) = Len(rec) + 1
    BY <1>1, <2>2, <2>3, LongerByOne
  <2>5. TypeOK' /\ Audience'
    BY <1>1, <1>2, <2>1, <2>3, <2>4 DEF TypeOK, WSTypeOK, Audience
  <2>6. Len(rec) <= Len(rec') /\ Len(rec') \in Nat
    BY <1>1, <2>1, <2>3, <2>4
  <2>7. \A c \in Conns : Coming(c)' = Coming(c)
    BY <2>1 DEF Coming
  <2> QED BY <1>6, <2>1, <2>5, <2>6, <2>7
<1>9. CASE CopySubscribers
  <2>1. /\ pump = "copy" /\ pump' = "send" /\ audience' = subscribers
        /\ UNCHANGED <<rec, chunk, subCh>>
    BY <1>9 DEF CopySubscribers, PumpStep, wsVars, subVars
  <2>2. TypeOK' /\ Audience'
    BY <1>1, <1>2, <2>1 DEF TypeOK, WSTypeOK, Audience, Served
  <2>3. \A c \in Conns : /\ Coming(c)' \subseteq Coming(c)
                         /\ handler[c] \in {"idle", "flush", "start"} => c \notin Elems(audience')
    BY <1>1, <2>1 DEF Coming, Served
  <2> QED BY <1>1, <1>6, <2>1, <2>2, <2>3
<1>10. CASE SendToNext
  <2>1. PICK e, t : e = Head(audience) /\ t = Tail(audience)
    OBVIOUS
  <2>2. PICK s : s = Append(subCh[e], chunk)
    OBVIOUS
  <2>3. /\ pump = "send" /\ pump' = "send" /\ audience # <<>> /\ audience' = t
        /\ UNCHANGED <<rec, chunk>>
        /\ \/ subCh' = subCh
           \/ Len(subCh[e]) < SubCap /\ subCh' = [subCh EXCEPT ![e] = s]
    BY <1>10, <2>1, <2>2 DEF SendToNext, wsVars
  <2>4. /\ e \in Conns /\ t \in Seq(Conns) /\ Distinct(t)
        /\ e \in Elems(audience) /\ Elems(t) = Elems(audience) \ {e}
    BY <1>1, <2>1, <2>3, DistinctTail DEF Audience
  <2>5. Audience'
    BY <1>1, <2>3, <2>4 DEF Audience
  <2>6. chunk \in Chunks
    BY <1>1, <2>3, MaxOutputAssumption DEF Chunks, Audience
  <2>7. Flow(e) /\ Coming(e) = {chunk} /\ Coming(e)' = {}
    BY <2>3, <2>4 DEF FlowInv, Coming
  <2>8. \A x \in Waiting(e) : x < chunk
    BY <2>7 DEF Flow, InOrder, InLine, Below
  <2>9. /\ s \in Seq(Chunks) /\ Len(s) = Len(subCh[e]) + 1 /\ Len(subCh[e]) \in Nat
        /\ Increasing(s) /\ Elems(s) = Waiting(e) \cup {chunk}
    <3>1. subCh[e] \in Seq(Chunks) /\ Increasing(subCh[e])
      BY <1>1, <2>4, <2>7, FlowValues DEF Flow, InOrder
    <3>2. s \in Seq(Chunks) /\ Len(s) = Len(subCh[e]) + 1 /\ Len(subCh[e]) \in Nat
      BY <2>2, <2>6, <3>1, LongerByOne
    <3>3. Increasing(s) /\ Elems(s) = Waiting(e) \cup {chunk}
      BY <2>2, <2>6, <2>8, <3>1, IncreasingAppend DEF Waiting
    <3> QED BY <3>2, <3>3
  <2>10. /\ subCh' \in [Conns -> Seq(Chunks)]
         /\ \A d \in Conns : Len(subCh'[d]) <= SubCap
         /\ \A d \in Conns \ {e} : subCh'[d] = subCh[d]
         /\ subCh'[e] = subCh[e] \/ subCh'[e] = s
    <3>1. CASE subCh' = subCh
      BY <1>1, <3>1 DEF TypeOK
    <3>2. CASE Len(subCh[e]) < SubCap /\ subCh' = [subCh EXCEPT ![e] = s]
      <4>1. Len(s) <= SubCap
        BY <2>9, <3>2, SubCapAssumption
      <4> QED BY <1>1, <2>9, <3>2, <4>1 DEF TypeOK
    <3> QED BY <2>3, <3>1, <3>2
  <2>11. TypeOK'
    BY <1>1, <1>2, <2>3, <2>4, <2>10 DEF TypeOK, WSTypeOK
  <2>12. Flow(e)'
    <3>1. Sent(e)' = Sent(e) /\ Queued(e)' = Queued(e) /\ InHand(e)' = InHand(e)
      BY <1>2 DEF Sent, Queued, InHand
    <3>2. Waiting(e)' \subseteq Waiting(e) \cup Coming(e) /\ Increasing(subCh'[e])
      BY <2>7, <2>9, <2>10 DEF Waiting, Flow, InOrder
    <3>3. InLine(Sent(e)', Queued(e)', InHand(e)', Waiting(e)', Coming(e)')
      BY <2>7, <3>1, <3>2 DEF Flow, InOrder, InLine, Below
    <3>4. InOrder(e)'
      BY <1>2, <2>7, <3>2, <3>3 DEF Flow, InOrder
    <3>5. Bounds(e)'
      BY <1>1, <1>2, <2>3, <2>7, <3>1, <3>2 DEF Flow, Bounds, Under
    <3>6. handler[e] \notin {"idle", "flush", "start"}
      BY <2>4, <2>7 DEF Flow, Unsubscribed
    <3>7. Snapshot(e)' /\ Unsubscribed(e)'
      BY <1>2, <2>3, <2>7, <3>6 DEF Flow, Snapshot, Unsubscribed
    <3> QED BY <3>4, <3>5, <3>7 DEF Flow
  <2>13. ASSUME NEW d \in Conns \ {e} PROVE Flow(d)'
    <3>1. Flow(d) /\ SameWS(d) /\ SameSub(d) /\ Coming(d)' = Coming(d)
      BY <1>2, <2>3, <2>4, <2>10 DEF FlowInv, SameSub, Coming
    <3>2. Len(rec) <= Len(rec') /\ Len(rec') \in Nat
      BY <1>1, <2>3
    <3> QED BY <1>1, <2>3, <2>4, <3>1, <3>2, FlowFrame
  <2> QED BY <1>4, <2>5, <2>11, <2>12, <2>13
<1> QED BY <1>5, <1>7, <1>8, <1>9, <1>10 DEF Pump

LEMMA FlowNext ==
  ASSUME FlowInv, [Next]_vars
  PROVE  FlowInv'
<1>1. IInv'
  BY NextIInv DEF FlowInv
<1>2. CASE Output \/ ContainerStops \/ CloseStream \/ UNCHANGED vars
  BY <1>1, <1>2, FlowOutside
<1>3. CASE Pump
  BY <1>1, <1>3, FlowPump
<1>4. ASSUME NEW c \in Conns,
             \/ Shared(Dial(c)) \/ Shared(Leave(c)) \/ Shared(DeadlinePasses(c))
             \/ Handler(c) \/ Shared(Writer(c)) \/ Forwarder(c)
      PROVE  FlowInv'
  <2>1. \/ WSStep(c) /\ UNCHANGED <<pumpVars, subVars>>
        \/ Subscribe(c) \/ StartAttach(c) \/ Return(c)
        \/ Forwarder(c)
    BY <1>4 DEF Handler, Shared, WSStep
  <2> QED BY <1>1, <2>1, FlowShared, FlowHandler, FlowForwarder
<1> QED BY <1>2, <1>3, <1>4 DEF Next

LEMMA FlowAlways == Spec => []FlowInv
<1>1. FlowInv /\ [Next]_vars => FlowInv'
  BY FlowNext
<1> QED BY <1>1, FlowStarts, PTL DEF Spec

-----------------------------------------------------------------------------
(* What follows for the browsers *)

\* The variables keep their types; above all the channels keep their capacities, however late a
\* connection comes and however slow its browser is (session.go:143-154, ws.go:159).
THEOREM AttachTypeCorrect == Spec => []TypeOK
<1>1. FlowInv => TypeOK
  BY DEF FlowInv
<1> QED BY <1>1, FlowAlways, PTL

\* However connections come and go, the subscriber list holds exactly the connections between
\* Subscribe and Unsubscribe, each once (session.go:115-138, ws.go:154-155).
THEOREM SubscribersServed == Spec => []SubscribersAreServed
<1>1. ASSUME FlowInv PROVE SubscribersAreServed
  <2>1. Served /\ subscribers \in Seq(Conns)
    BY <1>1 DEF FlowInv, TypeOK
  <2>2. Range(subscribers) = Elems(subscribers)
    <3>1. DOMAIN subscribers = 1 .. Len(subscribers)
      BY <2>1
    <3> QED BY <3>1 DEF Range, Elems
  <2> QED BY <2>1, <2>2 DEF Served, Distinct, SubscribersAreServed
<1> QED BY <1>1, FlowAlways, PTL

\* Through the broadcast, the subscription's channel, the forwarder and writeCh, each of which
\* may drop chunks or hold them while the others go on, a browser gets live output in order, no
\* chunk twice, and of the flushed recording at most the last one again (session.go:141-191,
\* ws.go:153-198).
THEOREM LiveStaysInOrder == Spec => []LiveInOrder
<1>1. ASSUME FlowInv PROVE LiveInOrder
  <2> SUFFICES ASSUME NEW c \in Conns, NEW i \in 1 .. Len(got[c]), NEW j \in 1 .. Len(got[c]), i < j
               PROVE  IF j > Len(snapshot[c]) + 1 \/ i < Len(snapshot[c])
                      THEN got[c][i] < got[c][j] ELSE got[c][i] <= got[c][j]
    BY DEF LiveInOrder
  <2>1. Flow(c) /\ FlushFirst(c) /\ TypeOK
    BY <1>1 DEF FlowInv, Connections
  <2>2. /\ Len(snapshot[c]) \in Nat /\ Len(got[c]) \in Nat
        /\ \A x \in Sent(c) : x \in Int /\ Len(snapshot[c]) <= x
    BY <2>1, FlowValues DEF Flow, Bounds, Under
  <2>3. \A k \in 1 .. Len(got[c]) : k <= Len(snapshot[c]) => got[c][k] = k
    <3> SUFFICES ASSUME NEW k \in 1 .. Len(got[c]), k <= Len(snapshot[c]) PROVE got[c][k] = k
      OBVIOUS
    <3>1. k \in 1 .. Len(snapshot[c])
      BY <2>2
    <3> QED BY <2>1, <3>1 DEF FlushFirst, Flow, Snapshot
  <2>4. \A k \in 1 .. Len(got[c]) : k > Len(snapshot[c]) =>
          k \in Len(snapshot[c]) + 1 .. Len(got[c]) /\ got[c][k] \in Sent(c)
    BY <2>2 DEF Sent
  <2>5. CASE j <= Len(snapshot[c])
    BY <2>2, <2>3, <2>5
  <2>6. CASE i > Len(snapshot[c])
    <3>1. got[c][i] < got[c][j]
      BY <2>1, <2>2, <2>4, <2>6 DEF Flow, InOrder
    <3>2. got[c][i] \in Int /\ got[c][j] \in Int
      BY <2>2, <2>4, <2>6
    <3> QED BY <3>1, <3>2
  <2>7. CASE i <= Len(snapshot[c]) /\ j > Len(snapshot[c])
    <3>1. got[c][i] = i /\ got[c][j] \in Sent(c) /\ got[c][j] \in Int /\ Len(snapshot[c]) <= got[c][j]
      BY <2>2, <2>3, <2>4, <2>7
    <3>2. CASE i < Len(snapshot[c])
      BY <2>2, <3>1, <3>2
    <3>3. CASE i = Len(snapshot[c])
      <4>1. CASE j > Len(snapshot[c]) + 1
        <5>1. PICK k \in 1 .. Len(got[c]) : k = Len(snapshot[c]) + 1
          BY <2>2, <4>1
        <5>2. k > Len(snapshot[c]) /\ k < j
          BY <2>2, <4>1, <5>1
        <5>3. got[c][k] \in Int /\ Len(snapshot[c]) <= got[c][k]
          BY <2>2, <2>4, <5>2
        <5>4. got[c][k] < got[c][j]
          BY <2>1, <2>4, <2>7, <5>2 DEF Flow, InOrder
        <5> QED BY <2>2, <3>1, <3>3, <5>3, <5>4
      <4> QED BY <2>2, <3>1, <3>3, <4>1
    <3> QED BY <2>2, <2>7, <3>2, <3>3
  <2> QED BY <2>2, <2>5, <2>6, <2>7
<1> QED BY <1>1, FlowAlways, PTL

-----------------------------------------------------------------------------
(* The pump and ContainerStream *)

InRead == IF pump = "read" THEN {"pump"} ELSE {}

Stream == INSTANCE ContainerStream WITH
  Readers <- {"pump"}, delivered <- chunk, cut <- (stream = "closed"), calling <- InRead,
  source <- IF stream = "open" THEN "running" ELSE "exited"

LEMMA StreamInit == Init => Stream!Init
<1> SUFFICES ASSUME Init PROVE Stream!Init
  OBVIOUS
<1>1. /\ printed = 0 /\ chunk = 0 /\ InRead = {}
      /\ (IF stream = "open" THEN "running" ELSE "exited") = "running"
  BY DEF Init, InRead
<1>2. (stream = "closed") = FALSE
  BY Zenon DEF Init
<1> QED BY <1>1, <1>2, Zenon DEF Stream!Init

\* The container prints or stops, or evict closes the stream.
LEMMA OutsideRefines ==
  Output \/ ContainerStops \/ CloseStream => [Stream!Next]_(Stream!vars)
<1>1. Output \/ ContainerStops \/ CloseStream => InRead' = InRead
  BY DEF Output, ContainerStops, CloseStream, InRead
<1>2. Output => Stream!Output
  BY <1>1 DEF Output, Stream!Output
<1>3. ContainerStops => Stream!Exit
  BY <1>1 DEF ContainerStops, Stream!Exit
<1>4. CloseStream => Stream!Cut
  BY <1>1 DEF CloseStream, Stream!Cut
<1> QED BY <1>2, <1>3, <1>4 DEF Stream!Next

\* The pump reads, records and broadcasts; it comes back to Read after each broadcast.
LEMMA PumpRefines == Pump => [Stream!Next]_(Stream!vars)
<1>1. ReadStream => Stream!Deliver("pump")
  BY DEF ReadStream, PumpStep, InRead, Stream!Deliver
<1>2. ReadError => Stream!Fail("pump")
  BY DEF ReadError, PumpStep, InRead, Stream!Fail
<1>3. BroadcastEnds => Stream!CallRead("pump")
  BY DEF BroadcastEnds, PumpStep, InRead, Stream!CallRead
<1>4. Record \/ CopySubscribers \/ SendToNext => UNCHANGED Stream!vars
  BY DEF Record, CopySubscribers, SendToNext, PumpStep, InRead, Stream!vars
<1> QED BY <1>1, <1>2, <1>3, <1>4 DEF Pump, Stream!Next

\* The first connection starts the pump; the others find it running.
LEMMA StartRefines ==
  ASSUME NEW c \in Conns, StartAttach(c)
  PROVE  [Stream!Next]_(Stream!vars)
<1>1. CASE pump = "off"
  <2>1. Stream!CallRead("pump")
    BY <1>1 DEF StartAttach, InRead, Stream!CallRead
  <2> QED BY <2>1 DEF Stream!Next
<1>2. CASE pump # "off"
  BY <1>2 DEF StartAttach, InRead, Stream!vars
<1> QED BY <1>1, <1>2

LEMMA NextRefines == [Next]_vars => [Stream!Next]_(Stream!vars)
<1> SUFFICES ASSUME [Next]_vars PROVE [Stream!Next]_(Stream!vars)
  OBVIOUS
<1>1. UNCHANGED pumpVars => UNCHANGED Stream!vars
  BY DEF pumpVars, Stream!vars, InRead
<1>2. ASSUME NEW c \in Conns, Subscribe(c) \/ Return(c) \/ Forwarder(c) PROVE UNCHANGED pumpVars
  BY <1>2 DEF Subscribe, Return, Forwarder, TakeChunk, Cancelled, Queue, GiveUp
<1>3. ASSUME NEW c \in Conns,
             \/ Shared(Dial(c)) \/ Shared(Leave(c)) \/ Shared(DeadlinePasses(c))
             \/ Shared(FlushEvents(c)) \/ Shared(ReadFails(c)) \/ Shared(Writer(c))
      PROVE  UNCHANGED pumpVars
  BY <1>3 DEF Shared
<1>4. UNCHANGED vars => UNCHANGED pumpVars
  BY DEF vars
<1> QED BY <1>1, <1>2, <1>3, <1>4, OutsideRefines, PumpRefines, StartRefines DEF Next, Handler

\* The one pump reads the stream of an attached session as ContainerStream promises it to one
\* reader: in order and without a gap, whichever browsers come and go, and it stops only at the
\* end of the output or when evict has closed the stream (session.go:172-190).
THEOREM PumpReadsStream == Spec => Stream!Init /\ [][Stream!Next]_(Stream!vars)
BY StreamInit, NextRefines, PTL DEF Spec

-----------------------------------------------------------------------------
(* The end of a connection, and what keeps it from coming *)

ForwarderCan(c) ==
  \/ forwarder[c] = "select" /\ (subCh[c] # <<>> \/ c \in cancelled)
  \/ forwarder[c] = "send" /\ (Len(writeCh[c]) < ChCap \/ Done(c))

Over(c) == handler[c] = "returned" /\ writer[c] = "stopped" /\ forwarder[c] = "stopped"

\* The handler waits for done, which the write goroutine closes when writeCh is closed, which the
\* forwarder does when the subscription is cancelled, which the handler does when it returns.
Circle(c) ==
  /\ handler[c] = "waiting" /\ writer[c] = "running" /\ forwarder[c] = "select"
  /\ writeCh[c] = <<>> /\ subCh[c] = <<>> /\ c \notin closed \cup cancelled

\* When the browser has gone, one of the connection's goroutines can go on until all three have
\* ended, unless they wait for each other in this circle, still subscribed.
OnlyTheCircle ==
  \A c \in Conns :
    client[c] = "gone" =>
      \/ Over(c) \/ HandlerCan(c) \/ WriterCan(c) \/ ForwarderCan(c)
      \/ Circle(c) /\ c \in Range(subscribers)

\* Nobody breaks the circle but the pump, with the next chunk for this very connection ...
OnlyAChunkHelps ==
  [][\A c \in Conns : Circle(c) /\ ~Circle(c)' => SendToNext /\ Head(audience) = c]_vars

\* ... so that nobody does once the pump has stopped.
StuckForGood ==
  [][\A c \in Conns : Circle(c) /\ pump = "stopped" => Circle(c)' /\ pump' = "stopped"]_vars

\* Who has started, and who has ended before whom.
Phases(c) ==
  /\ client[c] = "absent" <=> handler[c] = "idle"
  /\ handler[c] \in {"idle", "flush", "start", "subscribed"} <=> forwarder[c] = "idle"
  /\ handler[c] \in {"idle", "flush", "start", "subscribed"} <=> writer[c] = "idle"
  /\ forwarder[c] = "stopped" <=> c \in closed
  /\ handler[c] = "returned" <=> c \in cancelled
  /\ handler[c] = "returned" => writer[c] = "stopped"

PhaseInv == \A c \in Conns : Phases(c)

SamePhase(c) ==
  /\ client'[c] = client[c] /\ handler'[c] = handler[c] /\ writer'[c] = writer[c]
  /\ forwarder'[c] = forwarder[c]
  /\ (c \in closed' <=> c \in closed) /\ (c \in cancelled' <=> c \in cancelled)

LEMMA OnePhase ==
  ASSUME PhaseInv, NEW c \in Conns, Phases(c)', \A d \in Conns \ {c} : SamePhase(d)
  PROVE  PhaseInv'
BY DEF PhaseInv, Phases, SamePhase

LEMMA PhaseInit == Init => PhaseInv
BY DEF Init, WSInit, PhaseInv, Phases

LEMMA PhaseShared ==
  ASSUME TypeOK, PhaseInv, NEW c \in Conns, WSStep(c), UNCHANGED subVars
  PROVE  PhaseInv'
<1>1. WSTypeOK /\ Phases(c) /\ forwarder' = forwarder /\ cancelled' = cancelled
  BY DEF TypeOK, PhaseInv, subVars
<1>2. \A d \in Conns \ {c} : SamePhase(d)
  BY <1>1, DialHere, FlushHere, ClockHere, WriterHere DEF WSStep, SameWS, SamePhase
<1>3. CASE Dial(c)
  <2> Phases(c)'
    BY <1>1, <1>3, DialHere DEF Phases
  <2> QED BY <1>2, OnePhase
<1>4. CASE FlushEvents(c)
  <2>1. /\ handler[c] = "flush" /\ handler'[c] = "start" /\ client'[c] = client[c]
        /\ writer'[c] = writer[c] /\ closed' = closed
    BY <1>1, <1>4, FlushHere
  <2> Phases(c)'
    BY <1>1, <2>1 DEF Phases
  <2> QED BY <1>2, OnePhase
<1>5. CASE Leave(c) \/ DeadlinePasses(c) \/ ReadFails(c)
  <2>1. client'[c] = "absent" <=> client[c] = "absent"
    BY <1>1, <1>5 DEF Leave, DeadlinePasses, ReadFails, WSTypeOK
  <2>2. /\ writer'[c] = writer[c] /\ closed' = closed
        /\ handler'[c] = handler[c] \/ (handler[c] = "reading" /\ handler'[c] = "waiting")
    BY <1>1, <1>5, ClockHere
  <2> Phases(c)'
    BY <1>1, <2>1, <2>2 DEF Phases
  <2> QED BY <1>2, OnePhase
<1>6. CASE Writer(c)
  <2>1. /\ client'[c] = client[c] /\ handler'[c] = handler[c] /\ closed' = closed
        /\ writer[c] = "running" /\ writer'[c] \in {"running", "stopped"}
    BY <1>1, <1>6, WriterHere
  <2> Phases(c)'
    BY <1>1, <2>1 DEF Phases
  <2> QED BY <1>2, OnePhase
<1> QED BY <1>3, <1>4, <1>5, <1>6 DEF WSStep

LEMMA PhaseOwn ==
  ASSUME TypeOK, PhaseInv, NEW c \in Conns,
         Subscribe(c) \/ StartAttach(c) \/ Return(c) \/ Forwarder(c)
  PROVE  PhaseInv'
<1>1. Phases(c) /\ client' = client
  BY DEF PhaseInv, Subscribe, StartAttach, Return, Forwarder, TakeChunk, Cancelled, Queue, GiveUp,
         wsVars
<1>2. \A d \in Conns \ {c} : SamePhase(d)
  <2>1. UNCHANGED closed \/ closed' = closed \cup {c}
    BY DEF Subscribe, StartAttach, Return, Forwarder, TakeChunk, Cancelled, Queue, GiveUp, wsVars
  <2>2. UNCHANGED cancelled \/ cancelled' = cancelled \cup {c}
    BY DEF Subscribe, StartAttach, Return, Forwarder, TakeChunk, Cancelled, Queue, GiveUp, subVars
  <2>3. \A d \in Conns \ {c} : handler'[d] = handler[d] /\ writer'[d] = writer[d]
    BY DEF Subscribe, StartAttach, Return, Forwarder, TakeChunk, Cancelled, Queue, GiveUp, wsVars,
         HandlerStep, TypeOK, WSTypeOK
  <2>4. \A d \in Conns \ {c} : forwarder'[d] = forwarder[d]
    BY DEF Subscribe, StartAttach, Return, Forwarder, TakeChunk, Cancelled, Queue, GiveUp,
         ForwarderStep, TypeOK
  <2> QED BY <1>1, <2>1, <2>2, <2>3, <2>4 DEF SamePhase
<1>3. CASE Subscribe(c) \/ StartAttach(c)
  <2>1. /\ UNCHANGED <<closed, cancelled>>
        /\ \/ /\ handler[c] = "start" /\ handler'[c] = "subscribed" /\ UNCHANGED <<writer, forwarder>>
           \/ /\ handler[c] = "subscribed" /\ handler'[c] = "reading"
              /\ writer'[c] = "running" /\ forwarder'[c] = "select"
    BY <1>3 DEF Subscribe, StartAttach, HandlerStep, TypeOK, WSTypeOK
  <2> Phases(c)'
    BY <1>1, <2>1 DEF Phases
  <2> QED BY <1>2, OnePhase
<1>4. CASE Return(c)
  <2>1. /\ UNCHANGED <<writer, closed, forwarder>> /\ cancelled' = cancelled \cup {c}
        /\ handler[c] = "waiting" /\ handler'[c] = "returned" /\ writer[c] = "stopped"
    BY <1>4 DEF Return, HandlerStep, Done, TypeOK, WSTypeOK
  <2> Phases(c)'
    BY <1>1, <2>1 DEF Phases
  <2> QED BY <1>2, OnePhase
<1>5. CASE TakeChunk(c) \/ Queue(c)
  <2>1. /\ UNCHANGED <<handler, writer, closed, cancelled>>
        /\ forwarder[c] \notin {"idle", "stopped"} /\ forwarder'[c] \notin {"idle", "stopped"}
    BY <1>5 DEF TakeChunk, Queue, ForwarderStep, wsVars, TypeOK
  <2> Phases(c)'
    BY <1>1, <2>1 DEF Phases
  <2> QED BY <1>2, OnePhase
<1>6. CASE Cancelled(c) \/ GiveUp(c)
  <2>1. /\ UNCHANGED <<handler, writer, cancelled>> /\ closed' = closed \cup {c}
        /\ forwarder[c] \in {"select", "send"} /\ forwarder'[c] = "stopped"
    BY <1>6 DEF Cancelled, GiveUp, ForwarderStep, TypeOK
  <2> Phases(c)'
    BY <1>1, <2>1 DEF Phases
  <2> QED BY <1>2, OnePhase
<1> QED BY <1>3, <1>4, <1>5, <1>6 DEF Forwarder

\* What the container, evict and the pump change.
LEMMA PumpSteps ==
  ASSUME Output \/ ContainerStops \/ CloseStream \/ Pump
  PROVE  /\ UNCHANGED wsVars \/ UNCHANGED <<client, handler, snapshot, deadline, writer, writeCh,
                                            closed, got>>
         /\ UNCHANGED <<subscribers, cancelled, forwarder, held>>
BY DEF Output, ContainerStops, CloseStream, Pump, ReadStream, ReadError, Record, CopySubscribers,
       SendToNext, BroadcastEnds, subVars

LEMMA PhaseAlways == Spec => []PhaseInv
<1>1. TypeOK /\ PhaseInv /\ [Next]_vars => PhaseInv'
  <2> SUFFICES ASSUME TypeOK, PhaseInv, [Next]_vars PROVE PhaseInv'
    OBVIOUS
  <2>1. CASE Output \/ ContainerStops \/ CloseStream \/ Pump \/ UNCHANGED vars
    <3>1. UNCHANGED <<client, handler, writer, closed, cancelled, forwarder>>
      BY <2>1, PumpSteps DEF vars, wsVars, subVars
    <3> QED BY <3>1 DEF PhaseInv, Phases
  <2>2. ASSUME NEW c \in Conns,
               \/ Shared(Dial(c)) \/ Shared(Leave(c)) \/ Shared(DeadlinePasses(c))
               \/ Shared(FlushEvents(c)) \/ Shared(ReadFails(c)) \/ Shared(Writer(c))
        PROVE  PhaseInv'
    BY <2>2, PhaseShared DEF Shared, WSStep
  <2>3. ASSUME NEW c \in Conns, Subscribe(c) \/ StartAttach(c) \/ Return(c) \/ Forwarder(c)
        PROVE  PhaseInv'
    BY <2>3, PhaseOwn
  <2> QED BY <2>1, <2>2, <2>3 DEF Next, Handler
<1> QED BY <1>1, PhaseInit, AttachTypeCorrect, PTL DEF Spec

\* The circle, found by DisconnectIsNoticed, is the only way in which the goroutines of an attach
\* connection can wait for each other for ever (ws.go:153-198).
THEOREM NoOtherCircle == Spec => []OnlyTheCircle
<1>1. TypeOK /\ PhaseInv /\ SubscribersAreServed => OnlyTheCircle
  <2> SUFFICES ASSUME TypeOK, PhaseInv, SubscribersAreServed, NEW c \in Conns, client[c] = "gone",
                      ~HandlerCan(c), ~WriterCan(c), ~ForwarderCan(c)
               PROVE  Over(c) \/ (Circle(c) /\ c \in Range(subscribers))
    BY DEF OnlyTheCircle
  <2>0. Phases(c)
    BY DEF PhaseInv
  <2>1. handler[c] \in {"waiting", "returned"}
    BY <2>0 DEF Phases, HandlerCan, TypeOK, WSTypeOK
  <2>2. CASE handler[c] = "returned"
    <3>1. writer[c] = "stopped" /\ c \in cancelled
      BY <2>0, <2>2 DEF Phases
    <3>2. forwarder[c] = "stopped"
      BY <2>0, <2>2, <3>1 DEF Phases, ForwarderCan, Done, TypeOK
    <3> QED BY <2>2, <3>1, <3>2 DEF Over
  <2>3. CASE handler[c] = "waiting"
    <3>1. writer[c] = "running"
      BY <2>0, <2>3 DEF Phases, HandlerCan, Done, TypeOK, WSTypeOK
    <3>2. writeCh[c] = <<>> /\ c \notin closed
      BY <3>1 DEF WriterCan
    <3>3. Len(writeCh[c]) < ChCap
      BY <3>2, ChCapAssumption
    <3>4. forwarder[c] = "select" /\ subCh[c] = <<>> /\ c \notin cancelled
      BY <2>0, <2>3, <3>2, <3>3 DEF Phases, ForwarderCan, TypeOK
    <3>5. c \in Range(subscribers)
      BY <2>3 DEF SubscribersAreServed
    <3> QED BY <2>3, <3>1, <3>2, <3>4, <3>5 DEF Circle
  <2> QED BY <2>1, <2>2, <2>3
<1> QED BY <1>1, AttachTypeCorrect, PhaseAlways, SubscribersServed, PTL

\* What a step can do to the circle.
LEMMA CircleStep ==
  ASSUME TypeOK, NEW c \in Conns, Circle(c), [Next]_vars, ~(SendToNext /\ Head(audience) = c)
  PROVE  Circle(c)'
<1>0. WSTypeOK
  BY DEF TypeOK
<1>1. CASE UNCHANGED vars
  BY <1>1 DEF vars, wsVars, subVars, Circle
<1>2. CASE Output \/ ContainerStops \/ CloseStream \/ Pump
  <2>1. UNCHANGED <<handler, writer, writeCh, closed, cancelled, forwarder>>
    BY <1>2, PumpSteps DEF wsVars
  <2>2. subCh'[c] = subCh[c]
    BY <1>2 DEF Output, ContainerStops, CloseStream, Pump, ReadStream, ReadError, Record,
         CopySubscribers, SendToNext, BroadcastEnds, subVars, TypeOK
  <2> QED BY <2>1, <2>2 DEF Circle
<1>3. ASSUME NEW d \in Conns, WSStep(d), UNCHANGED subVars
      PROVE  Circle(c)'
  <2>1. CASE d = c
    <3>1. ~Dial(c) /\ ~FlushEvents(c) /\ ~Writer(c)
      BY DEF Dial, FlushEvents, FlushAll, FlushFails, HandlerStep, Writer, Deliver, Vanish,
           WriteFails, WriterEnds, Running, Circle
    <3>2. Leave(c) \/ DeadlinePasses(c) \/ ReadFails(c)
      BY <1>3, <2>1, <3>1 DEF WSStep
    <3> QED BY <1>0, <1>3, <3>2, ClockHere DEF Circle, subVars
  <2>2. CASE d # c
    BY <1>0, <1>3, <2>2, DialHere, FlushHere, ClockHere, WriterHere DEF WSStep, SameWS, Circle, subVars
  <2> QED BY <2>1, <2>2
<1>4. ASSUME NEW d \in Conns, Subscribe(d) \/ StartAttach(d) \/ Return(d) \/ Forwarder(d)
      PROVE  Circle(c)'
  <2>1. d # c
    BY <1>4 DEF Subscribe, StartAttach, Return, Forwarder, TakeChunk, Cancelled, Queue, GiveUp,
         HandlerStep, ForwarderStep, Done, Circle
  <2>2. /\ handler'[c] = handler[c] /\ writer'[c] = writer[c] /\ writeCh'[c] = writeCh[c]
        /\ c \notin closed' \cup cancelled'
    BY <1>4, <2>1 DEF Subscribe, StartAttach, Return, Forwarder, TakeChunk, Cancelled, Queue, GiveUp,
         HandlerStep, Offer, wsVars, Circle, TypeOK, WSTypeOK
  <2>3. forwarder'[c] = forwarder[c] /\ subCh'[c] = subCh[c]
    BY <1>4, <2>1 DEF Subscribe, StartAttach, Return, Forwarder, TakeChunk, Cancelled, Queue, GiveUp,
         ForwarderStep, TypeOK
  <2> QED BY <2>2, <2>3 DEF Circle
<1> QED BY <1>1, <1>2, <1>3, <1>4 DEF Next, Handler, Shared, WSStep

\* Whatever else happens, a connection in the circle stays in it until the container prints
\* something more and the pump offers it to this connection (session.go:150).
THEOREM AChunkOrNothing == Spec => OnlyAChunkHelps
<1>1. TypeOK /\ [Next]_vars =>
        [\A c \in Conns : Circle(c) /\ ~Circle(c)' => SendToNext /\ Head(audience) = c]_vars
  BY CircleStep
<1> QED BY <1>1, AttachTypeCorrect, PTL DEF Spec, OnlyAChunkHelps

\* That is why DisconnectIsNoticed fails: after the pump has stopped, at the end of the output or
\* because evict has closed the stream, a connection in the circle never gets out of it, and its
\* handler never returns (session.go:172-190, ws.go:172-197).
THEOREM CircleIsForGood == Spec => StuckForGood
<1>1. TypeOK /\ [Next]_vars =>
        [\A c \in Conns : Circle(c) /\ pump = "stopped" => Circle(c)' /\ pump' = "stopped"]_vars
  <2> SUFFICES ASSUME TypeOK, [Next]_vars, NEW c \in Conns, Circle(c), pump = "stopped"
               PROVE  Circle(c)' /\ pump' = "stopped"
    OBVIOUS
  <2>1. ~Pump
    BY DEF Pump, ReadStream, ReadError, Record, CopySubscribers, SendToNext, BroadcastEnds, PumpStep
  <2>2. ~SendToNext
    BY DEF SendToNext
  <2>3. pump' = "stopped"
    <3>1. ASSUME NEW d \in Conns, Subscribe(d) \/ StartAttach(d) \/ Return(d) \/ Forwarder(d)
          PROVE  pump' = "stopped"
      BY <3>1 DEF Subscribe, StartAttach, Return, Forwarder, TakeChunk, Cancelled, Queue, GiveUp,
           pumpVars
    <3>2. ASSUME NEW d \in Conns,
                 \/ Shared(Dial(d)) \/ Shared(Leave(d)) \/ Shared(DeadlinePasses(d))
                 \/ Shared(FlushEvents(d)) \/ Shared(ReadFails(d)) \/ Shared(Writer(d))
          PROVE  pump' = "stopped"
      BY <3>2 DEF Shared, pumpVars
    <3>3. CASE Output \/ ContainerStops \/ CloseStream \/ UNCHANGED vars
      BY <3>3 DEF Output, ContainerStops, CloseStream, vars, pumpVars
    <3> QED BY <2>1, <3>1, <3>2, <3>3 DEF Next, Handler
  <2> QED BY <2>2, <2>3, CircleStep
<1> QED BY <1>1, AttachTypeCorrect, PTL DEF Spec, StuckForGood

\* A bound on the steps that the goroutines of a connection have left when no more is printed:
\* three for each chunk that the pump has still to read or to offer to it, or that waits in its
\* channel, one for each in writeCh, and the rest of their own programs.
UnreadLeft == 3 * (printed - chunk)
ComingLeft(c) ==
  IF pump \in {"record", "copy"} \/ (pump = "send" /\ c \in Elems(audience)) THEN 3 ELSE 0
WaitingLeft(c) == 3 * Len(subCh[c])
ForwarderLeft(c) ==
  CASE forwarder[c] = "idle" -> 2 [] forwarder[c] = "select" -> 1 [] forwarder[c] = "send" -> 3
    [] forwarder[c] = "stopped" -> 0
Left(c) == UnreadLeft + ComingLeft(c) + WaitingLeft(c) + ForwarderLeft(c) + ConnLeft(c)

\* Once the container prints no more, each of their steps brings the end, or the circle, nearer,
\* and no step of anybody else, the pump included, puts it off.
EndComesNearer ==
  [][stream # "open" =>
       \A c \in Conns :
         /\ Left(c)' <= Left(c)
         /\ Handler(c) \/ Shared(Writer(c)) \/ Forwarder(c) => Left(c)' < Left(c)]_vars

\* The numbers that are counted.
LEMMA LeftValues ==
  ASSUME TypeOK, NEW c \in Conns
  PROVE  /\ UnreadLeft \in Int /\ ComingLeft(c) \in Nat /\ WaitingLeft(c) \in Nat
         /\ ForwarderLeft(c) \in Nat /\ ConnLeft(c) \in Nat /\ Left(c) \in Int
         /\ HandlerLeft(c) \in Nat /\ WriterLeft(c) \in Nat /\ Len(writeCh[c]) \in Nat
<1>1. UnreadLeft \in Int
  <2>1. printed \in Int /\ chunk \in Int
    BY MaxOutputAssumption DEF TypeOK
  <2> QED BY <2>1 DEF UnreadLeft
<1>2. ComingLeft(c) \in Nat
  BY DEF ComingLeft
<1>3. WaitingLeft(c) \in Nat
  <2>1. Len(subCh[c]) \in Nat
    BY DEF TypeOK
  <2> QED BY <2>1 DEF WaitingLeft
<1>4. ForwarderLeft(c) \in Nat
  BY DEF ForwarderLeft, TypeOK
<1>5. /\ ConnLeft(c) \in Nat /\ HandlerLeft(c) \in Nat /\ WriterLeft(c) \in Nat
      /\ Len(writeCh[c]) \in Nat
  BY ConnLeftNat, ConnValues DEF TypeOK
<1>6. Left(c) \in Int
  BY <1>1, <1>2, <1>3, <1>4, <1>5 DEF Left
<1> QED BY <1>1, <1>2, <1>3, <1>4, <1>5, <1>6

LEMMA LeftNext ==
  ASSUME TypeOK', NEW c \in Conns
  PROVE  Left(c)' \in Int
<1>1. UnreadLeft' \in Int
  <2>1. printed' \in Int /\ chunk' \in Int
    BY MaxOutputAssumption DEF TypeOK
  <2> QED BY <2>1 DEF UnreadLeft
<1>2. ComingLeft(c)' \in Int
  BY DEF ComingLeft
<1>3. WaitingLeft(c)' \in Int
  <2>1. Len(subCh'[c]) \in Nat
    BY DEF TypeOK
  <2> QED BY <2>1 DEF WaitingLeft
<1>4. ForwarderLeft(c)' \in Int
  BY DEF ForwarderLeft, TypeOK
<1>5. ConnLeft(c)' \in Int
  BY ConnLeftNatNext DEF TypeOK
<1> QED BY <1>1, <1>2, <1>3, <1>4, <1>5 DEF Left

\* The pump moves a chunk on, or drops it, and makes nothing of its own.
LEMMA PumpCounts ==
  ASSUME TypeOK, Audience, NEW c \in Conns, Pump
  PROVE  Left(c)' <= Left(c)
<1>0. /\ UnreadLeft \in Int /\ ComingLeft(c) \in Nat /\ WaitingLeft(c) \in Nat
      /\ ForwarderLeft(c) \in Nat /\ ConnLeft(c) \in Nat /\ Left(c) \in Int
      /\ audience \in Seq(Conns)
  BY LeftValues DEF TypeOK
<1>1. ForwarderLeft(c)' = ForwarderLeft(c) /\ ConnLeft(c)' = ConnLeft(c)
  BY PumpSteps DEF wsVars, ForwarderLeft, ConnLeft, HandlerLeft, WriterLeft
<1>2. CASE ReadStream
  <2>1. /\ pump = "read" /\ pump' = "record" /\ subCh' = subCh
        /\ chunk' = chunk + 1 /\ printed' = printed /\ chunk \in Int /\ printed \in Int
    BY <1>2, MaxOutputAssumption DEF ReadStream, PumpStep, subVars, TypeOK
  <2>2. ComingLeft(c) = 0 /\ ComingLeft(c)' = 3 /\ WaitingLeft(c)' = WaitingLeft(c)
    BY <2>1 DEF ComingLeft, WaitingLeft
  <2>3. UnreadLeft' = UnreadLeft - 3
    BY <2>1 DEF UnreadLeft
  <2> QED BY <1>0, <1>1, <2>2, <2>3 DEF Left
<1>3. CASE ReadError \/ Record \/ CopySubscribers \/ BroadcastEnds
  <2>1. UnreadLeft' = UnreadLeft /\ WaitingLeft(c)' = WaitingLeft(c)
    BY <1>3 DEF ReadError, Record, CopySubscribers, BroadcastEnds, subVars, UnreadLeft, WaitingLeft
  <2>2. ComingLeft(c)' = ComingLeft(c) \/ (ComingLeft(c) = 3 /\ ComingLeft(c)' = 0)
    BY <1>3 DEF ReadError, Record, CopySubscribers, BroadcastEnds, PumpStep, ComingLeft, Elems
  <2>3. CASE ComingLeft(c)' = ComingLeft(c)
    BY <1>0, <1>1, <2>1, <2>3 DEF Left
  <2>4. CASE ComingLeft(c) = 3 /\ ComingLeft(c)' = 0
    BY <1>0, <1>1, <2>1, <2>4 DEF Left
  <2> QED BY <2>2, <2>3, <2>4
<1>4. CASE SendToNext
  <2>1. /\ pump = "send" /\ pump' = "send" /\ audience # <<>> /\ audience' = Tail(audience)
        /\ UnreadLeft' = UnreadLeft
    BY <1>4 DEF SendToNext, UnreadLeft
  <2>2. Elems(audience') = Elems(audience) \ {Head(audience)} /\ Head(audience) \in Elems(audience)
    BY <1>0, <2>1, DistinctTail DEF Audience
  <2>3. CASE Head(audience) = c
    <3>1. ComingLeft(c) = 3 /\ ComingLeft(c)' = 0
      BY <2>1, <2>2, <2>3 DEF ComingLeft
    <3>2. subCh[c] \in Seq(Chunks) /\ Len(subCh[c]) \in Nat
      BY DEF TypeOK
    <3>3. subCh'[c] = subCh[c] \/ subCh'[c] = Append(subCh[c], chunk)
      BY <1>4, <2>3 DEF SendToNext, TypeOK
    <3>4. Len(subCh'[c]) = Len(subCh[c]) \/ Len(subCh'[c]) = Len(subCh[c]) + 1
      BY <3>2, <3>3
    <3>5. WaitingLeft(c)' = WaitingLeft(c) \/ WaitingLeft(c)' = WaitingLeft(c) + 3
      BY <3>2, <3>4 DEF WaitingLeft
    <3> QED BY <1>0, <1>1, <2>1, <3>1, <3>5 DEF Left
  <2>4. CASE Head(audience) # c
    <3>1. ComingLeft(c)' = ComingLeft(c)
      BY <2>1, <2>2, <2>4 DEF ComingLeft
    <3>2. WaitingLeft(c)' = WaitingLeft(c)
      BY <1>4, <2>4 DEF SendToNext, TypeOK, WaitingLeft
    <3> QED BY <1>0, <1>1, <2>1, <3>1, <3>2 DEF Left
  <2> QED BY <2>3, <2>4
<1> QED BY <1>2, <1>3, <1>4 DEF Pump

\* A step of the handler or of the forwarder is one step less.
LEMMA OwnStepCounts ==
  ASSUME TypeOK, NEW c \in Conns, Phases(c),
         Subscribe(c) \/ StartAttach(c) \/ Return(c) \/ Forwarder(c)
  PROVE  Left(c)' < Left(c)
<1>0. /\ UnreadLeft \in Int /\ ComingLeft(c) \in Nat /\ WaitingLeft(c) \in Nat
      /\ ForwarderLeft(c) \in Nat /\ ConnLeft(c) \in Nat /\ Left(c) \in Int
      /\ HandlerLeft(c) \in Nat /\ WriterLeft(c) \in Nat /\ Len(writeCh[c]) \in Nat
      /\ subCh[c] \in Seq(Chunks) /\ Len(subCh[c]) \in Nat /\ writeCh[c] \in Seq(Messages)
  <2>1. subCh[c] \in Seq(Chunks) /\ Len(subCh[c]) \in Nat /\ writeCh[c] \in Seq(Messages)
    BY DEF TypeOK, WSTypeOK
  <2> QED BY <2>1, LeftValues
<1>1. UnreadLeft' = UnreadLeft /\ ComingLeft(c)' = ComingLeft(c)
  BY DEF Subscribe, StartAttach, Return, Forwarder, TakeChunk, Cancelled, Queue, GiveUp, pumpVars,
         UnreadLeft, ComingLeft
<1>2. CASE Subscribe(c) \/ Return(c)
  <2>1. /\ \/ handler[c] = "start" /\ handler'[c] = "subscribed"
           \/ handler[c] = "waiting" /\ handler'[c] = "returned"
        /\ UNCHANGED <<writer, writeCh, subCh, forwarder>>
    BY <1>2 DEF Subscribe, Return, HandlerStep, TypeOK, WSTypeOK
  <2>2. \/ HandlerLeft(c) = 4 /\ HandlerLeft(c)' = 3
        \/ HandlerLeft(c) = 1 /\ HandlerLeft(c)' = 0
    BY <2>1 DEF HandlerLeft
  <2>3. /\ WaitingLeft(c)' = WaitingLeft(c) /\ ForwarderLeft(c)' = ForwarderLeft(c)
        /\ WriterLeft(c)' = WriterLeft(c) /\ Len(writeCh'[c]) = Len(writeCh[c])
    BY <2>1 DEF WaitingLeft, ForwarderLeft, WriterLeft
  <2>4. ConnLeft(c)' = ConnLeft(c) - 1
    <3>1. ConnLeft(c)' = HandlerLeft(c)' + WriterLeft(c) + Len(writeCh[c])
      BY <2>3 DEF ConnLeft
    <3>2. WriterLeft(c) \in Int /\ Len(writeCh[c]) \in Int
      BY <1>0
    <3> QED BY <2>2, <3>1, <3>2 DEF ConnLeft
  <2> QED BY <1>0, <1>1, <2>3, <2>4 DEF Left
<1>3. CASE StartAttach(c)
  <2>1. /\ handler[c] = "subscribed" /\ handler'[c] = "reading" /\ writer'[c] = "running"
        /\ forwarder'[c] = "select" /\ UNCHANGED <<writeCh, subCh>>
    BY <1>3 DEF StartAttach, HandlerStep, TypeOK, WSTypeOK
  <2>2. writer[c] = "idle" /\ forwarder[c] = "idle"
    BY <2>1 DEF Phases
  <2>3. /\ HandlerLeft(c) = 3 /\ HandlerLeft(c)' = 2 /\ WriterLeft(c) = 2 /\ WriterLeft(c)' = 1
        /\ ForwarderLeft(c) = 2 /\ ForwarderLeft(c)' = 1 /\ WaitingLeft(c)' = WaitingLeft(c)
        /\ Len(writeCh'[c]) = Len(writeCh[c])
    BY <2>1, <2>2 DEF HandlerLeft, WriterLeft, ForwarderLeft, WaitingLeft
  <2>4. ConnLeft(c)' = ConnLeft(c) - 2
    BY <1>0, <2>3 DEF ConnLeft
  <2> QED BY <1>0, <1>1, <2>3, <2>4 DEF Left
<1>4. CASE TakeChunk(c)
  <2>1. /\ forwarder[c] = "select" /\ forwarder'[c] = "send" /\ subCh[c] # <<>>
        /\ subCh'[c] = Tail(subCh[c]) /\ UNCHANGED <<handler, writer, writeCh>>
    BY <1>4 DEF TakeChunk, ForwarderStep, wsVars, TypeOK
  <2>2. ForwarderLeft(c) = 1 /\ ForwarderLeft(c)' = 3 /\ ConnLeft(c)' = ConnLeft(c)
    BY <2>1 DEF ForwarderLeft, ConnLeft, HandlerLeft, WriterLeft
  <2>3. Len(subCh'[c]) = Len(subCh[c]) - 1
    BY <1>0, <2>1, RestOfQueue
  <2>4. WaitingLeft(c)' = WaitingLeft(c) - 3
    BY <1>0, <2>3 DEF WaitingLeft
  <2> QED BY <1>0, <1>1, <2>2, <2>4 DEF Left
<1>5. CASE Queue(c)
  <2>1. /\ forwarder[c] = "send" /\ forwarder'[c] = "select"
        /\ writeCh'[c] = Append(writeCh[c], held[c]) /\ UNCHANGED <<handler, writer, subCh>>
    BY <1>5 DEF Queue, Offer, ForwarderStep, TypeOK, WSTypeOK
  <2>2. /\ ForwarderLeft(c) = 3 /\ ForwarderLeft(c)' = 1 /\ WaitingLeft(c)' = WaitingLeft(c)
        /\ HandlerLeft(c)' = HandlerLeft(c) /\ WriterLeft(c)' = WriterLeft(c)
    BY <2>1 DEF ForwarderLeft, WaitingLeft, HandlerLeft, WriterLeft
  <2>3. Len(writeCh'[c]) = Len(writeCh[c]) + 1
    BY <1>0, <2>1, QueueGrows
  <2>4. ConnLeft(c)' = ConnLeft(c) + 1
    BY <1>0, <2>2, <2>3 DEF ConnLeft
  <2> QED BY <1>0, <1>1, <2>2, <2>4 DEF Left
<1>6. CASE Cancelled(c) \/ GiveUp(c)
  <2>1. /\ forwarder[c] = "select" \/ forwarder[c] = "send"
        /\ forwarder'[c] = "stopped" /\ UNCHANGED <<handler, writer, writeCh, subCh>>
    BY <1>6 DEF Cancelled, GiveUp, ForwarderStep, TypeOK
  <2>2. /\ ForwarderLeft(c) >= 1 /\ ForwarderLeft(c)' = 0 /\ WaitingLeft(c)' = WaitingLeft(c)
        /\ ConnLeft(c)' = ConnLeft(c)
    BY <2>1 DEF ForwarderLeft, WaitingLeft, ConnLeft, HandlerLeft, WriterLeft
  <2> QED BY <1>0, <1>1, <2>2 DEF Left
<1> QED BY <1>2, <1>3, <1>4, <1>5, <1>6 DEF Forwarder

\* The shared steps bring no chunk to a channel.
LEMMA SharedStepCounts ==
  ASSUME TypeOK, NEW c \in Conns, WSStep(c), UNCHANGED <<pumpVars, subVars>>
  PROVE  /\ Left(c)' <= Left(c)
         /\ FlushEvents(c) \/ ReadFails(c) \/ Writer(c) => Left(c)' < Left(c)
<1>0. /\ UnreadLeft \in Int /\ ComingLeft(c) \in Nat /\ WaitingLeft(c) \in Nat
      /\ ForwarderLeft(c) \in Nat /\ ConnLeft(c) \in Nat
  BY LeftValues
<1>1. WSTypeOK /\ WSTypeOK'
  BY DialHere, FlushHere, ClockHere, WriterHere DEF WSStep, TypeOK
<1>2. /\ UnreadLeft' = UnreadLeft /\ ComingLeft(c)' = ComingLeft(c)
      /\ WaitingLeft(c)' = WaitingLeft(c) /\ ForwarderLeft(c)' = ForwarderLeft(c)
  BY DEF pumpVars, subVars, UnreadLeft, ComingLeft, WaitingLeft, ForwarderLeft
<1>3. ConnLeft(c)' \in Int
  BY <1>1, ConnLeftNatNext
<1>4. /\ ConnLeft(c)' <= ConnLeft(c)
      /\ FlushEvents(c) \/ ReadFails(c) \/ Writer(c) => ConnLeft(c)' < ConnLeft(c)
  BY <1>1, SharedCountsDown
<1> QED BY <1>0, <1>2, <1>3, <1>4 DEF Left

\* A step for another connection changes nothing of this one.
LEMMA OthersStep ==
  ASSUME TypeOK, NEW c \in Conns, NEW d \in Conns, d # c,
         \/ WSStep(d) /\ UNCHANGED <<pumpVars, subVars>>
         \/ Subscribe(d) \/ StartAttach(d) \/ Return(d) \/ Forwarder(d)
  PROVE  Left(c)' = Left(c)
<1>1. SameWS(c)
  <2>1. CASE WSStep(d)
    BY <2>1, DialHere, FlushHere, ClockHere, WriterHere DEF WSStep, TypeOK
  <2>2. CASE Subscribe(d) \/ StartAttach(d) \/ Return(d) \/ Forwarder(d)
    <3>1. CASE Subscribe(d) \/ StartAttach(d) \/ Return(d)
      BY <3>1 DEF Subscribe, StartAttach, Return, HandlerStep, SameWS, TypeOK, WSTypeOK
    <3>2. CASE Forwarder(d)
      BY <3>2 DEF Forwarder, TakeChunk, Cancelled, Queue, GiveUp, wsVars, Offer, SameWS, TypeOK,
           WSTypeOK
    <3> QED BY <2>2, <3>1, <3>2
  <2> QED BY <2>1, <2>2
<1>2. SameSub(c)
  BY DEF Subscribe, StartAttach, Return, Forwarder, TakeChunk, Cancelled, Queue, GiveUp, ForwarderStep,
     subVars, SameSub, TypeOK
<1>3. UnreadLeft' = UnreadLeft /\ ComingLeft(c)' = ComingLeft(c)
  BY DEF Subscribe, StartAttach, Return, Forwarder, TakeChunk, Cancelled, Queue, GiveUp, pumpVars,
         UnreadLeft, ComingLeft
<1>4. /\ WaitingLeft(c)' = WaitingLeft(c) /\ ForwarderLeft(c)' = ForwarderLeft(c)
      /\ ConnLeft(c)' = ConnLeft(c)
  BY <1>1, <1>2 DEF SameWS, SameSub, WaitingLeft, ForwarderLeft, ConnLeft, HandlerLeft, WriterLeft
<1> QED BY <1>3, <1>4 DEF Left

\* The goroutines of an attach connection never run in a circle: once the container prints no
\* more, each of their steps lowers a number that nobody else raises (ws.go:153-198,
\* session.go:141-191).  With NoOtherCircle: a browser that has gone leaves its connection either
\* ended or in that one circle, and nothing else goes on for ever.
THEOREM EndIsCounted == Spec => EndComesNearer
<1>1. ASSUME TypeOK, TypeOK', Audience, PhaseInv, Next, stream # "open", NEW c \in Conns
      PROVE  /\ Left(c)' <= Left(c)
             /\ Handler(c) \/ Shared(Writer(c)) \/ Forwarder(c) => Left(c)' < Left(c)
  <2>0. Left(c) \in Int /\ Left(c)' \in Int /\ Phases(c)
    BY <1>1, LeftValues, LeftNext DEF PhaseInv
  <2>1. ASSUME Handler(c) \/ Shared(Writer(c)) \/ Forwarder(c) PROVE Left(c)' < Left(c)
    <3>1. \/ Subscribe(c) \/ StartAttach(c) \/ Return(c) \/ Forwarder(c)
          \/ /\ FlushEvents(c) \/ ReadFails(c) \/ Writer(c)
             /\ WSStep(c) /\ UNCHANGED <<pumpVars, subVars>>
      BY <2>1 DEF Handler, Shared, WSStep
    <3> QED BY <1>1, <2>0, <3>1, OwnStepCounts, SharedStepCounts
  <2>2. ASSUME NEW d \in Conns,
               \/ WSStep(d) /\ UNCHANGED <<pumpVars, subVars>>
               \/ Subscribe(d) \/ StartAttach(d) \/ Return(d) \/ Forwarder(d)
        PROVE  Left(c)' <= Left(c)
    <3>1. CASE d # c
      BY <1>1, <2>0, <2>2, <3>1, OthersStep
    <3>2. CASE d = c
      <4>1. Subscribe(c) \/ StartAttach(c) \/ Return(c) \/ Forwarder(c) => Left(c)' < Left(c)
        BY <2>1 DEF Handler
      <4> QED BY <1>1, <2>0, <2>2, <3>2, <4>1, SharedStepCounts
    <3> QED BY <3>1, <3>2
  <2>3. ASSUME CloseStream PROVE Left(c)' <= Left(c)
    <3>1. /\ UnreadLeft' = UnreadLeft /\ ComingLeft(c)' = ComingLeft(c)
          /\ WaitingLeft(c)' = WaitingLeft(c) /\ ForwarderLeft(c)' = ForwarderLeft(c)
          /\ ConnLeft(c)' = ConnLeft(c)
      BY <2>3 DEF CloseStream, wsVars, subVars, UnreadLeft, ComingLeft, WaitingLeft, ForwarderLeft,
           ConnLeft, HandlerLeft, WriterLeft
    <3> QED BY <2>0, <3>1 DEF Left
  <2>4. \/ CloseStream \/ Pump
        \/ \E d \in Conns :
             \/ WSStep(d) /\ UNCHANGED <<pumpVars, subVars>>
             \/ Subscribe(d) \/ StartAttach(d) \/ Return(d) \/ Forwarder(d)
    BY <1>1 DEF Next, Output, ContainerStops, Handler, Shared, WSStep
  <2> QED BY <1>1, <2>1, <2>2, <2>3, <2>4, PumpCounts
<1>2. TypeOK /\ TypeOK' /\ Audience /\ PhaseInv /\ [Next]_vars =>
        [stream # "open" =>
           \A c \in Conns :
             /\ Left(c)' <= Left(c)
             /\ Handler(c) \/ Shared(Writer(c)) \/ Forwarder(c) => Left(c)' < Left(c)]_vars
  BY <1>1
<1>3. FlowInv => TypeOK /\ Audience
  BY DEF FlowInv
<1> QED BY <1>2, <1>3, FlowAlways, PhaseAlways, PTL DEF Spec, EndComesNearer
-----------------------------------------------------------------------------
(* What the browsers have seen can be played back *)

\* What the pump sends on, and what is on its way to a browser, is in the recording.
ChunkSeen == pump \in {"copy", "send"} => InRecord(chunk)
WaySeen(c) == AllInRecord(subCh[c]) /\ (forwarder[c] = "send" => InRecord(held[c]))
SeenInv == ChunkSeen /\ \A c \in Conns : Seen(c) /\ WaySeen(c)

LEMMA SeenInit == Init => SeenInv
BY DEF Init, WSInit, SeenInv, ChunkSeen, WaySeen, Seen, AllInRecord

LEMMA WayFrame ==
  ASSUME NEW c \in Conns, WaySeen(c), \A m : InRecord(m) => InRecord(m)', subCh'[c] = subCh[c],
         forwarder'[c] = "send" => forwarder[c] = "send" /\ held'[c] = held[c]
  PROVE  WaySeen(c)'
BY DEF WaySeen, AllInRecord

\* A step that neither shows nor records anything.
LEMMA SeenStill ==
  ASSUME SeenInv, UNCHANGED <<rec, snapshot, writeCh, got, subCh>>,
         pump' \in {"copy", "send"} => pump \in {"copy", "send"} /\ chunk' = chunk,
         \A d \in Conns : forwarder'[d] = "send" => forwarder[d] = "send" /\ held'[d] = held[d]
  PROVE  SeenInv'
<1>1. \A m : InRecord(m)' <=> InRecord(m)
  BY DEF InRecord
<1>2. ChunkSeen'
  BY <1>1 DEF SeenInv, ChunkSeen
<1>3. ASSUME NEW d \in Conns PROVE Seen(d)' /\ WaySeen(d)'
  BY <1>1, SeenFrame, WayFrame DEF SeenInv
<1> QED BY <1>2, <1>3 DEF SeenInv

\* The pump records a chunk before it sends it to the subscribers.
LEMMA SeenPump ==
  ASSUME TypeOK, SeenInv, Record \/ SendToNext
  PROVE  SeenInv'
<1>1. CASE Record
  <2>1. /\ rec' = Append(rec, chunk)
        /\ UNCHANGED <<chunk, snapshot, writeCh, got, subCh, forwarder, held>>
    BY <1>1 DEF Record, subVars
  <2>2. InRecord(chunk)' /\ \A m : InRecord(m) => InRecord(m)'
    BY <2>1, RecordGrows DEF TypeOK, WSTypeOK
  <2>3. ChunkSeen'
    BY <2>1, <2>2 DEF ChunkSeen
  <2>4. ASSUME NEW d \in Conns PROVE Seen(d)' /\ WaySeen(d)'
    BY <2>1, <2>2, SeenFrame, WayFrame DEF SeenInv
  <2> QED BY <2>3, <2>4 DEF SeenInv
<1>2. CASE SendToNext
  <2>1. PICK e : e = Head(audience)
    OBVIOUS
  <2>2. /\ pump = "send" /\ pump' = "send" /\ audience # <<>>
        /\ UNCHANGED <<rec, snapshot, writeCh, got, chunk, forwarder, held>>
        /\ subCh' = subCh \/ subCh' = [subCh EXCEPT ![e] = Append(@, chunk)]
    BY <1>2, <2>1 DEF SendToNext, wsVars
  <2>3. \A m : InRecord(m)' <=> InRecord(m)
    BY <2>2 DEF InRecord
  <2>4. InRecord(chunk) /\ ChunkSeen'
    BY <2>2, <2>3 DEF SeenInv, ChunkSeen
  <2>5. chunk = Exit \/ chunk \in Chunks
    BY MaxOutputAssumption DEF TypeOK, Chunks, Exit
  <2>6. chunk \in Messages
    BY <2>5 DEF Messages
  <2>7. ASSUME NEW d \in Conns PROVE AllInRecord(subCh[d])' /\ Seen(d)'
    <3>1. subCh[d] \in Seq(Messages) /\ AllInRecord(subCh[d])
      BY DEF TypeOK, SeenInv, WaySeen, Messages
    <3>2. subCh'[d] = subCh[d] \/ subCh'[d] = Append(subCh[d], chunk)
      BY <2>2 DEF TypeOK
    <3>3. AllInRecord(Append(subCh[d], chunk))
      BY <2>4, <2>6, <3>1, RecordedAppend
    <3>4. AllInRecord(subCh'[d])
      BY <3>1, <3>2, <3>3
    <3>5. Seen(d)'
      BY <2>2, <2>3, SeenFrame DEF SeenInv
    <3> QED BY <2>3, <3>4, <3>5 DEF AllInRecord
  <2>8. ASSUME NEW d \in Conns PROVE WaySeen(d)'
    BY <2>2, <2>3, <2>7 DEF SeenInv, WaySeen
  <2> QED BY <2>4, <2>7, <2>8 DEF SeenInv
<1> QED BY <1>1, <1>2

\* The forwarder takes a chunk from the channel ...
LEMMA SeenTake ==
  ASSUME TypeOK, SeenInv, NEW c \in Conns, TakeChunk(c)
  PROVE  SeenInv'
<1>1. /\ UNCHANGED <<rec, snapshot, writeCh, got, pump, chunk>> /\ subCh[c] # <<>>
      /\ subCh'[c] = Tail(subCh[c]) /\ held'[c] = Head(subCh[c])
      /\ \A d \in Conns \ {c} :
           subCh'[d] = subCh[d] /\ held'[d] = held[d] /\ forwarder'[d] = forwarder[d]
  BY DEF TakeChunk, ForwarderStep, wsVars, pumpVars, TypeOK
<1>2. \A m : InRecord(m)' <=> InRecord(m)
  BY <1>1 DEF InRecord
<1>3. AllInRecord(Tail(subCh[c])) /\ InRecord(Head(subCh[c]))
  <2>1. subCh[c] \in Seq(Messages) /\ AllInRecord(subCh[c])
    BY DEF TypeOK, SeenInv, WaySeen, Messages
  <2> QED BY <1>1, <2>1, RecordedTail
<1>4. ASSUME NEW d \in Conns PROVE Seen(d)'
  BY <1>1, <1>2, SeenFrame DEF SeenInv
<1>5. WaySeen(c)'
  BY <1>1, <1>2, <1>3 DEF WaySeen, AllInRecord
<1>6. ASSUME NEW d \in Conns, d # c PROVE WaySeen(d)'
  BY <1>1, <1>2, <1>6, WayFrame DEF SeenInv
<1>7. ChunkSeen'
  BY <1>1, <1>2 DEF SeenInv, ChunkSeen
<1> QED BY <1>4, <1>5, <1>6, <1>7 DEF SeenInv

\* ... and queues it for the browser.
LEMMA SeenQueue ==
  ASSUME TypeOK, SeenInv, NEW c \in Conns, Queue(c)
  PROVE  SeenInv'
<1>1. /\ UNCHANGED <<rec, snapshot, got, held, pump, chunk, subCh>> /\ forwarder[c] = "send"
      /\ writeCh'[c] = Append(writeCh[c], held[c])
      /\ \A d \in Conns \ {c} : writeCh'[d] = writeCh[d]
      /\ \A d \in Conns : forwarder'[d] = "send" => forwarder[d] = "send"
  BY DEF Queue, Offer, ForwarderStep, pumpVars, TypeOK, WSTypeOK
<1>2. held[c] \in Messages /\ InRecord(held[c])
  <2>1. held[c] = Exit \/ held[c] \in Chunks
    BY MaxOutputAssumption DEF TypeOK, Chunks, Exit
  <2> QED BY <1>1, <2>1 DEF SeenInv, WaySeen, Messages
<1>3. \A m : InRecord(m)' <=> InRecord(m)
  BY <1>1 DEF InRecord
<1>4. ASSUME NEW d \in Conns PROVE Seen(d)'
  <2>1. CASE d = c
    BY <1>1, <1>2, <2>1, SeenQueued DEF SeenInv, TypeOK
  <2>2. CASE d # c
    BY <1>1, <1>3, <2>2, SeenFrame DEF SeenInv
  <2> QED BY <2>1, <2>2
<1>5. ASSUME NEW d \in Conns PROVE WaySeen(d)'
  BY <1>1, <1>3, WayFrame DEF SeenInv
<1>6. ChunkSeen'
  BY <1>1, <1>3 DEF SeenInv, ChunkSeen
<1> QED BY <1>4, <1>5, <1>6 DEF SeenInv

LEMMA SeenNext == TypeOK /\ SeenInv /\ [Next]_vars => SeenInv'
<1> SUFFICES ASSUME TypeOK, SeenInv, [Next]_vars PROVE SeenInv'
  OBVIOUS
<1>1. CASE Output \/ ContainerStops \/ CloseStream \/ UNCHANGED vars
  BY <1>1, SeenStill DEF Output, ContainerStops, CloseStream, vars, wsVars, pumpVars, subVars
<1>2. CASE ReadStream \/ ReadError \/ CopySubscribers \/ BroadcastEnds
  BY <1>2, SeenStill
  DEF ReadStream, ReadError, CopySubscribers, BroadcastEnds, PumpStep, wsVars, subVars
<1>3. CASE Record \/ SendToNext
  BY <1>3, SeenPump
<1>4. ASSUME NEW c \in Conns,
             \/ Shared(Dial(c)) \/ Shared(Leave(c)) \/ Shared(DeadlinePasses(c))
             \/ Shared(FlushEvents(c)) \/ Shared(ReadFails(c)) \/ Shared(Writer(c))
      PROVE  SeenInv'
  <2>1. WSStep(c) /\ UNCHANGED <<pump, chunk, subCh, forwarder, held>>
    BY <1>4 DEF Shared, WSStep, pumpVars, subVars
  <2>2. (\A m : InRecord(m)' <=> InRecord(m)) /\ \A d \in Conns : Seen(d)'
    BY <2>1, SeenShared DEF SeenInv, TypeOK
  <2>3. ASSUME NEW d \in Conns PROVE WaySeen(d)'
    BY <2>1, <2>2, WayFrame DEF SeenInv
  <2>4. ChunkSeen'
    BY <2>1, <2>2 DEF SeenInv, ChunkSeen
  <2> QED BY <2>2, <2>3, <2>4 DEF SeenInv
<1>5. ASSUME NEW c \in Conns,
             Subscribe(c) \/ StartAttach(c) \/ Return(c) \/ Cancelled(c) \/ GiveUp(c)
      PROVE  SeenInv'
  <2>1. /\ UNCHANGED <<rec, snapshot, writeCh, got, subCh, chunk>>
        /\ pump' \in {"copy", "send"} => pump \in {"copy", "send"}
        /\ \A d \in Conns : forwarder'[d] = "send" => forwarder[d] = "send" /\ held'[d] = held[d]
    BY <1>5
    DEF Subscribe, StartAttach, Return, Cancelled, GiveUp, ForwarderStep, pumpVars, TypeOK
  <2> QED BY <2>1, SeenStill
<1>6. ASSUME NEW c \in Conns, TakeChunk(c) \/ Queue(c) PROVE SeenInv'
  BY <1>6, SeenTake, SeenQueue
<1> QED BY <1>1, <1>2, <1>3, <1>4, <1>5, <1>6 DEF Next, Pump, Handler, Forwarder

\* Whatever a browser was shown is in the recording that a later browser is given and the player
\* plays, however many browsers there are: the pump records a chunk before it broadcasts it, and
\* every flush is a copy of the recording (session.go:168-191, ws.go:84, ws.go:172-183).
THEOREM SeenCanBePlayedBack == Spec => []SeenIsRecorded
<1>1. TypeOK /\ SeenInv => SeenIsRecorded
  BY DEF SeenInv, Seen, AllInRecord, InRecord, SeenIsRecorded
<1> QED BY <1>1, SeenInit, SeenNext, AttachTypeCorrect, PTL DEF Spec
=============================================================================
