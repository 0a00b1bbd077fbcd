-------------------------- MODULE ExecSessionProofs --------------------------
(***************************************************************************)
(* Theorems about ExecSession, for any number of connections that read     *)
(* one stream, channels of any capacity and any amount of output.          *)
(***************************************************************************)
EXTENDS ExecSession, FiniteSetTheorems, WSConnProofs

Recorded(n) == \E i \in 1 .. Len(rec) : rec[i] = n
Holds(c, n) == reader[c] = "record" /\ held[c] = n

\* A chunk that has been taken is at one place: one of the recording, or one reader's hands.
OnePlace ==
  /\ \A i, j \in 1 .. Len(rec) : rec[i] = rec[j] => i = j
  /\ \A c, d \in Conns, n \in 1 .. taken : Holds(c, n) /\ Holds(d, n) => c = d
  /\ \A c \in Conns, n \in 1 .. taken : ~(Holds(c, n) /\ Recorded(n))
  /\ \A n \in 1 .. taken : Recorded(n) \/ \E c \in Conns : Holds(c, n)

Types ==
  /\ taken \in Nat
  /\ rec \in Seq(1 .. taken)
  /\ reader \in [Conns -> {"idle", "read", "record", "send", "bye", "stopped"}]
  /\ held \in [Conns -> Nat]
  /\ \A c \in Conns : reader[c] = "record" => held[c] \in 1 .. taken

IInv == Types /\ OnePlace

-----------------------------------------------------------------------------
LEMMA InitIInv == Init => IInv
BY DEF Init, WSInit, IInv, Types, OnePlace, Recorded, Holds

\* A step that records nothing, reads nothing and leaves the readers that are about to record.
LEMMA Elsewhere ==
  ASSUME IInv, UNCHANGED <<rec, taken, held>>,
         reader' \in [Conns -> {"idle", "read", "record", "send", "bye", "stopped"}],
         \A d \in Conns : reader'[d] = "record" <=> reader[d] = "record"
  PROVE  IInv'
<1>1. Types'
  BY DEF IInv, Types
<1>2. OnePlace'
  BY DEF IInv, OnePlace, Recorded, Holds
<1> QED BY <1>1, <1>2 DEF IInv

LEMMA ReaderMoves ==
  ASSUME IInv, NEW c \in Conns, NEW from, NEW to, ReaderStep(c, from, to),
         from \in {"idle", "read", "send", "bye"}, to \in {"read", "bye", "stopped"},
         UNCHANGED <<rec, taken, held>>
  PROVE  IInv'
<1>1. /\ reader' \in [Conns -> {"idle", "read", "record", "send", "bye", "stopped"}]
      /\ \A d \in Conns : reader'[d] = "record" <=> reader[d] = "record"
  BY DEF ReaderStep, IInv, Types
<1> QED BY <1>1, Elsewhere

\* The stream gives a reader the next chunk, which is nowhere yet.
LEMMA ReadStreamIInv ==
  ASSUME IInv, NEW c \in Conns, ReadStream(c)
  PROVE  IInv'
<1>0. PICK n : n = taken + 1
  OBVIOUS
<1>1. /\ taken \in Nat /\ taken' = n /\ rec' = rec /\ rec \in Seq(1 .. taken)
      /\ reader[c] = "read"
      /\ \A d \in Conns : reader'[d] = IF d = c THEN "record" ELSE reader[d]
      /\ \A d \in Conns : held'[d] = IF d = c THEN n ELSE held[d]
      /\ \A d \in Conns : reader[d] = "record" => held[d] \in 1 .. taken
  BY <1>0 DEF ReadStream, ReaderStep, wsVars, IInv, Types
<1>2. Types'
  <2>1. rec' \in Seq(1 .. taken')
    BY <1>0, <1>1
  <2>2. /\ reader' \in [Conns -> {"idle", "read", "record", "send", "bye", "stopped"}]
        /\ held' \in [Conns -> Nat]
    BY <1>0, <1>1 DEF ReadStream, ReaderStep, IInv, Types
  <2>3. \A d \in Conns : reader'[d] = "record" => held'[d] \in 1 .. taken'
    BY <1>0, <1>1
  <2> QED BY <1>0, <1>1, <2>1, <2>2, <2>3 DEF Types
<1>3. \A m \in 1 .. taken : Recorded(m)' <=> Recorded(m)
  BY <1>1 DEF Recorded
<1>4. ~Recorded(n)'
  BY <1>0, <1>1 DEF Recorded
<1>5. \A d \in Conns : Holds(d, n)' <=> d = c
  BY <1>0, <1>1 DEF Holds
<1>6. \A d \in Conns, m \in 1 .. taken : Holds(d, m)' <=> Holds(d, m)
  BY <1>0, <1>1 DEF Holds
<1>7. \A m \in 1 .. taken' : m = n \/ m \in 1 .. taken
  BY <1>0, <1>1
<1>8. OnePlace'
  <2>1. \A i, j \in 1 .. Len(rec') : rec'[i] = rec'[j] => i = j
    BY <1>1 DEF IInv, OnePlace
  <2>2. \A d, e \in Conns, m \in 1 .. taken' : Holds(d, m)' /\ Holds(e, m)' => d = e
    BY <1>5, <1>6, <1>7 DEF IInv, OnePlace
  <2>3. \A d \in Conns, m \in 1 .. taken' : ~(Holds(d, m)' /\ Recorded(m)')
    BY <1>3, <1>4, <1>6, <1>7 DEF IInv, OnePlace
  <2>4. \A m \in 1 .. taken' : Recorded(m)' \/ \E d \in Conns : Holds(d, m)'
    BY <1>3, <1>5, <1>6, <1>7 DEF IInv, OnePlace
  <2> QED BY <2>1, <2>2, <2>3, <2>4 DEF OnePlace
<1> QED BY <1>2, <1>8 DEF IInv

\* A reader records its chunk, which nobody else has and the recording had not.
LEMMA RecordIInv ==
  ASSUME IInv, NEW c \in Conns, Record(c)
  PROVE  IInv'
<1> DEFINE n == held[c]
<1>1. /\ taken \in Nat /\ taken' = taken /\ held' = held
      /\ rec \in Seq(1 .. taken) /\ n \in 1 .. taken /\ rec' = Append(rec, n)
      /\ \A d \in Conns : reader'[d] = IF d = c THEN "send" ELSE reader[d]
      /\ Holds(c, n)
  BY DEF Record, ReaderStep, IInv, Types, Holds
<1> HIDE DEF n
<1>2. /\ Len(rec') = Len(rec) + 1 /\ rec'[Len(rec) + 1] = n
      /\ \A i \in 1 .. Len(rec) : rec'[i] = rec[i]
      /\ rec' \in Seq(1 .. taken)
  BY <1>1
<1>3. \A m \in 1 .. taken : Recorded(m)' <=> m = n \/ Recorded(m)
  <2>1. 1 .. Len(rec') = 1 .. Len(rec) \cup {Len(rec) + 1}
    BY <1>1, <1>2
  <2> QED BY <2>1, <1>2 DEF Recorded
<1>4. \A d \in Conns, m \in 1 .. taken : Holds(d, m)' <=> d # c /\ Holds(d, m)
  BY <1>1 DEF Holds
<1>5. \A d \in Conns : d # c => ~Holds(d, n)
  BY <1>1 DEF IInv, OnePlace
<1>6. \A m \in 1 .. taken : Holds(c, m) => m = n
  BY <1>1 DEF Holds
<1>7. ~Recorded(n)
  BY <1>1 DEF IInv, OnePlace
<1>8. Types'
  <2>1. reader' \in [Conns -> {"idle", "read", "record", "send", "bye", "stopped"}]
    BY DEF Record, ReaderStep, IInv, Types
  <2>2. \A d \in Conns : reader'[d] = "record" => held'[d] \in 1 .. taken'
    BY <1>1 DEF IInv, Types
  <2> QED BY <1>1, <1>2, <2>1, <2>2 DEF IInv, Types
<1>9. OnePlace'
  <2>1. \A i, j \in 1 .. Len(rec') : rec'[i] = rec'[j] => i = j
    <3>1. \A i \in 1 .. Len(rec) : rec[i] # n
      BY <1>7 DEF Recorded
    <3>2. \A i, j \in 1 .. Len(rec) : rec[i] = rec[j] => i = j
      BY DEF IInv, OnePlace
    <3>3. \A i \in 1 .. Len(rec') : i \in 1 .. Len(rec) \/ i = Len(rec) + 1
      BY <1>1, <1>2
    <3> QED BY <1>2, <3>1, <3>2, <3>3
  <2>2. \A d, e \in Conns, m \in 1 .. taken' : Holds(d, m)' /\ Holds(e, m)' => d = e
    BY <1>1, <1>4 DEF IInv, OnePlace
  <2>3. \A d \in Conns, m \in 1 .. taken' : ~(Holds(d, m)' /\ Recorded(m)')
    BY <1>1, <1>3, <1>4, <1>5 DEF IInv, OnePlace
  <2>4. \A m \in 1 .. taken' : Recorded(m)' \/ \E d \in Conns : Holds(d, m)'
    BY <1>1, <1>3, <1>4, <1>6 DEF IInv, OnePlace
  <2> QED BY <2>1, <2>2, <2>3, <2>4 DEF OnePlace
<1> QED BY <1>8, <1>9 DEF IInv

LEMMA NextIInv == IInv /\ [Next]_vars => IInv'
<1> SUFFICES ASSUME IInv, [Next]_vars PROVE IInv'
  OBVIOUS
<1>1. ASSUME UNCHANGED <<rec, taken, reader, held>> PROVE IInv'
  BY <1>1, Elsewhere DEF IInv, Types
<1>2. CASE Output \/ ShellExits \/ CloseStream \/ UNCHANGED vars
  BY <1>1, <1>2 DEF Output, ShellExits, CloseStream, vars, wsVars
<1>3. ASSUME NEW c \in Conns,
             \/ Shared(Dial(c)) \/ Shared(Leave(c)) \/ Shared(DeadlinePasses(c))
             \/ Shared(FlushEvents(c)) \/ Shared(ReadFails(c)) \/ Return(c) \/ Shared(Writer(c))
      PROVE  IInv'
  BY <1>1, <1>3
  DEF Shared, Dial, Leave, DeadlinePasses, FlushEvents, FlushAll, FlushFails, ReadFails, Return,
      Writer, Deliver, Vanish, WriteFails, WriterEnds
<1>4. ASSUME NEW c \in Conns, StartExec(c) PROVE IInv'
  BY <1>4, ReaderMoves DEF StartExec
<1>5. ASSUME NEW c \in Conns, StreamReader(c) PROVE IInv'
  <2>1. CASE ReadStream(c)
    BY <2>1, ReadStreamIInv
  <2>2. CASE Record(c)
    BY <2>2, RecordIInv
  <2>3. CASE ReadError(c)
    BY <2>3, ReaderMoves DEF ReadError, wsVars
  <2>4. CASE Queue(c)
    BY <2>4, ReaderMoves DEF Queue
  <2>5. CASE GiveUp(c)
    BY <2>5, ReaderMoves DEF GiveUp
  <2>6. CASE Bye(c)
    BY <2>6, ReaderMoves DEF Bye
  <2> QED BY <1>5, <2>1, <2>2, <2>3, <2>4, <2>5, <2>6 DEF StreamReader
<1> QED BY <1>2, <1>3, <1>4, <1>5 DEF Next, Connect, Handler

\* However many connections read the one stream, and whatever becomes of their browsers, each
\* chunk that was read is recorded once, or is in the hands of the one reader that is about to
\* record it (ws.go:112-122).
THEOREM EachChunkIsRecordedOnce == Spec => []RecordedOnce
<1>1. IInv => RecordedOnce
  <2> SUFFICES ASSUME IInv, NEW n \in 1 .. taken
               PROVE  Cardinality({i \in 1 .. Len(rec) : rec[i] = n})
                        = IF \E c \in Conns : reader[c] = "record" /\ held[c] = n THEN 0 ELSE 1
    BY DEF RecordedOnce
  <2> DEFINE places == {i \in 1 .. Len(rec) : rec[i] = n}
  <2>1. CASE \E c \in Conns : Holds(c, n)
    <3>1. ~Recorded(n)
      BY <2>1 DEF IInv, OnePlace
    <3>2. places = {}
      BY <3>1 DEF Recorded
    <3> QED BY <2>1, <3>2, FS_EmptySet DEF Holds
  <2>2. CASE ~\E c \in Conns : Holds(c, n)
    <3>1. PICK i \in 1 .. Len(rec) : rec[i] = n
      BY <2>2 DEF IInv, OnePlace, Recorded
    <3>2. places = {i}
      BY <3>1 DEF IInv, OnePlace
    <3>3. Cardinality(places) = 1
      BY <3>2, FS_Singleton
    <3> QED BY <2>2, <3>3 DEF Holds
  <2> QED BY <2>1, <2>2
<1> QED BY <1>1, InitIInv, NextIInv, PTL DEF Spec

-----------------------------------------------------------------------------
(* The way of a chunk to the browser *)

\* The reader has a chunk in hand for the browser.
InHand(c) == reader[c] \in {"record", "send"}

\* Nothing live is under way before both goroutines run ...
NotYet(c) ==
  /\ handler[c] \in {"idle", "flush", "start"} =>
       reader[c] = "idle" /\ writer[c] = "idle" /\ writeCh[c] = <<>>
  /\ handler[c] \in {"idle", "flush"} => got[c] = <<>>
  /\ handler[c] = "start" => Len(got[c]) <= Len(snapshot[c])

\* ... and what is received, what is queued and what is in hand lie in this order, and have
\* all been taken from the stream.
AllTaken(c) ==
  /\ \A i \in 1 .. Len(snapshot[c]) : snapshot[c][i] <= taken
  /\ \A i \in 1 .. Len(got[c]) : got[c][i] <= taken
  /\ \A i \in 1 .. Len(writeCh[c]) : writeCh[c][i] <= taken

GotInOrder(c) ==
  \A j \in Len(snapshot[c]) + 1 .. Len(got[c]) : \A i \in 1 .. j - 1 :
    got[c][j] # Exit => got[c][i] < got[c][j]

QueueInOrder(c) ==
  \A j \in 1 .. Len(writeCh[c]) : writeCh[c][j] # Exit =>
    /\ \A i \in 1 .. Len(got[c]) : got[c][i] < writeCh[c][j]
    /\ \A i \in 1 .. j - 1 : writeCh[c][i] < writeCh[c][j]

HandIsNewest(c) ==
  InHand(c) =>
    /\ held[c] \in 1 .. taken
    /\ \A i \in 1 .. Len(got[c]) : got[c][i] < held[c]
    /\ \A i \in 1 .. Len(writeCh[c]) : writeCh[c][i] < held[c]

InLine(c) == AllTaken(c) /\ GotInOrder(c) /\ QueueInOrder(c) /\ HandIsNewest(c)

FlowInv == TypeOK /\ \A c \in Conns : NotYet(c) /\ InLine(c)

SameAt(c) ==
  /\ handler'[c] = handler[c] /\ reader'[c] = reader[c] /\ writer'[c] = writer[c]
  /\ snapshot'[c] = snapshot[c] /\ writeCh'[c] = writeCh[c] /\ got'[c] = got[c]
  /\ held'[c] = held[c]

\* A connection that a step does not touch, although another may have taken a chunk.
LEMMA FlowFrame ==
  ASSUME FlowInv, NEW c \in Conns, SameAt(c), taken' \in Nat, taken <= taken'
  PROVE  NotYet(c)' /\ InLine(c)'
<1>1. /\ snapshot[c] \in Seq(Chunks) /\ got[c] \in Seq(Messages) /\ writeCh[c] \in Seq(Messages)
      /\ taken \in Nat
  BY MaxOutputAssumption DEF FlowInv, TypeOK, WSTypeOK
<1>2. /\ \A i \in 1 .. Len(snapshot[c]) : snapshot[c][i] \in Int
      /\ \A i \in 1 .. Len(got[c]) : got[c][i] \in Int
      /\ \A i \in 1 .. Len(writeCh[c]) : writeCh[c][i] \in Int
  BY <1>1, MaxOutputAssumption DEF Messages, Chunks, Exit
<1>3. NotYet(c)'
  BY DEF FlowInv, NotYet, SameAt
<1>4. AllTaken(c)'
  BY <1>1, <1>2 DEF FlowInv, InLine, AllTaken, SameAt
<1>5. GotInOrder(c)' /\ QueueInOrder(c)'
  BY DEF FlowInv, InLine, GotInOrder, QueueInOrder, SameAt
<1>6. HandIsNewest(c)'
  <2>1. held[c] \in 1 .. taken => held[c] \in 1 .. taken'
    BY <1>1
  <2> QED BY <2>1 DEF FlowInv, InLine, HandIsNewest, InHand, SameAt
<1> QED BY <1>3, <1>4, <1>5, <1>6 DEF InLine

\* So it is enough to look at the connection that the step is about.
LEMMA OneConnection ==
  ASSUME FlowInv, TypeOK', NEW c \in Conns, NotYet(c)', InLine(c)', taken <= taken',
         \A d \in Conns \ {c} : SameAt(d)
  PROVE  FlowInv'
<1>1. taken' \in Nat
  BY MaxOutputAssumption DEF TypeOK
<1> QED BY <1>1, FlowFrame DEF FlowInv

LEMMA NoConnection ==
  ASSUME FlowInv, TypeOK', taken <= taken', \A d \in Conns : SameAt(d)
  PROVE  FlowInv'
<1>1. taken' \in Nat
  BY MaxOutputAssumption DEF TypeOK
<1> QED BY <1>1, FlowFrame DEF FlowInv

flowVars == <<rec, handler, snapshot, writer, writeCh, closed, got, reader, held>>

LEMMA FlowInit == Init => FlowInv
<1> SUFFICES ASSUME Init PROVE FlowInv
  OBVIOUS
<1>1. TypeOK
  BY MaxOutputAssumption, ChCapAssumption DEF Init, WSInit, TypeOK, WSTypeOK
<1>2. ASSUME NEW c \in Conns PROVE NotYet(c) /\ InLine(c)
  BY <1>2 DEF Init, WSInit, NotYet, InLine, InHand,
            AllTaken, GotInOrder, QueueInOrder, HandIsNewest
<1> QED BY <1>1, <1>2 DEF FlowInv

\* The container, evict, the clock, and a browser that leaves.
LEMMA FlowOutside ==
  ASSUME FlowInv, UNCHANGED flowVars, TypeOK', taken' = taken
  PROVE  FlowInv'
<1>1. taken <= taken'
  BY MaxOutputAssumption DEF FlowInv, TypeOK
<1> QED BY <1>1, NoConnection DEF flowVars, SameAt

\* What one connection's values are.
LEMMA AtConnection ==
  ASSUME FlowInv, NEW c \in Conns
  PROVE  /\ snapshot[c] \in Seq(Chunks) /\ got[c] \in Seq(Messages)
         /\ writeCh[c] \in Seq(Messages) /\ Len(writeCh[c]) <= ChCap
         /\ taken \in Nat /\ printed \in Nat /\ taken <= printed /\ printed <= MaxOutput
         /\ held[c] \in Nat
         /\ \A i \in 1 .. Len(got[c]) : got[c][i] \in Nat
         /\ \A i \in 1 .. Len(writeCh[c]) : writeCh[c][i] \in Nat
BY MaxOutputAssumption DEF FlowInv, TypeOK, WSTypeOK, Messages, Chunks, Exit

\* The recording is copied and sent to the browser.
LEMMA FlowFlush ==
  ASSUME FlowInv, IInv, NEW c \in Conns, Shared(Dial(c)) \/ Shared(FlushEvents(c))
  PROVE  FlowInv'
<1>1. taken' = taken /\ taken <= taken' /\ \A d \in Conns \ {c} : SameAt(d)
  BY AtConnection
  DEF Shared, Dial, FlushEvents, FlushAll, FlushFails, HandlerStep, SameAt, FlowInv, TypeOK, WSTypeOK
<1>2. CASE Shared(Dial(c))
  <2>1. /\ handler[c] = "idle" /\ handler'[c] = "flush" /\ snapshot'[c] = rec
        /\ UNCHANGED <<writer, writeCh, got, reader, held>>
    BY <1>2 DEF Shared, Dial, HandlerStep, FlowInv, TypeOK, WSTypeOK
  <2>2. TypeOK'
    BY <1>2 DEF Shared, Dial, HandlerStep, FlowInv, TypeOK, WSTypeOK
  <2>3. reader[c] = "idle" /\ writer[c] = "idle" /\ writeCh[c] = <<>> /\ got[c] = <<>>
    BY <2>1 DEF FlowInv, NotYet
  <2>4. \A i \in 1 .. Len(rec) : rec[i] <= taken
    BY DEF IInv, Types
  <2>5. NotYet(c)' /\ InLine(c)'
    BY <1>1, <2>1, <2>3, <2>4 DEF NotYet, InLine, InHand,
                                                AllTaken, GotInOrder, QueueInOrder, HandIsNewest
  <2> QED BY <1>1, <2>2, <2>5, OneConnection
<1>3. CASE Shared(FlushEvents(c))
  <2>1. PICK n \in 0 .. Len(snapshot[c]) : got'[c] = SubSeq(snapshot[c], 1, n)
    <3>1. CASE Shared(FlushAll(c))
      <4>1. got'[c] = snapshot[c] /\ snapshot[c] \in Seq(Chunks)
        BY <3>1, AtConnection DEF Shared, FlushAll, FlowInv, TypeOK, WSTypeOK
      <4> QED BY <4>1
    <3>2. CASE Shared(FlushFails(c))
      <4>1. PICK n \in 1 .. Len(snapshot[c]) : got'[c] = SubSeq(snapshot[c], 1, n - 1)
        BY <3>2 DEF Shared, FlushFails, FlowInv, TypeOK, WSTypeOK
      <4> QED BY <4>1, AtConnection
    <3> QED BY <1>3, <3>1, <3>2 DEF FlushEvents, Shared
  <2>2. /\ handler[c] = "flush" /\ handler'[c] = "start"
        /\ UNCHANGED <<rec, client, snapshot, writer, writeCh, closed, printed, taken, stream, reader, held>>
    BY <1>3 DEF Shared, FlushEvents, FlushAll, FlushFails, HandlerStep, FlowInv, TypeOK, WSTypeOK
  <2>3. /\ got'[c] \in Seq(Chunks) /\ Len(got'[c]) = n
        /\ \A i \in 1 .. n : got'[c][i] = snapshot[c][i]
    BY <2>1, AtConnection
  <2>4. /\ handler' \in [Conns -> {"idle", "flush", "start", "subscribed", "reading", "waiting",
                                   "returned"}]
        /\ deadline' \in [Conns -> {"none", "set", "passed"}]
    BY <1>3
    DEF Shared, FlushEvents, FlushAll, FlushFails, HandlerStep, FlowInv, TypeOK, WSTypeOK
  <2>5. got' \in [Conns -> Seq(Messages)]
    <3>1. got'[c] \in Seq(Messages)
      BY <2>3 DEF Messages
    <3>2. got' = [got EXCEPT ![c] = got'[c]]
      BY <1>3 DEF Shared, FlushEvents, FlushAll, FlushFails, FlowInv, TypeOK, WSTypeOK
    <3> QED BY <3>1, <3>2 DEF FlowInv, TypeOK, WSTypeOK
  <2>6. TypeOK'
    BY <2>2, <2>4, <2>5 DEF FlowInv, TypeOK, WSTypeOK
  <2>7. reader[c] = "idle" /\ writer[c] = "idle" /\ writeCh[c] = <<>>
    BY <2>2 DEF FlowInv, NotYet
  <2>8. \A i \in 1 .. Len(snapshot[c]) : snapshot[c][i] <= taken
    BY DEF FlowInv, InLine, AllTaken
  <2>9. NotYet(c)' /\ InLine(c)'
    <3>1. NotYet(c)'
      BY <2>1, <2>2, <2>3, <2>7 DEF NotYet
    <3>2. InLine(c)'
      BY <2>1, <2>2, <2>3, <2>7, <2>8, AtConnection DEF InLine, InHand,
                                                             AllTaken, GotInOrder, QueueInOrder, HandIsNewest
    <3> QED BY <3>1, <3>2
  <2> QED BY <1>1, <2>6, <2>9, OneConnection
<1> QED BY <1>2, <1>3

\* The handler starts the goroutines, leaves its loop or returns.
LEMMA FlowHandler ==
  ASSUME FlowInv, NEW c \in Conns, StartExec(c) \/ Shared(ReadFails(c)) \/ Return(c)
  PROVE  FlowInv'
<1>1. taken' = taken /\ taken <= taken' /\ \A d \in Conns \ {c} : SameAt(d)
  BY AtConnection
  DEF Shared, StartExec, ReadFails, Return, HandlerStep, ReaderStep, SameAt, FlowInv, TypeOK, WSTypeOK
<1>2. TypeOK'
  <2>1. CASE StartExec(c)
    BY <2>1 DEF StartExec, HandlerStep, ReaderStep, FlowInv, TypeOK, WSTypeOK
  <2>2. CASE Shared(ReadFails(c))
    BY <2>2 DEF Shared, ReadFails, HandlerStep, FlowInv, TypeOK, WSTypeOK
  <2>3. CASE Return(c)
    BY <2>3 DEF Return, HandlerStep, FlowInv, TypeOK, WSTypeOK
  <2> QED BY <2>1, <2>2, <2>3
<1>3. /\ handler'[c] \in {"reading", "waiting", "returned"}
      /\ UNCHANGED <<taken, snapshot, writeCh, got, held>>
      /\ reader'[c] = reader[c] \/ reader'[c] = "read"
  BY DEF Shared, StartExec, ReadFails, Return, HandlerStep, ReaderStep, FlowInv, TypeOK, WSTypeOK
<1>4. NotYet(c)' /\ InLine(c)'
  BY <1>3 DEF NotYet, InLine, InHand, FlowInv,
               AllTaken, GotInOrder, QueueInOrder, HandIsNewest
<1> QED BY <1>1, <1>2, <1>4, OneConnection

\* The reader has its goroutine's handler behind it: it is past StartExec.
LEMMA PastStart ==
  ASSUME FlowInv, NEW c \in Conns, reader[c] # "idle" \/ writer[c] # "idle"
  PROVE  handler[c] \notin {"idle", "flush", "start"}
BY DEF FlowInv, NotYet

\* The reader takes a chunk, the newest there is.
LEMMA FlowReadStream ==
  ASSUME FlowInv, NEW c \in Conns, ReadStream(c)
  PROVE  FlowInv'
<1>1. /\ taken' = taken + 1 /\ taken <= taken' /\ taken \in Nat
      /\ \A d \in Conns \ {c} : SameAt(d)
  BY AtConnection DEF ReadStream, wsVars, ReaderStep, SameAt, FlowInv, TypeOK
<1>2. /\ reader[c] = "read" /\ reader'[c] = "record" /\ held'[c] = taken + 1
      /\ UNCHANGED <<handler, writer, snapshot, writeCh, got>>
  BY DEF ReadStream, wsVars, ReaderStep, FlowInv, TypeOK
<1>3. TypeOK'
  <2>1. taken + 1 \in 0 .. printed /\ taken + 1 \in 0 .. MaxOutput
    <3>1. taken < printed
      BY DEF ReadStream
    <3>2. taken \in Nat /\ printed \in Nat /\ printed <= MaxOutput
      BY AtConnection
    <3> QED BY <3>1, <3>2, MaxOutputAssumption
  <2> QED BY <2>1 DEF ReadStream, wsVars, ReaderStep, FlowInv, TypeOK, WSTypeOK
<1>4. NotYet(c)'
  BY <1>2, PastStart DEF NotYet
<1>5. InLine(c)'
  <2>1. /\ \A i \in 1 .. Len(snapshot[c]) : snapshot[c][i] \in Int /\ snapshot[c][i] <= taken
        /\ \A i \in 1 .. Len(got[c]) : got[c][i] \in Int /\ got[c][i] <= taken
        /\ \A i \in 1 .. Len(writeCh[c]) : writeCh[c][i] \in Int /\ writeCh[c][i] <= taken
    <3>1. \A i \in 1 .. Len(snapshot[c]) : snapshot[c][i] \in Int
      BY AtConnection, MaxOutputAssumption DEF Chunks
    <3>2. /\ \A i \in 1 .. Len(got[c]) : got[c][i] \in Int
          /\ \A i \in 1 .. Len(writeCh[c]) : writeCh[c][i] \in Int
      BY AtConnection
    <3> QED BY <3>1, <3>2 DEF FlowInv, InLine, AllTaken
  <2>2. AllTaken(c)'
    BY <1>1, <1>2, <2>1 DEF AllTaken
  <2>3. GotInOrder(c)' /\ QueueInOrder(c)'
    BY <1>2 DEF FlowInv, InLine, GotInOrder, QueueInOrder
  <2>4. HandIsNewest(c)'
    BY <1>1, <1>2, <2>1 DEF HandIsNewest
  <2> QED BY <2>2, <2>3, <2>4 DEF InLine
<1> QED BY <1>1, <1>3, <1>4, <1>5, OneConnection

\* The reader records, fails or stops.
LEMMA FlowReader ==
  ASSUME FlowInv, NEW c \in Conns, ReadError(c) \/ Record(c) \/ GiveUp(c)
  PROVE  FlowInv'
<1>1. taken' = taken /\ taken <= taken' /\ \A d \in Conns \ {c} : SameAt(d)
  BY AtConnection DEF ReadError, Record, GiveUp, wsVars, ReaderStep, SameAt, FlowInv, TypeOK
<1>2. /\ reader[c] # "idle"
      /\ InHand(c)' => InHand(c)
      /\ UNCHANGED <<taken, handler, writer, snapshot, writeCh, got, held>>
  BY DEF ReadError, Record, GiveUp, wsVars, ReaderStep, InHand, FlowInv, TypeOK
<1>3. TypeOK'
  <2>1. ASSUME Record(c) PROVE held[c] \in Chunks
    <3>1. InHand(c)
      BY <2>1 DEF Record, ReaderStep, InHand
    <3>2. held[c] \in 1 .. taken
      BY <3>1 DEF FlowInv, InLine, HandIsNewest
    <3> QED BY <3>2, AtConnection, MaxOutputAssumption DEF Chunks
  <2>2. Record(c) => rec' \in Seq(Chunks)
    BY <2>1 DEF Record, FlowInv, TypeOK, WSTypeOK
  <2>3. reader' \in [Conns -> {"idle", "read", "record", "send", "bye", "stopped"}]
    BY DEF ReadError, Record, GiveUp, ReaderStep, FlowInv, TypeOK
  <2> QED BY <2>2, <2>3 DEF ReadError, Record, GiveUp, wsVars, FlowInv, TypeOK, WSTypeOK
<1>4. NotYet(c)'
  BY <1>2, PastStart DEF NotYet
<1>5. InLine(c)'
  BY <1>2 DEF FlowInv, InLine,
               AllTaken, GotInOrder, QueueInOrder, HandIsNewest
<1> QED BY <1>1, <1>3, <1>4, <1>5, OneConnection

\* The reader queues its chunk, or the exit message.
LEMMA FlowQueue ==
  ASSUME FlowInv, NEW c \in Conns, Queue(c) \/ Bye(c)
  PROVE  FlowInv'
<1>1. taken' = taken /\ taken <= taken' /\ \A d \in Conns \ {c} : SameAt(d)
  BY AtConnection DEF Queue, Bye, Offer, ReaderStep, SameAt, FlowInv, TypeOK, WSTypeOK
<1>2. /\ reader[c] # "idle" /\ ~InHand(c)'
      /\ UNCHANGED <<taken, handler, writer, snapshot, got>>
  BY DEF Queue, Bye, ReaderStep, InHand, FlowInv, TypeOK
<1>3. PICK m \in Messages :
        /\ \/ writeCh' = writeCh
           \/ writeCh'[c] = Append(writeCh[c], m) /\ Offer(c, m)
        /\ m # Exit => m = held[c] /\ InHand(c)
  <2>1. CASE Queue(c)
    <3>1. InHand(c)
      BY <2>1 DEF Queue, ReaderStep, InHand
    <3>2. held[c] \in 1 .. taken
      BY <3>1 DEF FlowInv, InLine, HandIsNewest
    <3>3. held[c] \in Messages
      BY <3>2, AtConnection, MaxOutputAssumption DEF Messages, Chunks
    <3> QED BY <2>1, <3>1, <3>3 DEF Queue, Offer, FlowInv, TypeOK, WSTypeOK
  <2>2. CASE Bye(c)
    <3>1. Exit \in Messages
      BY DEF Messages
    <3> QED BY <2>2, <3>1 DEF Bye, Offer, FlowInv, TypeOK, WSTypeOK
  <2> QED BY <2>1, <2>2
<1>4. TypeOK'
  <2>1. /\ writeCh' \in [Conns -> Seq(Messages)]
        /\ \A d \in Conns : Len(writeCh'[d]) <= ChCap
    <3>1. CASE writeCh' = writeCh
      BY <3>1 DEF FlowInv, TypeOK, WSTypeOK
    <3>2. CASE writeCh'[c] = Append(writeCh[c], m) /\ Offer(c, m)
      <4>1. /\ writeCh' = [writeCh EXCEPT ![c] = Append(writeCh[c], m)]
            /\ Len(writeCh[c]) < ChCap
        BY <3>2 DEF Offer
      <4>2. /\ Append(writeCh[c], m) \in Seq(Messages)
            /\ Len(Append(writeCh[c], m)) <= ChCap
        <5>1. writeCh[c] \in Seq(Messages)
          BY AtConnection
        <5>2. Len(Append(writeCh[c], m)) = Len(writeCh[c]) + 1
          BY <5>1
        <5> QED BY <4>1, <5>1, <5>2, ChCapAssumption
      <4> QED BY <4>1, <4>2 DEF FlowInv, TypeOK, WSTypeOK
    <3> QED BY <1>3, <3>1, <3>2
  <2>2. reader' \in [Conns -> {"idle", "read", "record", "send", "bye", "stopped"}]
    BY DEF Queue, Bye, ReaderStep, FlowInv, TypeOK
  <2>3. /\ UNCHANGED <<rec, client, handler, snapshot, deadline, writer, got, printed, stream, held>>
        /\ closed' \subseteq Conns
    BY DEF Queue, Bye, FlowInv, TypeOK, WSTypeOK
  <2>4. WSTypeOK'
    BY <2>1, <2>3 DEF FlowInv, TypeOK, WSTypeOK
  <2> QED BY <1>1, <2>2, <2>3, <2>4 DEF FlowInv, TypeOK
<1>5. NotYet(c)'
  BY <1>2, PastStart DEF NotYet
<1>6. InLine(c)'
  <2>1. CASE writeCh' = writeCh
    BY <1>2, <2>1 DEF FlowInv, InLine, AllTaken, GotInOrder, QueueInOrder, HandIsNewest
  <2>2. CASE writeCh'[c] = Append(writeCh[c], m)
    <3>1. /\ Len(writeCh'[c]) = Len(writeCh[c]) + 1 /\ writeCh'[c][Len(writeCh[c]) + 1] = m
          /\ \A i \in 1 .. Len(writeCh[c]) : writeCh'[c][i] = writeCh[c][i]
          /\ Len(writeCh[c]) \in Nat
      BY <2>2, AtConnection
    <3>2. m # Exit => /\ m \in 1 .. taken
                      /\ \A i \in 1 .. Len(got[c]) : got[c][i] < m
                      /\ \A i \in 1 .. Len(writeCh[c]) : writeCh[c][i] < m
      BY <1>3 DEF FlowInv, InLine, HandIsNewest
    <3>3. m <= taken
      BY <3>2, AtConnection DEF Exit
    <3>4. ASSUME NEW j \in 1 .. Len(writeCh'[c]), writeCh'[c][j] # Exit
          PROVE  /\ \A i \in 1 .. Len(got'[c]) : got'[c][i] < writeCh'[c][j]
                 /\ \A i \in 1 .. j - 1 : writeCh'[c][i] < writeCh'[c][j]
      <4>1. CASE j = Len(writeCh[c]) + 1
        <5>1. writeCh'[c][j] = m /\ m # Exit
          BY <3>1, <3>4, <4>1
        <5>2. \A i \in 1 .. j - 1 : writeCh'[c][i] = writeCh[c][i] /\ i \in 1 .. Len(writeCh[c])
          BY <3>1, <4>1
        <5> QED BY <1>2, <3>2, <5>1, <5>2
      <4>2. CASE j \in 1 .. Len(writeCh[c])
        <5>1. writeCh'[c][j] = writeCh[c][j] /\ j \in 1 .. Len(writeCh[c])
          BY <3>1, <4>2
        <5>2. \A i \in 1 .. j - 1 : writeCh'[c][i] = writeCh[c][i]
          BY <3>1, <4>2
        <5>3. QueueInOrder(c)
          BY DEF FlowInv, InLine
        <5> QED BY <1>2, <3>4, <5>1, <5>2, <5>3 DEF QueueInOrder
      <4> QED BY <3>1, <4>1, <4>2
    <3>5. \A i \in 1 .. Len(writeCh[c]) : writeCh[c][i] <= taken
      BY DEF FlowInv, InLine, AllTaken
    <3>6. AllTaken(c)'
      <4>1. \A i \in 1 .. Len(writeCh'[c]) : writeCh'[c][i] <= taken
        BY <3>1, <3>3, <3>5
      <4> QED BY <1>2, <4>1 DEF FlowInv, InLine, AllTaken
    <3>7. GotInOrder(c)'
      BY <1>2 DEF FlowInv, InLine, GotInOrder
    <3>8. QueueInOrder(c)'
      BY <3>4 DEF QueueInOrder
    <3>9. HandIsNewest(c)'
      BY <1>2 DEF HandIsNewest
    <3> QED BY <3>6, <3>7, <3>8, <3>9 DEF InLine
  <2> QED BY <1>3, <2>1, <2>2
<1> QED BY <1>1, <1>4, <1>5, <1>6, OneConnection

\* What is left of a queue when its head has gone.
LEMMA Rest ==
  ASSUME NEW s \in Seq(Messages), s # <<>>, NEW t, t = Tail(s)
  PROVE  /\ Len(s) \in Nat /\ Len(s) >= 1 /\ Len(t) = Len(s) - 1
         /\ \A j \in 1 .. Len(t) : j \in 1 .. Len(s) /\ j + 1 \in 1 .. Len(s) /\ t[j] = s[j + 1]
<1>1. Len(s) \in Nat /\ Len(s) >= 1 /\ Len(t) = Len(s) - 1
  OBVIOUS
<1>2. \A j \in 1 .. Len(s) - 1 : t[j] = s[j + 1]
  OBVIOUS
<1> QED BY <1>1, <1>2

\* The write goroutine sends the head of the queue, fails or ends.
LEMMA FlowWriter ==
  ASSUME FlowInv, NEW c \in Conns, Shared(Writer(c))
  PROVE  FlowInv'
<1>1. taken' = taken /\ taken <= taken' /\ \A d \in Conns \ {c} : SameAt(d)
  BY AtConnection
  DEF Shared, Writer, Deliver, Vanish, WriteFails, WriterEnds, SameAt, FlowInv, TypeOK, WSTypeOK
<1>2. /\ writer[c] = "running" /\ writer'[c] \in {"running", "stopped"}
      /\ UNCHANGED <<taken, handler, snapshot, reader, held>>
  BY DEF Shared, Writer, Deliver, Vanish, WriteFails, WriterEnds, Running, FlowInv, TypeOK, WSTypeOK
<1>3. handler'[c] \notin {"idle", "flush", "start"}
  BY <1>2, PastStart
<1>4. NotYet(c)'
  BY <1>3 DEF NotYet
<1>5. CASE Shared(WriterEnds(c))
  <2>1. TypeOK'
    BY <1>5 DEF Shared, WriterEnds, FlowInv, TypeOK, WSTypeOK
  <2>2. InLine(c)'
    BY <1>2, <1>5 DEF Shared, WriterEnds, FlowInv, InLine, InHand,
                         AllTaken, GotInOrder, QueueInOrder, HandIsNewest
  <2> QED BY <1>1, <1>4, <2>1, <2>2, OneConnection
<1>6. CASE ~Shared(WriterEnds(c))
  <2> DEFINE q == writeCh[c]
  <2>1. Shared(Deliver(c)) \/ Shared(Vanish(c)) \/ Shared(WriteFails(c))
    BY <1>6 DEF Shared, Writer
  <2>2. /\ q \in Seq(Messages) /\ q # <<>>
        /\ writeCh' = [writeCh EXCEPT ![c] = Tail(q)] /\ writeCh'[c] = Tail(q)
        /\ got' = got \/ got' = [got EXCEPT ![c] = Append(got[c], Head(q))]
    BY <2>1, AtConnection
    DEF Shared, Deliver, Vanish, WriteFails, Running, FlowInv, TypeOK, WSTypeOK
  <2>3. /\ Len(q) \in Nat /\ Len(q) >= 1 /\ Head(q) = q[1] /\ Head(q) \in Messages
        /\ Tail(q) \in Seq(Messages) /\ Len(Tail(q)) = Len(q) - 1
        /\ \A j \in 1 .. Len(q) - 1 : Tail(q)[j] = q[j + 1]
    BY <2>2
  <2>4. /\ writeCh' \in [Conns -> Seq(Messages)]
        /\ \A d \in Conns : Len(writeCh'[d]) <= ChCap
    <3>1. \A d \in Conns : Len(writeCh[d]) <= ChCap
      BY DEF FlowInv, TypeOK, WSTypeOK
    <3>2. Len(Tail(q)) <= ChCap
      BY <2>3, <3>1, ChCapAssumption
    <3>3. writeCh \in [Conns -> Seq(Messages)]
      BY DEF FlowInv, TypeOK, WSTypeOK
    <3>4. writeCh' \in [Conns -> Seq(Messages)]
      BY <2>2, <2>3, <3>3
    <3>5. \A d \in Conns : writeCh'[d] = IF d = c THEN Tail(q) ELSE writeCh[d]
      BY <2>2, <3>3
    <3> QED BY <3>1, <3>2, <3>4, <3>5
  <2>5. got' \in [Conns -> Seq(Messages)]
    <3>1. Append(got[c], Head(q)) \in Seq(Messages)
      BY <2>3, AtConnection
    <3>2. got \in [Conns -> Seq(Messages)]
      BY DEF FlowInv, TypeOK, WSTypeOK
    <3>3. ASSUME NEW new \in Seq(Messages)
          PROVE  [got EXCEPT ![c] = new] \in [Conns -> Seq(Messages)]
      BY <3>2
    <3> QED BY <2>2, <3>1, <3>2, <3>3
  <2>6. TypeOK'
    BY <2>1, <2>4, <2>5 DEF Shared, Deliver, Vanish, WriteFails, FlowInv, TypeOK, WSTypeOK
  <2>7. /\ Len(q) \in Nat /\ Len(q) >= 1 /\ Len(writeCh'[c]) = Len(q) - 1
        /\ \A j \in 1 .. Len(writeCh'[c]) :
             j \in 1 .. Len(q) /\ j + 1 \in 1 .. Len(q) /\ writeCh'[c][j] = q[j + 1]
    BY <2>2, Rest
  <2> HIDE DEF q
  <2>8. /\ \A j \in 1 .. Len(q) : q[j] \in Nat /\ q[j] <= taken
        /\ \A j \in 1 .. Len(q) : q[j] # Exit =>
             /\ \A i \in 1 .. Len(got[c]) : got[c][i] < q[j]
             /\ \A i \in 1 .. j - 1 : q[i] < q[j]
        /\ InHand(c) => /\ held[c] \in 1 .. taken
                        /\ \A i \in 1 .. Len(got[c]) : got[c][i] < held[c]
                        /\ \A i \in 1 .. Len(q) : q[i] < held[c]
    BY AtConnection DEF FlowInv, InLine, AllTaken, QueueInOrder, HandIsNewest, q
  <2>9. \/ got'[c] = got[c]
        \/ /\ Len(got'[c]) = Len(got[c]) + 1 /\ got'[c][Len(got[c]) + 1] = q[1]
           /\ \A i \in 1 .. Len(got[c]) : got'[c][i] = got[c][i]
    <3>1. CASE got' = got
      BY <3>1
    <3>2. CASE got' = [got EXCEPT ![c] = Append(got[c], Head(q))]
      <4>1. got'[c] = Append(got[c], Head(q))
        BY <3>2 DEF FlowInv, TypeOK, WSTypeOK
      <4> QED BY <4>1, <2>3, AtConnection
    <3> QED BY <2>2, <3>1, <3>2
  <2>10. \A i \in 1 .. Len(got'[c]) :
           \/ i \in 1 .. Len(got[c]) /\ got'[c][i] = got[c][i]
           \/ i = Len(got[c]) + 1 /\ got'[c][i] = q[1]
    BY <2>9, AtConnection
  <2>11. /\ \A i \in 1 .. Len(snapshot'[c]) : snapshot'[c][i] <= taken'
         /\ \A i \in 1 .. Len(got'[c]) : got'[c][i] <= taken'
         /\ \A i \in 1 .. Len(writeCh'[c]) : writeCh'[c][i] <= taken'
    <3>1. \A i \in 1 .. Len(snapshot[c]) : snapshot[c][i] <= taken
      BY DEF FlowInv, InLine, AllTaken
    <3>2. \A i \in 1 .. Len(got[c]) : got[c][i] <= taken
      BY DEF FlowInv, InLine, AllTaken
    <3>3. q[1] <= taken
      BY <2>3, <2>8
    <3> QED BY <1>2, <2>8, <2>7, <2>10, <3>1, <3>2, <3>3
  <2>12. ASSUME NEW j \in Len(snapshot'[c]) + 1 .. Len(got'[c]), NEW i \in 1 .. j - 1,
                got'[c][j] # Exit
         PROVE  got'[c][i] < got'[c][j]
    <3>1. Len(snapshot[c]) \in Nat /\ Len(got[c]) \in Nat /\ Len(got'[c]) \in Nat
      BY <2>9, AtConnection
    <3>2. j \in 1 .. Len(got'[c])
      BY <1>2, <3>1
    <3>3. CASE j \in 1 .. Len(got[c]) /\ got'[c][j] = got[c][j]
      <4>1. i \in 1 .. Len(got[c]) /\ got'[c][i] = got[c][i]
        BY <2>9, <3>1, <3>3
      <4>2. j \in Len(snapshot[c]) + 1 .. Len(got[c])
        BY <1>2, <3>1, <3>3
      <4> QED BY <2>12, <3>3, <4>1, <4>2 DEF FlowInv, InLine, GotInOrder
    <3>4. CASE j = Len(got[c]) + 1 /\ got'[c][j] = q[1]
      <4>1. i \in 1 .. Len(got[c])
        BY <3>1, <3>4
      <4>2. got'[c][i] = got[c][i]
        BY <2>9, <4>1
      <4> QED BY <2>3, <2>8, <2>12, <3>4, <4>1, <4>2
    <3> QED BY <2>10, <3>2, <3>3, <3>4
  <2>13. ASSUME NEW j \in 1 .. Len(writeCh'[c]), writeCh'[c][j] # Exit
         PROVE  /\ \A i \in 1 .. Len(got'[c]) : got'[c][i] < writeCh'[c][j]
                /\ \A i \in 1 .. j - 1 : writeCh'[c][i] < writeCh'[c][j]
    <3>1. j + 1 \in 1 .. Len(q) /\ q[j + 1] # Exit /\ writeCh'[c][j] = q[j + 1]
      BY <2>7, <2>13
    <3>2. /\ \A i \in 1 .. Len(got[c]) : got[c][i] < q[j + 1]
          /\ \A i \in 1 .. j : q[i] < q[j + 1]
      BY <2>3, <2>8, <3>1
    <3>3. \A i \in 1 .. j - 1 : i + 1 \in 1 .. j /\ writeCh'[c][i] = q[i + 1]
      BY <2>7
    <3>4. 1 \in 1 .. j
      BY <2>7
    <3> QED BY <2>10, <3>1, <3>2, <3>3, <3>4
  <2>14. InHand(c)' =>
           /\ held'[c] \in 1 .. taken'
           /\ \A i \in 1 .. Len(got'[c]) : got'[c][i] < held'[c]
           /\ \A i \in 1 .. Len(writeCh'[c]) : writeCh'[c][i] < held'[c]
    <3>1. InHand(c)' <=> InHand(c)
      BY <1>2 DEF InHand
    <3>2. 1 \in 1 .. Len(q)
      BY <2>3
    <3> QED BY <1>2, <2>8, <2>7, <2>10, <3>1, <3>2
  <2>15. InLine(c)'
    BY <2>11, <2>12, <2>13, <2>14 DEF InLine, AllTaken, GotInOrder, QueueInOrder, HandIsNewest
  <2> QED BY <1>1, <1>4, <2>6, <2>15, OneConnection
<1> QED BY <1>5, <1>6

LEMMA FlowNext == FlowInv /\ IInv /\ [Next]_vars => FlowInv'
<1> SUFFICES ASSUME FlowInv, IInv, [Next]_vars PROVE FlowInv'
  OBVIOUS
<1>1. CASE Output \/ ShellExits \/ CloseStream \/ UNCHANGED vars
  <2>1. UNCHANGED flowVars /\ taken' = taken
    BY <1>1 DEF Output, ShellExits, CloseStream, vars, wsVars, flowVars
  <2>2. printed' \in 0 .. MaxOutput /\ taken \in 0 .. printed'
    BY <1>1, AtConnection, MaxOutputAssumption
    DEF Output, ShellExits, CloseStream, vars, FlowInv, TypeOK
  <2>3. TypeOK'
    BY <1>1, <2>1, <2>2
    DEF Output, ShellExits, CloseStream, vars, wsVars, flowVars, FlowInv, TypeOK, WSTypeOK
  <2> QED BY <2>1, <2>3, FlowOutside
<1>2. ASSUME NEW c \in Conns, Shared(Leave(c)) \/ Shared(DeadlinePasses(c)) PROVE FlowInv'
  <2>1. UNCHANGED flowVars /\ taken' = taken
    BY <1>2 DEF Shared, Leave, DeadlinePasses, flowVars
  <2>2. /\ client' \in [Conns -> {"absent", "up", "gone"}]
        /\ deadline' \in [Conns -> {"none", "set", "passed"}]
        /\ UNCHANGED <<printed, stream>>
    BY <1>2 DEF Shared, Leave, DeadlinePasses, FlowInv, TypeOK, WSTypeOK
  <2>3. TypeOK'
    BY <2>1, <2>2 DEF flowVars, FlowInv, TypeOK, WSTypeOK
  <2> QED BY <2>1, <2>3, FlowOutside
<1>3. ASSUME NEW c \in Conns, Shared(Dial(c)) \/ Shared(FlushEvents(c)) PROVE FlowInv'
  BY <1>3, FlowFlush
<1>4. ASSUME NEW c \in Conns, StartExec(c) \/ Shared(ReadFails(c)) \/ Return(c) PROVE FlowInv'
  BY <1>4, FlowHandler
<1>5. ASSUME NEW c \in Conns, Shared(Writer(c)) PROVE FlowInv'
  BY <1>5, FlowWriter
<1>6. ASSUME NEW c \in Conns, StreamReader(c) PROVE FlowInv'
  BY <1>6, FlowReadStream, FlowReader, FlowQueue DEF StreamReader
<1> QED BY <1>1, <1>2, <1>3, <1>4, <1>5, <1>6 DEF Next, Connect, Handler

LEMMA FlowInductive == Spec => []FlowInv
BY FlowInit, FlowNext, InitIInv, NextIInv, PTL DEF Spec

\* Every variable keeps its type; in particular writeCh never holds more than its capacity and
\* the recording has no exit message (ws.go:98).
THEOREM ExecTypeCorrect == Spec => []TypeOK
<1>1. FlowInv => TypeOK
  BY DEF FlowInv
<1> QED BY <1>1, FlowInductive, PTL

\* Live output is newer than all that the browser got before it, flush included, for any
\* number of connections that share the stream (ws.go:67-70, ws.go:110-128).
THEOREM LiveIsAlwaysNewer == Spec => []LiveIsNewer
<1>1. FlowInv => LiveIsNewer
  BY DEF FlowInv, InLine, GotInOrder, LiveIsNewer
<1> QED BY <1>1, FlowInductive, PTL

-----------------------------------------------------------------------------
(* The readers and ContainerStream *)

InRead == {c \in Conns : reader[c] = "read"}

Stream == INSTANCE ContainerStream WITH
  Readers <- Conns, delivered <- taken, cut <- (stream = "closed"), calling <- InRead,
  source <- IF stream = "open" THEN "running" ELSE "exited"

LEMMA StreamInit == Init => Stream!Init
<1> SUFFICES ASSUME Init PROVE Stream!Init
  OBVIOUS
<1>1. /\ printed = 0 /\ taken = 0 /\ InRead = {}
      /\ (IF stream = "open" THEN "running" ELSE "exited") = "running"
  BY DEF Init, InRead
<1>2. (stream = "closed") = FALSE
  BY Zenon DEF Init
<1> QED BY <1>1, <1>2, Zenon DEF Stream!Init

\* A reader comes to a call of Read, or returns from it.
LEMMA ReadersMove ==
  ASSUME IInv, NEW c \in Conns, NEW from, NEW to, ReaderStep(c, from, to), from # to
  PROVE  /\ from = "read" => c \in InRead /\ InRead' = InRead \ {c}
         /\ to = "read" => c \notin InRead /\ InRead' = InRead \cup {c}
         /\ from # "read" /\ to # "read" => InRead' = InRead
<1>1. reader[c] = from /\ \A d \in Conns : reader'[d] = IF d = c THEN to ELSE reader[d]
  BY DEF ReaderStep, IInv, Types
<1> QED BY <1>1 DEF InRead

\* The container prints or exits, or evict closes the stream.
LEMMA OutsideRefines ==
  Output \/ ShellExits \/ CloseStream => [Stream!Next]_(Stream!vars)
<1>1. Output \/ ShellExits \/ CloseStream => InRead' = InRead
  BY DEF Output, ShellExits, CloseStream, InRead
<1>2. Output => Stream!Output
  BY <1>1 DEF Output, Stream!Output
<1>3. ShellExits => Stream!Exit
  BY <1>1 DEF ShellExits, Stream!Exit
<1>4. CloseStream => Stream!Cut
  BY <1>1 DEF CloseStream, Stream!Cut
<1> QED BY <1>2, <1>3, <1>4 DEF Stream!Next

\* A reader starts, takes a chunk, gets an error or has dealt with what it took.
LEMMA ReaderRefines ==
  ASSUME IInv, NEW c \in Conns, StartExec(c) \/ StreamReader(c)
  PROVE  [Stream!Next]_(Stream!vars)
<1>1. CASE StartExec(c) \/ Queue(c)
  <2>1. c \notin InRead /\ InRead' = InRead \cup {c}
    BY <1>1, ReadersMove DEF StartExec, Queue
  <2>2. Stream!CallRead(c)
    BY <1>1, <2>1 DEF StartExec, Queue, Stream!CallRead
  <2> QED BY <2>2 DEF Stream!Next
<1>2. CASE ReadStream(c)
  <2>1. c \in InRead /\ InRead' = InRead \ {c}
    BY <1>2, ReadersMove DEF ReadStream
  <2>2. Stream!Deliver(c)
    BY <1>2, <2>1 DEF ReadStream, Stream!Deliver
  <2> QED BY <2>2 DEF Stream!Next
<1>3. CASE ReadError(c)
  <2>1. c \in InRead /\ InRead' = InRead \ {c}
    BY <1>3, ReadersMove DEF ReadError
  <2>2. Stream!Fail(c)
    BY <1>3, <2>1 DEF ReadError, Stream!Fail
  <2> QED BY <2>2 DEF Stream!Next
<1>4. CASE Record(c) \/ GiveUp(c) \/ Bye(c)
  <2>1. InRead' = InRead
    BY <1>4, ReadersMove DEF Record, GiveUp, Bye
  <2> QED BY <1>4, <2>1 DEF Record, GiveUp, Bye, Stream!vars
<1> QED BY <1>1, <1>2, <1>3, <1>4 DEF StreamReader

LEMMA NextRefines == IInv /\ [Next]_vars => [Stream!Next]_(Stream!vars)
<1> SUFFICES ASSUME IInv, [Next]_vars PROVE [Stream!Next]_(Stream!vars)
  OBVIOUS
<1>1. UNCHANGED <<printed, taken, stream, reader>> => UNCHANGED Stream!vars
  BY DEF Stream!vars, InRead
<1>2. ASSUME NEW c \in Conns, Return(c) PROVE UNCHANGED <<printed, taken, stream, reader>>
  BY <1>2 DEF Return
<1>3. ASSUME NEW c \in Conns,
             \/ Shared(Dial(c)) \/ Shared(Leave(c)) \/ Shared(DeadlinePasses(c))
             \/ Shared(FlushEvents(c)) \/ Shared(ReadFails(c)) \/ Shared(Writer(c))
      PROVE  UNCHANGED <<printed, taken, stream, reader>>
  BY <1>3 DEF Shared
<1>4. UNCHANGED vars => UNCHANGED <<printed, taken, stream, reader>>
  BY DEF vars
<1> QED BY <1>1, <1>2, <1>3, <1>4, OutsideRefines, ReaderRefines DEF Next, Connect, Handler

\* What the connections of an exec session read between them is the stream as ContainerStream
\* promises it to several readers: every chunk goes to one of them, in order and without a gap,
\* and Read fails for one of them only at the end of the output or when evict has closed the
\* stream, whichever browsers have gone by then (ws.go:113-128).
THEOREM ReadsOneStream == Spec => Stream!Init /\ [][Stream!Next]_(Stream!vars)
BY StreamInit, InitIInv, NextIInv, NextRefines, PTL DEF Spec

-----------------------------------------------------------------------------
(* The end of a connection *)

ReaderCan(c) ==
  \/ reader[c] = "read" /\ (taken < printed \/ stream # "open")
  \/ reader[c] = "record"
  \/ reader[c] \in {"send", "bye"} /\ (Len(writeCh[c]) < ChCap \/ Done(c))

Over(c) == handler[c] = "returned" /\ writer[c] = "stopped" /\ reader[c] = "stopped"

\* The goroutines of a connection never wait for each other: when the stream is closed and the
\* browser has gone, one of them can go on until all three have ended.
SomebodyMoves ==
  \A c \in Conns :
    stream = "closed" /\ client[c] = "gone" =>
      Over(c) \/ HandlerCan(c) \/ WriterCan(c) \/ ReaderCan(c)

\* A bound on the steps they have left when no more is printed: four for each chunk, one for
\* what is queued, and the rest of their own programs.
ReaderLeft(c) ==
  CASE reader[c] = "idle" -> 4 [] reader[c] = "read" -> 3 [] reader[c] = "record" -> 6
    [] reader[c] = "send" -> 5 [] reader[c] = "bye" -> 2 [] reader[c] = "stopped" -> 0
ToRead == 4 * (printed - taken)
Left(c) == ToRead + ReaderLeft(c) + ConnLeft(c)

\* Once the stream is closed each of their steps brings the end nearer, and no step of anybody
\* else puts it off.
EndComesNearer ==
  [][stream = "closed" =>
       \A c \in Conns :
         /\ Left(c)' <= Left(c)
         /\ Handler(c) \/ Shared(Writer(c)) \/ StreamReader(c) => Left(c)' < Left(c)]_vars

\* Who has started, and who has ended before whom.
Phases(c) ==
  /\ client[c] = "absent" <=> handler[c] = "idle"
  /\ handler[c] # "subscribed"
  /\ handler[c] \in {"idle", "flush", "start"} <=> reader[c] = "idle"
  /\ handler[c] \in {"idle", "flush", "start"} <=> writer[c] = "idle"
  /\ reader[c] = "stopped" <=> c \in closed
  /\ handler[c] = "returned" => writer[c] = "stopped"

PhaseInv == \A c \in Conns : Phases(c)

SamePhase(c) ==
  /\ client'[c] = client[c] /\ handler'[c] = handler[c] /\ writer'[c] = writer[c]
  /\ reader'[c] = reader[c] /\ (c \in closed' <=> c \in closed)

LEMMA OnePhase ==
  ASSUME PhaseInv, NEW c \in Conns, Phases(c)', \A d \in Conns \ {c} : SamePhase(d)
  PROVE  PhaseInv'
BY DEF PhaseInv, Phases, SamePhase

LEMMA PhaseInit == Init => PhaseInv
BY DEF Init, WSInit, PhaseInv, Phases

LEMMA PhaseShared ==
  ASSUME TypeOK, PhaseInv, NEW c \in Conns, WSStep(c), UNCHANGED reader
  PROVE  PhaseInv'
<1>1. WSTypeOK /\ Phases(c)
  BY DEF TypeOK, PhaseInv
<1>2. \A d \in Conns \ {c} : SamePhase(d)
  BY <1>1, DialHere, FlushHere, ClockHere, WriterHere DEF WSStep, SameWS, SamePhase
<1>3. CASE Dial(c)
  <2> Phases(c)'
    BY <1>1, <1>3, DialHere DEF Phases
  <2> QED BY <1>2, OnePhase
<1>4. CASE FlushEvents(c)
  <2>1. /\ handler[c] = "flush" /\ handler'[c] = "start" /\ client'[c] = client[c]
        /\ writer'[c] = writer[c] /\ closed' = closed
    BY <1>1, <1>4, FlushHere
  <2> Phases(c)'
    BY <1>1, <2>1 DEF Phases
  <2> QED BY <1>2, OnePhase
<1>5. CASE Leave(c) \/ DeadlinePasses(c) \/ ReadFails(c)
  <2>1. client'[c] = "absent" <=> client[c] = "absent"
    BY <1>1, <1>5 DEF Leave, DeadlinePasses, ReadFails, WSTypeOK
  <2>2. /\ writer'[c] = writer[c] /\ closed' = closed
        /\ handler'[c] = handler[c] \/ (handler[c] = "reading" /\ handler'[c] = "waiting")
    BY <1>1, <1>5, ClockHere
  <2> Phases(c)'
    BY <1>1, <2>1, <2>2 DEF Phases
  <2> QED BY <1>2, OnePhase
<1>6. CASE Writer(c)
  <2>1. /\ client'[c] = client[c] /\ handler'[c] = handler[c] /\ closed' = closed
        /\ writer[c] = "running" /\ writer'[c] \in {"running", "stopped"}
    BY <1>1, <1>6, WriterHere
  <2> Phases(c)'
    BY <1>1, <2>1 DEF Phases
  <2> QED BY <1>2, OnePhase
<1> QED BY <1>3, <1>4, <1>5, <1>6 DEF WSStep

LEMMA PhaseOwn ==
  ASSUME TypeOK, PhaseInv, NEW c \in Conns, StartExec(c) \/ Return(c) \/ StreamReader(c)
  PROVE  PhaseInv'
<1>1. Phases(c) /\ client' = client
  BY DEF PhaseInv, StartExec, Return, StreamReader, ReadStream, ReadError, Record, Queue, GiveUp,
         Bye, wsVars
<1>2. \A d \in Conns \ {c} : SamePhase(d)
  BY DEF StartExec, Return, StreamReader, ReadStream, ReadError, Record, Queue, GiveUp, Bye, wsVars,
         ReaderStep, HandlerStep, SamePhase, TypeOK, WSTypeOK
<1>3. CASE StartExec(c)
  <2> Phases(c)'
    BY <1>1, <1>3 DEF StartExec, HandlerStep, ReaderStep, Phases, TypeOK, WSTypeOK
  <2> QED BY <1>2, OnePhase
<1>4. CASE Return(c)
  <2> Phases(c)'
    BY <1>1, <1>4 DEF Return, HandlerStep, Done, Phases, TypeOK, WSTypeOK
  <2> QED BY <1>2, OnePhase
<1>5. CASE ReadStream(c) \/ ReadError(c) \/ Record(c) \/ Queue(c)
  <2>1. /\ UNCHANGED <<handler, writer, closed>>
        /\ reader[c] \notin {"idle", "stopped"} /\ reader'[c] \notin {"idle", "stopped"}
    BY <1>5 DEF ReadStream, ReadError, Record, Queue, ReaderStep, wsVars, TypeOK
  <2> Phases(c)'
    BY <1>1, <2>1 DEF Phases
  <2> QED BY <1>2, OnePhase
<1>6. CASE GiveUp(c) \/ Bye(c)
  <2>1. /\ UNCHANGED <<handler, writer>> /\ closed' = closed \cup {c}
        /\ reader[c] \in {"send", "bye"} /\ reader'[c] = "stopped"
    BY <1>6 DEF GiveUp, Bye, ReaderStep, TypeOK
  <2> Phases(c)'
    BY <1>1, <2>1 DEF Phases
  <2> QED BY <1>2, OnePhase
<1> QED BY <1>3, <1>4, <1>5, <1>6 DEF StreamReader

LEMMA PhaseAlways == Spec => []PhaseInv
<1>1. TypeOK /\ PhaseInv /\ [Next]_vars => PhaseInv'
  <2> SUFFICES ASSUME TypeOK, PhaseInv, [Next]_vars PROVE PhaseInv'
    OBVIOUS
  <2>1. CASE Output \/ ShellExits \/ CloseStream \/ UNCHANGED vars
    BY <2>1 DEF Output, ShellExits, CloseStream, vars, wsVars, PhaseInv, Phases
  <2>2. ASSUME NEW c \in Conns,
               \/ Shared(Dial(c)) \/ Shared(Leave(c)) \/ Shared(DeadlinePasses(c))
               \/ Shared(FlushEvents(c)) \/ Shared(ReadFails(c)) \/ Shared(Writer(c))
        PROVE  PhaseInv'
    BY <2>2, PhaseShared DEF Shared, WSStep
  <2>3. ASSUME NEW c \in Conns, StartExec(c) \/ Return(c) \/ StreamReader(c) PROVE PhaseInv'
    BY <2>3, PhaseOwn
  <2> QED BY <2>1, <2>2, <2>3 DEF Next, Connect, Handler
<1> QED BY <1>1, PhaseInit, ExecTypeCorrect, PTL DEF Spec

\* No goroutine of an exec connection waits for another of them for ever (ws.go:97-149).
THEOREM NoCircularWait == Spec => []SomebodyMoves
<1>1. TypeOK /\ PhaseInv => SomebodyMoves
  <2> SUFFICES ASSUME TypeOK, PhaseInv, NEW c \in Conns, stream = "closed", client[c] = "gone",
                      ~HandlerCan(c), ~WriterCan(c), ~ReaderCan(c)
               PROVE  Over(c)
    BY DEF SomebodyMoves
  <2>1. handler[c] \in {"waiting", "returned"} /\ writer[c] \in {"running", "stopped"}
    BY DEF PhaseInv, Phases, HandlerCan, TypeOK, WSTypeOK
  <2>2. reader[c] \in {"send", "bye", "stopped"}
    BY <2>1 DEF PhaseInv, Phases, ReaderCan, TypeOK
  <2>3. writer[c] = "stopped"
    <3>1. SUFFICES ASSUME writer[c] = "running" PROVE FALSE
      BY <2>1
    <3>2. writeCh[c] = <<>> /\ c \notin closed
      BY <3>1 DEF WriterCan
    <3>3. reader[c] \in {"send", "bye"}
      BY <2>2, <3>2 DEF PhaseInv, Phases
    <3>4. Len(writeCh[c]) < ChCap
      BY <3>2, ChCapAssumption
    <3> QED BY <3>3, <3>4 DEF ReaderCan
  <2>4. handler[c] = "returned" /\ reader[c] = "stopped"
    BY <2>1, <2>2, <2>3 DEF HandlerCan, ReaderCan, Done
  <2> QED BY <2>3, <2>4 DEF Over
<1> QED BY <1>1, ExecTypeCorrect, PhaseAlways, PTL

\* The numbers that are counted.
LEMMA LeftValues ==
  ASSUME TypeOK, NEW c \in Conns
  PROVE  /\ ToRead \in Int /\ ReaderLeft(c) \in Nat /\ ConnLeft(c) \in Nat
         /\ HandlerLeft(c) \in Nat /\ WriterLeft(c) \in Nat /\ Len(writeCh[c]) \in Nat
<1>1. ReaderLeft(c) \in Nat
  BY DEF ReaderLeft, TypeOK
<1>2. ToRead \in Int
  <2>1. printed \in Int /\ taken \in Int
    BY MaxOutputAssumption DEF TypeOK
  <2> QED BY <2>1 DEF ToRead
<1> QED BY <1>1, <1>2, ConnLeftNat, ConnValues DEF TypeOK

\* What the stream still has gets no more by reading.
LEMMA StreamCounts ==
  ASSUME TypeOK, printed' = printed
  PROVE  /\ taken' = taken => ToRead' = ToRead
         /\ taken' = taken + 1 => ToRead' = ToRead - 4
<1>1. printed \in Int /\ taken \in Int
  BY MaxOutputAssumption DEF TypeOK
<1> QED BY <1>1 DEF ToRead

\* A connection whose goroutines do nothing in a step has no more to do after it.
LEMMA OthersWait ==
  ASSUME TypeOK, NEW c \in Conns, SameWS(c), reader'[c] = reader[c], printed' = printed,
         taken' \in {taken, taken + 1}
  PROVE  Left(c)' <= Left(c)
<1>0. ToRead \in Int /\ ReaderLeft(c) \in Nat /\ ConnLeft(c) \in Nat
  BY LeftValues
<1>1. ReaderLeft(c)' = ReaderLeft(c) /\ ConnLeft(c)' = ConnLeft(c)
  BY DEF SameWS, ReaderLeft, ConnLeft, HandlerLeft, WriterLeft
<1>2. ToRead' = ToRead \/ ToRead' = ToRead - 4
  BY StreamCounts
<1> QED BY <1>0, <1>1, <1>2 DEF Left

\* A step of the handler or of the reader is one step less.
LEMMA OwnStepCounts ==
  ASSUME TypeOK, NEW c \in Conns, StartExec(c) \/ Return(c) \/ StreamReader(c)
  PROVE  Left(c)' < Left(c)
<1>0. /\ ToRead \in Int /\ ReaderLeft(c) \in Nat /\ ConnLeft(c) \in Nat
      /\ HandlerLeft(c) \in Nat /\ WriterLeft(c) \in Nat /\ Len(writeCh[c]) \in Nat
  BY LeftValues
<1>1. printed' = printed
  BY DEF StartExec, Return, StreamReader, ReadStream, ReadError, Record, Queue, GiveUp, Bye
<1>2. CASE StartExec(c)
  <2>1. /\ handler[c] = "start" /\ handler'[c] = "reading" /\ writer'[c] = "running"
        /\ reader[c] = "idle" /\ reader'[c] = "read" /\ writeCh' = writeCh /\ taken' = taken
    BY <1>2 DEF StartExec, HandlerStep, ReaderStep, TypeOK, WSTypeOK
  <2>2. HandlerLeft(c) = 4 /\ HandlerLeft(c)' = 2 /\ ReaderLeft(c) = 4 /\ ReaderLeft(c)' = 3
    BY <2>1 DEF HandlerLeft, ReaderLeft
  <2>3. WriterLeft(c)' = 1
    BY <2>1 DEF WriterLeft
  <2>4. ConnLeft(c)' = ConnLeft(c) - (1 + WriterLeft(c))
    <3>1. ConnLeft(c)' = 2 + 1 + Len(writeCh[c])
      BY <2>1, <2>2, <2>3 DEF ConnLeft
    <3>2. WriterLeft(c) \in Int /\ Len(writeCh[c]) \in Int
      BY <1>0
    <3> QED BY <2>2, <3>1, <3>2 DEF ConnLeft
  <2>5. ToRead' = ToRead
    BY <1>1, <2>1, StreamCounts
  <2> QED BY <1>0, <2>2, <2>4, <2>5 DEF Left
<1>3. CASE Return(c)
  <2>1. /\ handler[c] = "waiting" /\ handler'[c] = "returned" /\ writer' = writer
        /\ reader' = reader /\ writeCh' = writeCh /\ taken' = taken
    BY <1>3 DEF Return, HandlerStep, TypeOK, WSTypeOK
  <2>2. HandlerLeft(c) = 1 /\ HandlerLeft(c)' = 0 /\ WriterLeft(c)' = WriterLeft(c)
    BY <2>1 DEF HandlerLeft, WriterLeft
  <2>3. ConnLeft(c)' = ConnLeft(c) - 1
    BY <1>0, <2>1, <2>2 DEF ConnLeft
  <2>4. ToRead' = ToRead /\ ReaderLeft(c)' = ReaderLeft(c)
    BY <1>1, <2>1, StreamCounts DEF ReaderLeft
  <2> QED BY <1>0, <2>3, <2>4 DEF Left
<1>4. CASE StreamReader(c)
  <2>1. HandlerLeft(c)' = HandlerLeft(c) /\ WriterLeft(c)' = WriterLeft(c)
    BY <1>4 DEF HandlerLeft, WriterLeft, StreamReader, ReadStream, ReadError, Record, Queue, GiveUp,
                Bye, wsVars
  <2>2. writeCh' = writeCh => ConnLeft(c)' = ConnLeft(c)
    BY <2>1 DEF ConnLeft
  <2>3. CASE ReadStream(c)
    <3>1. /\ reader[c] = "read" /\ reader'[c] = "record" /\ taken' = taken + 1
          /\ writeCh' = writeCh
      BY <2>3 DEF ReadStream, ReaderStep, wsVars, TypeOK
    <3>2. ReaderLeft(c) = 3 /\ ReaderLeft(c)' = 6
      BY <3>1 DEF ReaderLeft
    <3>3. ToRead' = ToRead - 4 /\ ConnLeft(c)' = ConnLeft(c)
      BY <1>1, <2>2, <3>1, StreamCounts
    <3> QED BY <1>0, <3>2, <3>3 DEF Left
  <2>4. CASE ReadError(c)
    <3>1. reader[c] = "read" /\ reader'[c] = "bye" /\ taken' = taken /\ writeCh' = writeCh
      BY <2>4 DEF ReadError, ReaderStep, wsVars, TypeOK
    <3>2. ReaderLeft(c) = 3 /\ ReaderLeft(c)' = 2
      BY <3>1 DEF ReaderLeft
    <3>3. ToRead' = ToRead /\ ConnLeft(c)' = ConnLeft(c)
      BY <1>1, <2>2, <3>1, StreamCounts
    <3> QED BY <1>0, <3>2, <3>3 DEF Left
  <2>5. CASE Record(c)
    <3>1. reader[c] = "record" /\ reader'[c] = "send" /\ taken' = taken /\ writeCh' = writeCh
      BY <2>5 DEF Record, ReaderStep, TypeOK
    <3>2. ReaderLeft(c) = 6 /\ ReaderLeft(c)' = 5
      BY <3>1 DEF ReaderLeft
    <3>3. ToRead' = ToRead /\ ConnLeft(c)' = ConnLeft(c)
      BY <1>1, <2>2, <3>1, StreamCounts
    <3> QED BY <1>0, <3>2, <3>3 DEF Left
  <2>6. ASSUME NEW m, writeCh'[c] = Append(writeCh[c], m), m \in Messages
        PROVE  ConnLeft(c)' = ConnLeft(c) + 1
    <3>1. Len(writeCh'[c]) = Len(writeCh[c]) + 1
      BY <2>6, ConnValues, QueueGrows DEF TypeOK
    <3> QED BY <1>0, <2>1, <3>1 DEF ConnLeft
  <2>7. CASE Queue(c)
    <3>1. /\ reader[c] = "send" /\ reader'[c] = "read" /\ taken' = taken
          /\ writeCh'[c] = Append(writeCh[c], held[c])
      BY <2>7 DEF Queue, Offer, ReaderStep, TypeOK, WSTypeOK
    <3>2. ReaderLeft(c) = 5 /\ ReaderLeft(c)' = 3
      BY <3>1 DEF ReaderLeft
    <3>3. held[c] \in Messages
      BY MaxOutputAssumption DEF TypeOK, Messages, Chunks, Exit
    <3>4. ToRead' = ToRead /\ ConnLeft(c)' = ConnLeft(c) + 1
      BY <1>1, <2>6, <3>1, <3>3, StreamCounts
    <3> QED BY <1>0, <3>2, <3>4 DEF Left
  <2>8. CASE GiveUp(c) \/ Bye(c)
    <3>1. /\ reader[c] = "send" \/ reader[c] = "bye"
          /\ reader'[c] = "stopped" /\ taken' = taken
          /\ writeCh' = writeCh \/ writeCh'[c] = Append(writeCh[c], Exit)
      BY <2>8 DEF GiveUp, Bye, Offer, ReaderStep, TypeOK, WSTypeOK
    <3>2. (ReaderLeft(c) = 5 \/ ReaderLeft(c) = 2) /\ ReaderLeft(c)' = 0
      BY <3>1 DEF ReaderLeft
    <3>3. ConnLeft(c)' = ConnLeft(c) \/ ConnLeft(c)' = ConnLeft(c) + 1
      BY <2>2, <2>6, <3>1 DEF Messages
    <3>4. ToRead' = ToRead
      BY <1>1, <3>1, StreamCounts
    <3> QED BY <1>0, <3>2, <3>3, <3>4 DEF Left
  <2> QED BY <1>4, <2>3, <2>4, <2>5, <2>7, <2>8 DEF StreamReader
<1> QED BY <1>2, <1>3, <1>4

\* The shared steps fill no queue and take no chunk.
LEMMA SharedStepCounts ==
  ASSUME TypeOK, NEW c \in Conns, WSStep(c), UNCHANGED <<printed, taken, stream, reader, held>>
  PROVE  /\ Left(c)' <= Left(c)
         /\ FlushEvents(c) \/ ReadFails(c) \/ Writer(c) => Left(c)' < Left(c)
<1>0. ToRead \in Int /\ ReaderLeft(c) \in Nat /\ ConnLeft(c) \in Nat
  BY LeftValues
<1>1. WSTypeOK /\ WSTypeOK'
  BY DialHere, FlushHere, ClockHere, WriterHere DEF WSStep, TypeOK
<1>2. ToRead' = ToRead /\ ReaderLeft(c)' = ReaderLeft(c)
  BY DEF ToRead, ReaderLeft
<1>3. ConnLeft(c)' \in Int
  BY <1>1, ConnLeftNatNext
<1>4. /\ ConnLeft(c)' <= ConnLeft(c)
      /\ FlushEvents(c) \/ ReadFails(c) \/ Writer(c) => ConnLeft(c)' < ConnLeft(c)
  BY <1>1, SharedCountsDown
<1> QED BY <1>0, <1>2, <1>3, <1>4 DEF Left

LEMMA LeftNext ==
  ASSUME TypeOK', NEW c \in Conns
  PROVE  Left(c)' \in Int
<1>1. ReaderLeft(c)' \in Int
  BY DEF ReaderLeft, TypeOK
<1>2. ConnLeft(c)' \in Int
  BY ConnLeftNatNext DEF TypeOK
<1>3. ToRead' \in Int
  <2>1. printed' \in Int /\ taken' \in Int
    BY MaxOutputAssumption DEF TypeOK
  <2> QED BY <2>1 DEF ToRead
<1> QED BY <1>1, <1>2, <1>3 DEF Left

\* A step for another connection changes nothing of this one but what is left in the stream.
LEMMA OthersStep ==
  ASSUME TypeOK, NEW c \in Conns, NEW d \in Conns, d # c,
         \/ WSStep(d) /\ UNCHANGED <<printed, taken, stream, reader, held>>
         \/ StartExec(d) \/ Return(d) \/ StreamReader(d)
  PROVE  Left(c)' <= Left(c)
<1>1. CASE WSStep(d) /\ UNCHANGED <<printed, taken, stream, reader, held>>
  <2>1. SameWS(c)
    BY <1>1, DialHere, FlushHere, ClockHere, WriterHere DEF WSStep, TypeOK
  <2> QED BY <1>1, <2>1, OthersWait
<1>2. CASE StartExec(d) \/ Return(d) \/ StreamReader(d)
  <2>1. SameWS(c)
    BY <1>2 DEF StartExec, Return, StreamReader, ReadStream, ReadError, Record, Queue, GiveUp, Bye,
         wsVars, HandlerStep, Offer, SameWS, TypeOK, WSTypeOK
  <2>2. reader'[c] = reader[c] /\ printed' = printed /\ taken' \in {taken, taken + 1}
    BY <1>2 DEF StartExec, Return, StreamReader, ReadStream, ReadError, Record, Queue, GiveUp, Bye,
         ReaderStep, TypeOK
  <2> QED BY <2>1, <2>2, OthersWait
<1> QED BY <1>1, <1>2

\* The goroutines of an exec connection never run in a circle either: once evict has closed the
\* stream, each of their steps lowers a number that nobody else raises (ws.go:97-149).
THEOREM EndIsCounted == Spec => EndComesNearer
<1>1. ASSUME TypeOK, TypeOK', Next, stream = "closed", NEW c \in Conns
      PROVE  /\ Left(c)' <= Left(c)
             /\ Handler(c) \/ Shared(Writer(c)) \/ StreamReader(c) => Left(c)' < Left(c)
  <2>1. ASSUME Handler(c) \/ Shared(Writer(c)) \/ StreamReader(c) PROVE Left(c)' < Left(c)
    <3>1. \/ StartExec(c) \/ Return(c) \/ StreamReader(c)
          \/ /\ FlushEvents(c) \/ ReadFails(c) \/ Writer(c)
             /\ WSStep(c) /\ UNCHANGED <<printed, taken, stream, reader, held>>
      BY <2>1 DEF Handler, Shared, WSStep
    <3> QED BY <1>1, <3>1, OwnStepCounts, SharedStepCounts
  <2>2. Left(c) \in Int /\ Left(c)' \in Int
    <3>1. ToRead \in Int /\ ReaderLeft(c) \in Nat /\ ConnLeft(c) \in Nat
      BY <1>1, LeftValues
    <3>2. Left(c) \in Int
      BY <3>1 DEF Left
    <3> QED BY <1>1, <3>2, LeftNext
  <2>3. ASSUME NEW d \in Conns,
               \/ WSStep(d) /\ UNCHANGED <<printed, taken, stream, reader, held>>
               \/ StartExec(d) \/ Return(d) \/ StreamReader(d)
        PROVE  Left(c)' <= Left(c)
    <3>1. CASE d # c
      BY <1>1, <2>3, <3>1, OthersStep
    <3>2. CASE d = c
      <4>1. StartExec(c) \/ Return(c) \/ StreamReader(c) => Left(c)' < Left(c)
        BY <2>1 DEF Handler
      <4> QED BY <1>1, <2>2, <2>3, <3>2, <4>1, SharedStepCounts
    <3> QED BY <3>1, <3>2
  <2>4. \E d \in Conns :
          \/ WSStep(d) /\ UNCHANGED <<printed, taken, stream, reader, held>>
          \/ StartExec(d) \/ Return(d) \/ StreamReader(d)
    BY <1>1 DEF Next, Connect, Output, ShellExits, CloseStream, Handler, Shared, WSStep
  <2> QED BY <2>1, <2>3, <2>4
<1>2. TypeOK /\ TypeOK' /\ [Next]_vars =>
        [stream = "closed" =>
           \A c \in Conns :
             /\ Left(c)' <= Left(c)
             /\ Handler(c) \/ Shared(Writer(c)) \/ StreamReader(c) => Left(c)' < Left(c)]_vars
  BY <1>1
<1> QED BY <1>2, ExecTypeCorrect, PTL DEF Spec, EndComesNearer
-----------------------------------------------------------------------------
(* What the browsers have seen can be played back *)

\* So is what a connection's reader is about to queue.
HandSeen(c) == reader[c] = "send" => InRecord(held[c])
SeenInv == \A c \in Conns : Seen(c) /\ HandSeen(c)

LEMMA SeenInit == Init => SeenInv
BY DEF Init, WSInit, SeenInv, Seen, HandSeen, AllInRecord

\* A step that neither shows nor records anything.
LEMMA SeenStill ==
  ASSUME SeenInv, UNCHANGED <<rec, snapshot, writeCh, got>>,
         \A d \in Conns : reader'[d] = "send" => reader[d] = "send" /\ held'[d] = held[d]
  PROVE  SeenInv'
<1>1. \A m : InRecord(m)' <=> InRecord(m)
  BY DEF InRecord
<1>2. ASSUME NEW d \in Conns PROVE Seen(d)' /\ HandSeen(d)'
  BY <1>1, SeenFrame DEF SeenInv, HandSeen
<1> QED BY <1>2 DEF SeenInv

\* A reader records its chunk before it queues it.
LEMMA SeenReader ==
  ASSUME TypeOK, SeenInv, NEW c \in Conns, Record(c) \/ Queue(c) \/ Bye(c)
  PROVE  SeenInv'
<1>1. CASE Record(c)
  <2>1. /\ rec' = Append(rec, held[c]) /\ UNCHANGED <<snapshot, writeCh, got, held>>
        /\ \A d \in Conns \ {c} : reader'[d] = reader[d]
    BY <1>1 DEF Record, ReaderStep, TypeOK
  <2>2. InRecord(held[c])' /\ \A m : InRecord(m) => InRecord(m)'
    BY <2>1, RecordGrows DEF TypeOK, WSTypeOK
  <2>3. ASSUME NEW d \in Conns PROVE Seen(d)'
    BY <2>1, <2>2, SeenFrame DEF SeenInv
  <2>4. ASSUME NEW d \in Conns PROVE HandSeen(d)'
    <3>1. CASE d = c
      BY <2>1, <2>2, <3>1 DEF HandSeen
    <3>2. CASE d # c
      BY <2>1, <2>2, <3>2 DEF HandSeen, SeenInv
    <3> QED BY <3>1, <3>2
  <2> QED BY <2>3, <2>4 DEF SeenInv
<1>2. ASSUME NEW m \in Messages, InRecord(m), UNCHANGED <<rec, snapshot, got, held>>,
             \/ writeCh' = writeCh
             \/ writeCh' = [writeCh EXCEPT ![c] = Append(@, m)],
             \A d \in Conns : reader'[d] = "send" => reader[d] = "send"
      PROVE  SeenInv'
  <2>1. \A x : InRecord(x)' <=> InRecord(x)
    BY <1>2 DEF InRecord
  <2>2. ASSUME NEW d \in Conns PROVE HandSeen(d)'
    BY <1>2, <2>1 DEF HandSeen, SeenInv
  <2>3. CASE writeCh' = writeCh
    <3>1. ASSUME NEW d \in Conns PROVE Seen(d)'
      BY <1>2, <2>1, <2>3, SeenFrame DEF SeenInv
    <3> QED BY <2>2, <3>1 DEF SeenInv
  <2>4. CASE writeCh' = [writeCh EXCEPT ![c] = Append(@, m)]
    <3>1. /\ writeCh'[c] = Append(writeCh[c], m)
          /\ \A d \in Conns \ {c} : writeCh'[d] = writeCh[d]
      BY <2>4 DEF TypeOK, WSTypeOK
    <3>2. ASSUME NEW d \in Conns PROVE Seen(d)'
      <4>1. CASE d = c
        BY <1>2, <3>1, <4>1, SeenQueued DEF SeenInv, TypeOK
      <4>2. CASE d # c
        BY <1>2, <2>1, <3>1, <4>2, SeenFrame DEF SeenInv
      <4> QED BY <4>1, <4>2
    <3> QED BY <2>2, <3>2 DEF SeenInv
  <2> QED BY <1>2, <2>3, <2>4
<1>3. CASE Queue(c)
  <2>1. held[c] \in Messages /\ InRecord(held[c])
    BY <1>3, MaxOutputAssumption
    DEF Queue, ReaderStep, SeenInv, HandSeen, TypeOK, Messages, Chunks, Exit
  <2> QED BY <1>2, <1>3, <2>1 DEF Queue, ReaderStep, Offer, TypeOK
<1>4. CASE Bye(c)
  <2>1. Exit \in Messages /\ InRecord(Exit)
    BY DEF Messages, InRecord
  <2> QED BY <1>2, <1>4, <2>1 DEF Bye, ReaderStep, Offer, TypeOK
<1> QED BY <1>1, <1>3, <1>4

LEMMA SeenNext == TypeOK /\ SeenInv /\ [Next]_vars => SeenInv'
<1> SUFFICES ASSUME TypeOK, SeenInv, [Next]_vars PROVE SeenInv'
  OBVIOUS
<1>1. CASE Output \/ ShellExits \/ CloseStream \/ UNCHANGED vars
  BY <1>1, SeenStill DEF Output, ShellExits, CloseStream, vars, wsVars
<1>2. ASSUME NEW c \in Conns,
             \/ Shared(Dial(c)) \/ Shared(Leave(c)) \/ Shared(DeadlinePasses(c))
             \/ Shared(FlushEvents(c)) \/ Shared(ReadFails(c)) \/ Shared(Writer(c))
      PROVE  SeenInv'
  <2>1. WSStep(c) /\ UNCHANGED <<reader, held>>
    BY <1>2 DEF Shared, WSStep
  <2>2. (\A m : InRecord(m)' <=> InRecord(m)) /\ \A d \in Conns : Seen(d)'
    BY <2>1, SeenShared DEF SeenInv, TypeOK
  <2> QED BY <2>1, <2>2 DEF SeenInv, HandSeen
<1>3. ASSUME NEW c \in Conns,
             StartExec(c) \/ Return(c) \/ ReadStream(c) \/ ReadError(c) \/ GiveUp(c)
      PROVE  SeenInv'
  <2>1. /\ UNCHANGED <<rec, snapshot, writeCh, got>>
        /\ \A d \in Conns : reader'[d] = "send" => reader[d] = "send" /\ held'[d] = held[d]
    BY <1>3 DEF StartExec, Return, ReadStream, ReadError, GiveUp, ReaderStep, wsVars, TypeOK
  <2> QED BY <2>1, SeenStill
<1>4. ASSUME NEW c \in Conns, Record(c) \/ Queue(c) \/ Bye(c) PROVE SeenInv'
  BY <1>4, SeenReader
<1> QED BY <1>1, <1>2, <1>3, <1>4 DEF Next, Connect, Handler, StreamReader

\* Whatever a browser was shown, other than the exit message, is in the recording that a later
\* browser is given and the player plays (ws.go:84, ws.go:122-126): a reader records before it
\* queues, and every flush is a copy of the recording.
THEOREM SeenCanBePlayedBack == Spec => []SeenIsRecorded
<1>1. TypeOK /\ SeenInv => SeenIsRecorded
  BY DEF TypeOK, WSTypeOK, SeenInv, Seen, AllInRecord, InRecord, SeenIsRecorded
<1> QED BY <1>1, SeenInit, SeenNext, ExecTypeCorrect, PTL DEF Spec
=============================================================================
