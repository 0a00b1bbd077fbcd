------------------------- MODULE RuntimeStreamProofs -------------------------
(***************************************************************************)
(* Theorems about RuntimeStream: what holds of every kind of connection,   *)
(* for any number of browsers and any amount of input and output.          *)
(***************************************************************************)
EXTENDS RuntimeStream, TLAPS

Cut == link = "down" \/ closed

\* Between the connection and Read there is at most the chunk that the copier offers.
OutputInPipe ==
  /\ printed \in Nat /\ copied \in 0 .. printed /\ got \in 0 .. printed
  /\ copier \in {"none", "read", "write", "stopped"}
  /\ copier = "read" => got = copied
  /\ copier = "write" => copied = got + 1
  /\ copier = "stopped" /\ ~pipeEnd => got = copied

\* Which goroutines there are.
KindOfStream ==
  /\ kind \in Kinds \cup {"none"}
  /\ kind = "none" => copier = "none" /\ reader = "idle" /\ got = 0 /\ copied = 0
  /\ kind \in {"none", "tty", "body"} => copier = "none" /\ ~pipeEnd
  /\ kind \in {"k8s", "mux", "logs"} => copier # "none"

\* The pipe ends only when all has gone through it or the connection is cut.
PipeEndsLast ==
  /\ pipeEnd \in BOOLEAN /\ closed \in BOOLEAN
  /\ link \in {"up", "down"} /\ process \in {"running", "exited"}
  /\ pipeEnd => Cut \/ (process = "exited" /\ got = printed)

OutputInv == OutputInPipe /\ KindOfStream /\ PipeEndsLast

outputVars == <<kind, process, link, closed, outVars>>

LEMMA OutputFrame == OutputInv /\ UNCHANGED outputVars => OutputInv'
BY DEF OutputInv, OutputInPipe, KindOfStream, PipeEndsLast, Cut, outputVars, outVars

LEMMA OutputInit == Init => OutputInv /\ Stream!Init
<1> SUFFICES ASSUME Init PROVE OutputInv /\ Stream!Init
  OBVIOUS
<1>1. OutputInv
  <2>1. OutputInPipe
    BY DEF Init, OutputInPipe
  <2>2. KindOfStream
    BY DEF Init, KindOfStream
  <2>3. PipeEndsLast
    BY DEF Init, PipeEndsLast
  <2> QED BY <2>1, <2>2, <2>3 DEF OutputInv
<1>2. (link = "down" \/ closed) = FALSE
  <2>1. link # "down" /\ ~closed
    BY DEF Init
  <2> QED BY <2>1, Zenon
<1>3. Stream!Init
  BY <1>2, Zenon DEF Init, Stream!Init
<1> QED BY <1>1, <1>3

\* Each step keeps the invariant and is a step of ContainerStream, or leaves that alone.
Refines == OutputInv' /\ [Stream!Next]_(Stream!vars)

\* The container, the network and the request.
LEMMA WorldRefines ==
  OutputInv /\ (Open \/ Output \/ Exit \/ LinkLost \/ RequestEnds \/ Close) => Refines
<1> SUFFICES ASSUME OutputInv, Open \/ Output \/ Exit \/ LinkLost \/ RequestEnds \/ Close
             PROVE  Refines
  OBVIOUS
<1> USE DEF Refines, OutputInv, OutputInPipe, KindOfStream, PipeEndsLast, Cut, Stream!Next, Stream!vars
<1>1. CASE Open
  <2>1. PICK k \in Kinds : Opens(k)
    BY <1>1 DEF Open, K8sExec, K8sAttach, NewK8sStream, K8sLogs, Exec, Attach, Logs,
                NewDockerStream, Opens
  <2> QED BY <2>1, KindsAssumption DEF Opens
<1>2. CASE Output
  BY <1>2 DEF Output, inVars, Stream!Output
<1>3. CASE Exit
  BY <1>3 DEF Exit, outVars, inVars, Stream!Exit
<1>4. CASE LinkLost
  BY <1>4 DEF LinkLost, outVars, inVars, Stream!Cut
<1>5. CASE RequestEnds
  BY <1>5 DEF RequestEnds, IsLog, outVars, inVars
<1>6. CASE Close
  BY <1>6 DEF Close, outVars, inVars, Stream!Cut
<1> QED BY <1>1, <1>2, <1>3, <1>4, <1>5, <1>6

\* The goroutines that fill the pipe.
LEMMA CopierRefines == OutputInv /\ (StreamReturns \/ Copier) => Refines
<1> SUFFICES ASSUME OutputInv, StreamReturns \/ Copier PROVE Refines
  OBVIOUS
<1> USE DEF Refines, OutputInv, OutputInPipe, KindOfStream, PipeEndsLast, Cut, Stream!Next, Stream!vars
<1>1. CASE StreamReturns
  BY <1>1 DEF StreamReturns, AllCopied, inVars, Stream!Cut
<1>2. CASE Copy
  BY <1>2 DEF Copy, CopierStep, inVars
<1>3. CASE CopyEnds
  BY <1>3 DEF CopyEnds, AllCopied, CopierStep, inVars
<1>4. CASE CopyRefused
  BY <1>4 DEF CopyRefused, CopierStep, inVars
<1> QED BY <1>1, <1>2, <1>3, <1>4 DEF Copier

\* Read.
LEMMA ReaderRefines == OutputInv /\ (StartReading \/ Reader) => Refines
<1> SUFFICES ASSUME OutputInv, StartReading \/ Reader PROVE Refines
  OBVIOUS
<1> USE DEF Refines, OutputInv, OutputInPipe, KindOfStream, PipeEndsLast, Cut, Stream!Next, Stream!vars
<1>1. CASE StartReading
  BY <1>1 DEF StartReading, inVars, Stream!CallRead
<1>2. CASE ReadPipe
  BY <1>2 DEF ReadPipe, CopierStep, inVars, Stream!Deliver
<1>3. CASE ReadConn
  BY <1>3, KindsAssumption DEF ReadConn, Piped, inVars, Stream!Deliver
<1>4. CASE ReadFails
  BY <1>4 DEF ReadFails, Piped, inVars, Stream!Fail
<1> QED BY <1>1, <1>2, <1>3, <1>4 DEF Reader

\* Input touches none of it.
LEMMA InputRefines ==
  OutputInv /\ (Feeder \/ \E w \in Writers : Dispatch(w) \/ SendDocker(w) \/ Write(w)) => Refines
<1> SUFFICES ASSUME OutputInv,
                    Feeder \/ \E w \in Writers : Dispatch(w) \/ SendDocker(w) \/ Write(w)
             PROVE  Refines
  OBVIOUS
<1>1. UNCHANGED outputVars
  BY DEF Feeder, FeederSends, FeederEnds, Dispatch, SendDocker, Write, Feed, WriteFails, outputVars
<1>2. OutputInv'
  BY <1>1, OutputFrame
<1>3. UNCHANGED Stream!vars
  BY <1>1 DEF outputVars, outVars, Stream!vars
<1> QED BY <1>2, <1>3 DEF Refines

LEMMA NextRefines == OutputInv /\ [Next]_vars => Refines
<1>1. OutputInv /\ UNCHANGED vars => Refines
  BY OutputFrame DEF vars, outputVars, outVars, Refines, Stream!vars
<1> QED BY <1>1, WorldRefines, CopierRefines, ReaderRefines, InputRefines DEF Next

\* Every connection that a runtime returns, k8s.go's pipes and docker.go's alike, keeps the
\* safety part of what ContainerStream promises: the output in order and without a gap, and
\* no end before the last of it unless the connection was cut.
THEOREM RefinesStream == Spec => Stream!Init /\ [][Stream!Next]_(Stream!vars)
<1>1. OutputInv /\ [Next]_vars => OutputInv' /\ [Stream!Next]_(Stream!vars)
  BY NextRefines DEF Refines
<1> QED BY <1>1, OutputInit, PTL DEF Spec
-----------------------------------------------------------------------------
(* Input *)

\* Only a message in the feeder's hands, or the one it dropped when it stopped, was not sent.
OneInHand == sent = taken \/ \E x \in Messages : taken = Append(sent, x)

InputInv ==
  /\ writer \in [Writers -> Seq(Messages)]
  /\ typed \in [Writers -> 0 .. MaxInput]
  /\ sent \in Seq(Messages) /\ taken \in Seq(Messages)
  /\ feeder \in {"none", "read", "send", "stopped"}
  /\ feeder # "none" => kind = "k8s"
  /\ feeder \in {"none", "read"} => sent = taken
  /\ feeder = "send" => \E x \in Messages : taken = Append(sent, x)
  /\ OneInHand

LEMMA InputInit == Init => InputInv
BY BoundsAssumption DEF Init, InputInv, OneInHand

\* A handler that has something in hand passes on a message.
LEMMA HeadIsMessage ==
  ASSUME InputInv, NEW w \in Writers, Returns(w)
  PROVE  Head(writer[w]) \in Messages /\ writer' \in [Writers -> Seq(Messages)]
BY DEF InputInv, Returns

LEMMA InputNext == InputInv /\ [Next]_vars => InputInv'
<1> SUFFICES ASSUME InputInv, [Next]_vars PROVE InputInv'
  OBVIOUS
<1> USE DEF InputInv, OneInHand
<1>1. CASE Open
  <2>1. PICK k \in Kinds : Opens(k)
    BY <1>1 DEF Open, K8sExec, K8sAttach, NewK8sStream, K8sLogs, Exec, Attach, Logs,
                NewDockerStream, Opens
  <2> QED BY <2>1 DEF Opens
<1>2. CASE \/ Output \/ Exit \/ LinkLost \/ RequestEnds \/ Close \/ StreamReturns \/ Copier
           \/ StartReading \/ Reader \/ UNCHANGED vars
  <2> UNCHANGED <<kind, inVars>>
    BY <1>2 DEF Output, Exit, LinkLost, RequestEnds, Close, StreamReturns, Copier, Copy, CopyEnds,
                CopyRefused, StartReading, Reader, ReadPipe, ReadConn, ReadFails, vars
  <2> QED BY DEF inVars
<1>3. CASE Feeder
  <2>1. CASE FeederSends
    BY <2>1 DEF FeederSends
  <2>2. CASE FeederEnds
    BY <2>2 DEF FeederEnds
  <2> QED BY <1>3, <2>1, <2>2 DEF Feeder
<1>4. ASSUME NEW w \in Writers, Dispatch(w) \/ SendDocker(w) \/ Write(w) PROVE InputInv'
  <2>1. CASE Dispatch(w)
    <3> DEFINE m == [by |-> w, n |-> typed[w] + 1]
    <3>1. m \in Messages /\ typed' \in [Writers -> 0 .. MaxInput]
      BY <2>1, BoundsAssumption DEF Dispatch, Messages
    <3>2. writer' \in [Writers -> Seq(Messages)]
      BY <2>1, <3>1 DEF Dispatch
    <3> QED BY <2>1, <3>1, <3>2 DEF Dispatch
  <2>2. CASE SendDocker(w)
    <3>1. Returns(w) /\ feeder = "none" /\ sent = taken
      BY <2>2 DEF SendDocker
    <3> QED BY <2>2, <3>1, HeadIsMessage DEF SendDocker
  <2>3. CASE Feed(w)
    <3>1. Returns(w) /\ sent = taken
      BY <2>3 DEF Feed
    <3> QED BY <2>3, <3>1, HeadIsMessage DEF Feed
  <2>4. CASE WriteFails(w)
    <3>1. Returns(w)
      BY <2>4 DEF WriteFails
    <3> QED BY <2>4, <3>1, HeadIsMessage DEF WriteFails
  <2> QED BY <1>4, <2>1, <2>2, <2>3, <2>4 DEF Write
<1> QED BY <1>1, <1>2, <1>3, <1>4 DEF Next

LEMMA FrontOfAppend ==
  ASSUME NEW s \in Seq(Messages), NEW x \in Messages
  PROVE  s = SubSeq(Append(s, x), 1, Len(Append(s, x)) - 1)
OBVIOUS

LEMMA WholeOfSeq ==
  ASSUME NEW s \in Seq(Messages)
  PROVE  s = SubSeq(s, 1, Len(s))
OBVIOUS

\* However many browsers type and however the connection ends, of the input that Write took all
\* but the last message at most has been put on the connection (k8s.go:209).
THEOREM AtMostOneInputUnsent == Spec => []OneInputUnsent
<1>1. InputInv => OneInputUnsent
  <2> SUFFICES ASSUME InputInv PROVE OneInputUnsent
    OBVIOUS
  <2>1. CASE sent = taken
    BY <2>1, WholeOfSeq DEF InputInv, OneInputUnsent
  <2>2. CASE \E x \in Messages : taken = Append(sent, x)
    BY <2>2, FrontOfAppend DEF InputInv, OneInputUnsent
  <2> QED BY <2>1, <2>2 DEF InputInv, OneInHand
<1> QED BY <1>1, InputInit, InputNext, PTL DEF Spec

\* What a handler has in hand is the last message of its browser, and all that was taken from
\* that browser is older.
HandsAreNewest ==
  /\ \A w \in Writers : writer[w] # <<>> => writer[w] = <<[by |-> w, n |-> typed[w]]>>
  /\ \A i \in 1 .. Len(taken) :
       /\ taken[i].n <= typed[taken[i].by]
       /\ writer[taken[i].by] # <<>> => taken[i].n < typed[taken[i].by]

TakenInOrder ==
  \A i, j \in 1 .. Len(taken) : i < j /\ taken[i].by = taken[j].by => taken[i].n < taken[j].n

OrderInv == InputInv /\ HandsAreNewest /\ TakenInOrder

orderVars == <<writer, typed, taken>>

LEMMA OrderFrame ==
  HandsAreNewest /\ TakenInOrder /\ UNCHANGED orderVars => HandsAreNewest' /\ TakenInOrder'
BY DEF HandsAreNewest, TakenInOrder, orderVars

LEMMA MessageFields ==
  ASSUME NEW m \in Messages PROVE m.by \in Writers /\ m.n \in 1 .. MaxInput
BY DEF Messages

\* A message that leaves a handler's hands, for the container or for nowhere.
LEMMA HandOver ==
  ASSUME OrderInv, NEW w \in Writers, Returns(w), UNCHANGED typed,
         taken' = Append(taken, Head(writer[w])) \/ taken' = taken
  PROVE  HandsAreNewest' /\ TakenInOrder'
<1> DEFINE m == [by |-> w, n |-> typed[w]]
<1>1. writer[w] = <<m>> /\ Head(writer[w]) = m /\ m \in Messages
  <2>1. writer[w] = <<m>>
    BY DEF OrderInv, HandsAreNewest, Returns
  <2>2. Head(writer[w]) = m
    <3> HIDE DEF m
    <3> QED BY <2>1
  <2> QED BY <2>1, <2>2, HeadIsMessage DEF OrderInv
<1>2. writer' = [writer EXCEPT ![w] = <<>>]
  BY <1>1 DEF Returns, OrderInv, InputInv
<1>3. \A v \in Writers : writer'[v] = IF v = w THEN <<>> ELSE writer[v]
  BY <1>2 DEF OrderInv, InputInv
<1>4. taken \in Seq(Messages) /\ \A v \in Writers : typed[v] \in 0 .. MaxInput
  BY DEF OrderInv, InputInv
<1>5. \A i \in 1 .. Len(taken) : taken[i] \in Messages
  BY <1>4
<1>6. \A i \in 1 .. Len(taken) : taken[i].by = w => taken[i].n < typed[w]
  BY DEF OrderInv, HandsAreNewest, Returns
<1>7. CASE taken' = taken
  <2>1. TakenInOrder'
    BY <1>7 DEF OrderInv, TakenInOrder
  <2>2. HandsAreNewest'
    BY <1>7, <1>3, <1>5, MessageFields DEF OrderInv, HandsAreNewest
  <2> QED BY <2>1, <2>2
<1>8. CASE taken' = Append(taken, Head(writer[w]))
  <2>1. /\ Len(taken') = Len(taken) + 1 /\ taken'[Len(taken) + 1] = m
        /\ \A i \in 1 .. Len(taken) : taken'[i] = taken[i]
    BY <1>8, <1>1, <1>4
  <2>2. m.by = w /\ m.n = typed[w]
    OBVIOUS
  <2>3. TakenInOrder'
    <3> SUFFICES ASSUME NEW i \in 1 .. Len(taken'), NEW j \in 1 .. Len(taken'),
                        i < j, taken'[i].by = taken'[j].by
                 PROVE  taken'[i].n < taken'[j].n
      BY DEF TakenInOrder
    <3>1. i \in 1 .. Len(taken) /\ taken'[i] = taken[i]
      BY <2>1, <1>4
    <3>2. CASE j = Len(taken) + 1
      BY <3>1, <3>2, <2>1, <2>2, <1>6
    <3>3. CASE j # Len(taken) + 1
      <4>1. j \in 1 .. Len(taken) /\ taken'[j] = taken[j]
        BY <3>3, <2>1, <1>4
      <4> QED BY <3>1, <4>1 DEF OrderInv, TakenInOrder
    <3> QED BY <3>2, <3>3
  <2>4. HandsAreNewest'
    <3>1. \A v \in Writers : writer'[v] # <<>> => writer'[v] = <<[by |-> v, n |-> typed'[v]]>>
      BY <1>3 DEF OrderInv, HandsAreNewest
    <3>2. ASSUME NEW i \in 1 .. Len(taken')
          PROVE  /\ taken'[i].n <= typed[taken'[i].by]
                 /\ writer'[taken'[i].by] # <<>> => taken'[i].n < typed[taken'[i].by]
      <4>1. CASE i = Len(taken) + 1
        BY <4>1, <2>1, <2>2, <1>3, <1>4
      <4>2. CASE i # Len(taken) + 1
        <5>1. i \in 1 .. Len(taken) /\ taken'[i] = taken[i]
          BY <4>2, <2>1, <1>4
        <5> QED BY <5>1, <1>3, <1>5, MessageFields DEF OrderInv, HandsAreNewest
      <4> QED BY <4>1, <4>2
    <3> QED BY <3>1, <3>2 DEF HandsAreNewest
  <2> QED BY <2>3, <2>4
<1> QED BY <1>7, <1>8

LEMMA OrderInit == Init => OrderInv
<1> SUFFICES ASSUME Init PROVE HandsAreNewest /\ TakenInOrder
  BY InputInit DEF OrderInv
<1> QED BY DEF Init, HandsAreNewest, TakenInOrder

LEMMA OrderNext == OrderInv /\ [Next]_vars => OrderInv'
<1> SUFFICES ASSUME OrderInv, [Next]_vars PROVE HandsAreNewest' /\ TakenInOrder'
  BY InputNext DEF OrderInv
<1>1. CASE \/ Open \/ Output \/ Exit \/ LinkLost \/ RequestEnds \/ Close \/ StreamReturns \/ Copier
           \/ StartReading \/ Reader \/ Feeder \/ UNCHANGED vars
  <2>1. CASE Open
    BY <2>1 DEF Open, K8sExec, K8sAttach, NewK8sStream, K8sLogs, Exec, Attach, Logs,
                NewDockerStream, Opens, OrderInv, HandsAreNewest, TakenInOrder
  <2>2. CASE ~Open
    <3> UNCHANGED orderVars
      BY <1>1, <2>2
      DEF Output, Exit, LinkLost, RequestEnds, Close, StreamReturns, Copier, Copy, CopyEnds,
          CopyRefused, StartReading, Reader, ReadPipe, ReadConn, ReadFails, Feeder, FeederSends,
          FeederEnds, vars, inVars, orderVars
    <3> QED BY OrderFrame DEF OrderInv
  <2> QED BY <2>1, <2>2
<1>2. ASSUME NEW w \in Writers, Dispatch(w) PROVE HandsAreNewest' /\ TakenInOrder'
  <2>1. /\ taken \in Seq(Messages) /\ \A v \in Writers : typed[v] \in 0 .. MaxInput
        /\ \A i \in 1 .. Len(taken) : taken[i] \in Messages
    BY DEF OrderInv, InputInv
  <2>2. /\ taken' = taken
        /\ \A v \in Writers : typed'[v] = IF v = w THEN typed[w] + 1 ELSE typed[v]
        /\ \A v \in Writers :
             writer'[v] = IF v = w THEN <<[by |-> w, n |-> typed[w] + 1]>> ELSE writer[v]
    BY <1>2 DEF Dispatch, OrderInv, InputInv
  <2>3. TakenInOrder'
    BY <2>2 DEF OrderInv, TakenInOrder
  <2>4. \A v \in Writers : writer'[v] # <<>> => writer'[v] = <<[by |-> v, n |-> typed'[v]]>>
    BY <2>2 DEF OrderInv, HandsAreNewest
  <2>5. ASSUME NEW i \in 1 .. Len(taken)
        PROVE  /\ taken[i].n <= typed'[taken[i].by]
               /\ writer'[taken[i].by] # <<>> => taken[i].n < typed'[taken[i].by]
    <3>1. taken[i].by \in Writers /\ taken[i].n \in 1 .. MaxInput
      BY <2>1, MessageFields
    <3>2. taken[i].n <= typed[taken[i].by]
      BY DEF OrderInv, HandsAreNewest
    <3>3. CASE taken[i].by = w
      BY <3>1, <3>2, <3>3, <2>1, <2>2, BoundsAssumption
    <3>4. CASE taken[i].by # w
      BY <3>1, <3>4, <2>2 DEF OrderInv, HandsAreNewest
    <3> QED BY <3>3, <3>4
  <2>6. HandsAreNewest'
    BY <2>2, <2>4, <2>5 DEF HandsAreNewest
  <2> QED BY <2>3, <2>6
<1>3. ASSUME NEW w \in Writers, SendDocker(w) \/ Write(w) PROVE HandsAreNewest' /\ TakenInOrder'
  <2> /\ Returns(w) /\ UNCHANGED typed
      /\ taken' = Append(taken, Head(writer[w])) \/ taken' = taken
    BY <1>3 DEF SendDocker, Write, Feed, WriteFails
  <2> QED BY HandOver
<1> QED BY <1>1, <1>2, <1>3 DEF Next

\* However many browsers type and however much, what one of them types is put on the connection
\* in the order it was typed and nothing of it twice (ws.go:302-304, k8s.go:209).
THEOREM InputKeepsItsOrder == Spec => []InputInOrder
<1>1. OrderInv => InputInOrder
  <2> SUFFICES ASSUME OrderInv PROVE InputInOrder
    OBVIOUS
  <2>1. CASE sent = taken
    BY <2>1 DEF OrderInv, TakenInOrder, InputInOrder
  <2>2. CASE \E x \in Messages : taken = Append(sent, x)
    <3>1. Len(taken) = Len(sent) + 1 /\ \A i \in 1 .. Len(sent) : sent[i] = taken[i]
      BY <2>2 DEF OrderInv, InputInv
    <3>2. Len(sent) \in Nat
      BY DEF OrderInv, InputInv
    <3> QED BY <3>1, <3>2 DEF OrderInv, TakenInOrder, InputInOrder
  <2> QED BY <2>1, <2>2 DEF OrderInv, InputInv, OneInHand
<1> QED BY <1>1, OrderInit, OrderNext, PTL DEF Spec
-----------------------------------------------------------------------------
(* Types *)

\* What the two invariants leave open.
Rest ==
  /\ request \in {"open", "over"}
  /\ reader \in {"idle", "reading", "stopped"}
  /\ printed <= MaxOutput

TypeInv == OutputInv /\ InputInv /\ Rest

LEMMA RestNext == TypeInv /\ [Next]_vars => Rest'
<1> SUFFICES ASSUME TypeInv, [Next]_vars PROVE Rest'
  OBVIOUS
<1>1. Rest /\ printed \in Nat
  BY DEF TypeInv, OutputInv, OutputInPipe
<1>2. CASE Output
  BY <1>1, <1>2, BoundsAssumption DEF Output, Rest
<1>3. CASE RequestEnds
  BY <1>1, <1>3 DEF RequestEnds, outVars, Rest
<1>4. CASE StartReading \/ Reader
  BY <1>1, <1>4 DEF StartReading, Reader, ReadPipe, ReadConn, ReadFails, Rest
<1>5. CASE Open
  BY <1>1, <1>5 DEF Open, K8sExec, K8sAttach, NewK8sStream, K8sLogs, Exec, Attach, Logs,
                    NewDockerStream, Opens, Rest
<1>6. CASE Exit \/ LinkLost \/ Close \/ StreamReturns \/ Copier \/ Feeder \/ UNCHANGED vars
  BY <1>1, <1>6 DEF Exit, LinkLost, Close, StreamReturns, Copier, Copy, CopyEnds, CopyRefused, Feeder,
                    FeederSends, FeederEnds, vars, outVars, Rest
<1>7. CASE \E w \in Writers : Dispatch(w) \/ SendDocker(w) \/ Write(w)
  BY <1>1, <1>7 DEF Dispatch, SendDocker, Write, Feed, WriteFails, outVars, Rest
<1> QED BY <1>2, <1>3, <1>4, <1>5, <1>6, <1>7 DEF Next

\* The variables keep their types: above all, neither the copier nor Read is ever ahead of what
\* the container has printed (docker.go:193, k8s.go:209).
THEOREM StreamTypeCorrect == Spec => []TypeOK
<1>1. Init => TypeInv
  <2> SUFFICES ASSUME Init PROVE Rest
    BY OutputInit, InputInit DEF TypeInv
  <2> QED BY BoundsAssumption DEF Init, Rest
<1>2. TypeInv /\ [Next]_vars => TypeInv'
  BY NextRefines, InputNext, RestNext DEF TypeInv, Refines
<1>3. ASSUME TypeInv PROVE TypeOK
  <2>1. /\ printed \in 0 .. MaxOutput /\ copied \in 0 .. printed /\ got \in 0 .. printed
        /\ copier \in {"none", "read", "write", "stopped"}
    BY <1>3, BoundsAssumption DEF TypeInv, OutputInv, OutputInPipe, Rest
  <2>2. /\ kind \in Kinds \cup {"none"} /\ pipeEnd \in BOOLEAN /\ closed \in BOOLEAN
        /\ link \in {"up", "down"} /\ process \in {"running", "exited"}
    BY <1>3, Zenon DEF TypeInv, OutputInv, KindOfStream, PipeEndsLast
  <2>3. /\ feeder \in {"none", "read", "send", "stopped"} /\ writer \in [Writers -> Seq(Messages)]
        /\ typed \in [Writers -> 0 .. MaxInput] /\ taken \in Seq(Messages) /\ sent \in Seq(Messages)
    BY <1>3, Zenon DEF TypeInv, InputInv
  <2>4. request \in {"open", "over"} /\ reader \in {"idle", "reading", "stopped"}
    BY <1>3, Zenon DEF TypeInv, Rest
  <2> QED BY <2>1, <2>2, <2>3, <2>4, Zenon DEF TypeOK
<1> QED BY <1>1, <1>2, <1>3, PTL DEF Spec
-----------------------------------------------------------------------------
(* The end of a stream *)

\* What each goroutine needs to go on, and each handler that waits in Write.
CopierCan ==
  \/ copier = "read" /\ (copied < printed \/ link = "down" \/ AllCopied)
  \/ copier = "write" /\ (pipeEnd \/ (kind = "logs" /\ closed))

ReaderCan ==
  /\ reader = "reading"
  /\ IF Piped THEN copier = "write" \/ pipeEnd \/ (kind = "logs" /\ closed)
     ELSE (got < printed /\ ~(kind = "body" /\ closed)) \/ link = "down" \/ process = "exited"

FeederCan == feeder = "send" \/ (feeder = "read" /\ closed)
ReturnCan == kind = "k8s" /\ ~pipeEnd /\ (request = "over" \/ closed \/ link = "down" \/ AllCopied)
RequestCan == IsLog /\ closed /\ request = "open"
WriteCan(w) ==
  writer[w] # <<>> /\ (closed \/ (feeder = "read" /\ ~closed) \/ (link = "down" /\ kind # "k8s"))

Over ==
  /\ reader # "reading"
  /\ copier \in {"none", "stopped"} /\ feeder \in {"none", "stopped"}
  /\ kind = "k8s" => pipeEnd
  /\ \A w \in Writers : writer[w] = <<>>

\* Close leaves no goroutine waiting for another, and no handler in Write: until all have ended
\* one of them can go on, a docker attach that nobody reads excepted.
SomebodyMoves ==
  closed /\ (kind = "mux" => reader # "idle") =>
    \/ Over \/ CopierCan \/ ReaderCan \/ FeederCan \/ ReturnCan \/ RequestCan
    \/ \E w \in Writers : WriteCan(w)

\* A bound on the steps that the goroutines have left after Close.
PrintLeft == 5 * (MaxOutput - printed)
CopyLeft == 3 * (printed - copied)
GotLeft == printed - got
CopierLeft == CASE copier = "write" -> 3 [] copier = "read" -> 1 [] copier = "none" -> 0
                [] copier = "stopped" -> 0
ReaderLeft == CASE reader = "idle" -> 2 [] reader = "reading" -> 1 [] reader = "stopped" -> 0
FeederLeft == CASE feeder = "send" -> 2 [] feeder = "read" -> 1 [] feeder = "none" -> 0
                [] feeder = "stopped" -> 0
PipeLeft == IF pipeEnd THEN 0 ELSE 1
RequestLeft == IF request = "open" THEN 1 ELSE 0
Left ==
  PrintLeft + CopyLeft + GotLeft + CopierLeft + ReaderLeft + FeederLeft + PipeLeft + RequestLeft

\* After Close each of their steps brings the end nearer, and no step of anybody else, the
\* container that goes on printing included, puts it off.
EndComesNearer ==
  [][closed =>
       /\ Left' <= Left
       /\ StreamReturns \/ Copier \/ Reader \/ Feeder \/ (IsLog /\ RequestEnds) => Left' < Left]_vars

\* What Close and the end of the request do to the connection, and what ends with what.
EndInv ==
  /\ kind = "none" => request = "open" /\ ~closed
  /\ kind \in {"tty", "mux", "body"} /\ closed => link = "down"
  /\ IsLog /\ request = "over" => link = "down"
  /\ kind = "k8s" /\ pipeEnd => link = "down" \/ (process = "exited" /\ copied = printed)
  /\ kind \in {"mux", "logs"} /\ copier = "stopped" => pipeEnd
  /\ kind = "mux" /\ reader = "stopped" => pipeEnd

EndFacts == OutputInv /\ InputInv /\ Rest /\ EndInv

LEMMA EndInit == Init => EndFacts
<1> SUFFICES ASSUME Init PROVE Rest /\ EndInv
  BY OutputInit, InputInit DEF EndFacts
<1>1. Rest
  BY BoundsAssumption DEF Init, Rest
<1>2. EndInv
  BY DEF Init, EndInv, IsLog
<1> QED BY <1>1, <1>2

LEMMA EndNext == EndFacts /\ [Next]_vars => EndFacts'
<1> SUFFICES ASSUME EndFacts, [Next]_vars PROVE EndInv'
  BY NextRefines, InputNext, RestNext DEF EndFacts, TypeInv, Refines
<1>1. EndInv /\ OutputInPipe /\ KindOfStream /\ PipeEndsLast
  BY DEF EndFacts, OutputInv
<1>2. CASE Open
  <2>1. PICK k \in Kinds : Opens(k)
    BY <1>2 DEF Open, K8sExec, K8sAttach, NewK8sStream, K8sLogs, Exec, Attach, Logs,
                NewDockerStream, Opens
  <2>2. /\ kind = "none" /\ kind' = k /\ request' = "open" /\ ~closed' /\ ~pipeEnd'
        /\ copier' # "stopped" /\ reader' = "idle"
    BY <1>1, <2>1, KindsAssumption DEF Opens, EndInv, KindOfStream
  <2> QED BY <2>1, <2>2, KindsAssumption DEF EndInv, IsLog
<1>3. CASE Output \/ Exit \/ LinkLost
  BY <1>1, <1>3 DEF Output, Exit, LinkLost, outVars, inVars, EndInv, IsLog
<1>4. CASE RequestEnds
  BY <1>1, <1>4 DEF RequestEnds, outVars, inVars, EndInv, IsLog
<1>5. CASE Close
  BY <1>1, <1>5 DEF Close, outVars, inVars, EndInv, IsLog
<1>6. CASE StreamReturns
  BY <1>1, <1>6 DEF StreamReturns, AllCopied, inVars, EndInv, IsLog
<1>7. CASE Copy
  BY <1>1, <1>7 DEF Copy, CopierStep, inVars, EndInv, IsLog, OutputInPipe
<1>8. CASE CopyEnds
  BY <1>1, <1>8 DEF CopyEnds, AllCopied, CopierStep, inVars, EndInv, IsLog, KindOfStream
<1>9. CASE CopyRefused
  BY <1>1, <1>9 DEF CopyRefused, CopierStep, inVars, EndInv, IsLog
<1>10. CASE StartReading \/ ReadPipe \/ ReadConn
  BY <1>1, <1>10 DEF StartReading, ReadPipe, ReadConn, CopierStep, inVars, EndInv, IsLog
<1>11. CASE ReadFails
  BY <1>1, <1>11 DEF ReadFails, Piped, inVars, EndInv, IsLog
<1>12. CASE Feeder \/ (\E w \in Writers : Dispatch(w) \/ SendDocker(w) \/ Write(w)) \/ UNCHANGED vars
  <2>1. UNCHANGED <<kind, request, process, link, closed, outVars>>
    BY <1>12 DEF Feeder, FeederSends, FeederEnds, Dispatch, SendDocker, Write, Feed, WriteFails, vars
  <2> QED BY <1>1, <2>1 DEF outVars, EndInv, IsLog
<1> QED BY <1>2, <1>3, <1>4, <1>5, <1>6, <1>7, <1>8, <1>9, <1>10, <1>11, <1>12 DEF Next, Copier, Reader

LEMMA EndAlways == Spec => []EndFacts
BY EndInit, EndNext, PTL DEF Spec

\* After Close no goroutine of a stream, of whatever kind, waits for ever, nor does a handler in
\* Write (k8s.go:186-215, docker.go:193-239).
THEOREM NoCircularWait == Spec => []SomebodyMoves
<1>1. EndFacts => SomebodyMoves
  <2> SUFFICES ASSUME EndFacts, closed, kind = "mux" => reader # "idle",
                      ~CopierCan, ~ReaderCan, ~FeederCan, ~ReturnCan, ~RequestCan,
                      \A w \in Writers : ~WriteCan(w)
               PROVE  Over
    BY DEF SomebodyMoves
  <2>1. \A w \in Writers : writer[w] = <<>>
    BY DEF WriteCan
  <2>2. feeder \in {"none", "stopped"}
    BY DEF EndFacts, InputInv, FeederCan
  <2>3. kind = "k8s" => pipeEnd
    BY DEF ReturnCan
  <2>4. EndInv /\ OutputInPipe /\ KindOfStream /\ Rest
    BY DEF EndFacts, OutputInv
  <2>5. kind \in {"tty", "mux", "logs", "body"} => link = "down"
    BY <2>4 DEF EndInv, RequestCan, IsLog, Rest
  <2>6. copier # "read"
    BY <2>3, <2>4, <2>5, KindsAssumption DEF CopierCan, AllCopied, EndInv, KindOfStream
  <2>7. copier # "write"
    <3>1. SUFFICES ASSUME copier = "write" PROVE FALSE
      OBVIOUS
    <3>2. ~pipeEnd /\ kind = "mux"
      BY <2>3, <2>4, <3>1, KindsAssumption DEF CopierCan, KindOfStream
    <3>3. reader = "reading"
      BY <2>4, <3>2 DEF EndInv, Rest
    <3> QED BY <3>1, <3>2, <3>3 DEF ReaderCan, Piped
  <2>8. reader # "reading"
    <3>1. SUFFICES ASSUME reader = "reading" PROVE FALSE
      OBVIOUS
    <3>2. Piped
      BY <2>5, <3>1 DEF ReaderCan, Piped
    <3>3. kind = "mux" /\ ~pipeEnd
      BY <2>3, <2>4, <3>1, <3>2, KindsAssumption DEF ReaderCan, Piped, KindOfStream
    <3> QED BY <2>4, <2>6, <2>7, <3>3 DEF EndInv, KindOfStream, OutputInPipe
  <2> QED BY <2>1, <2>2, <2>3, <2>4, <2>6, <2>7, <2>8 DEF Over, OutputInPipe
<1> QED BY <1>1, EndAlways, PTL

\* The numbers that are counted.
LEMMA LeftValues ==
  ASSUME EndFacts
  PROVE  /\ PrintLeft \in Int /\ CopyLeft \in Int /\ GotLeft \in Int /\ CopierLeft \in Nat
         /\ ReaderLeft \in Nat /\ FeederLeft \in Nat /\ PipeLeft \in Nat /\ RequestLeft \in Nat
         /\ printed \in Int /\ copied \in Int /\ got \in Int /\ MaxOutput \in Int
<1>1. printed \in Int /\ copied \in Int /\ got \in Int /\ MaxOutput \in Int
  BY BoundsAssumption DEF EndFacts, OutputInv, OutputInPipe
<1>2. PrintLeft \in Int /\ CopyLeft \in Int /\ GotLeft \in Int
  BY <1>1 DEF PrintLeft, CopyLeft, GotLeft
<1>3. CopierLeft \in Nat
  BY DEF CopierLeft, EndFacts, OutputInv, OutputInPipe
<1>4. ReaderLeft \in Nat
  BY DEF ReaderLeft, EndFacts, Rest
<1>5. FeederLeft \in Nat
  BY DEF FeederLeft, EndFacts, InputInv
<1>6. PipeLeft \in Nat /\ RequestLeft \in Nat
  BY DEF PipeLeft, RequestLeft
<1> QED BY <1>1, <1>2, <1>3, <1>4, <1>5, <1>6

LEMMA LeftNext ==
  ASSUME EndFacts'
  PROVE  Left' \in Int
<1>1. printed' \in Int /\ copied' \in Int /\ got' \in Int /\ MaxOutput \in Int
  BY BoundsAssumption DEF EndFacts, OutputInv, OutputInPipe
<1>2. PrintLeft' \in Int /\ CopyLeft' \in Int /\ GotLeft' \in Int
  BY <1>1 DEF PrintLeft, CopyLeft, GotLeft
<1>3. CopierLeft' \in Int
  BY DEF CopierLeft, EndFacts, OutputInv, OutputInPipe
<1>4. ReaderLeft' \in Int
  BY DEF ReaderLeft, EndFacts, Rest
<1>5. FeederLeft' \in Int
  BY DEF FeederLeft, EndFacts, InputInv
<1>6. PipeLeft' \in Int /\ RequestLeft' \in Int
  BY DEF PipeLeft, RequestLeft
<1> QED BY <1>2, <1>3, <1>4, <1>5, <1>6 DEF Left

\* Once a stream is closed, its goroutines do not run in a circle: each of their steps lowers a
\* number that nobody raises, so that with NoCircularWait all of them end (k8s.go:186-215,
\* docker.go:193-239).
THEOREM EndIsCounted == Spec => EndComesNearer
<1>1. ASSUME EndFacts, Next, closed
      PROVE  /\ Left' <= Left
             /\ StreamReturns \/ Copier \/ Reader \/ Feeder \/ (IsLog /\ RequestEnds) => Left' < Left
  <2>0. /\ PrintLeft \in Int /\ CopyLeft \in Int /\ GotLeft \in Int /\ CopierLeft \in Nat
        /\ ReaderLeft \in Nat /\ FeederLeft \in Nat /\ PipeLeft \in Nat /\ RequestLeft \in Nat
        /\ printed \in Int /\ copied \in Int /\ got \in Int /\ MaxOutput \in Int
    BY <1>1, LeftValues
  <2>1. ASSUME StreamReturns PROVE Left' < Left
    <3>1. /\ ~pipeEnd /\ pipeEnd'
          /\ UNCHANGED <<printed, copied, got, copier, reader, feeder, request>>
      BY <2>1 DEF StreamReturns, inVars
    <3>2. /\ PrintLeft' = PrintLeft /\ CopyLeft' = CopyLeft /\ GotLeft' = GotLeft
          /\ CopierLeft' = CopierLeft /\ ReaderLeft' = ReaderLeft /\ FeederLeft' = FeederLeft
          /\ PipeLeft = 1 /\ PipeLeft' = 0 /\ RequestLeft' = RequestLeft
      BY <3>1 DEF PrintLeft, CopyLeft, GotLeft, CopierLeft, ReaderLeft, FeederLeft, PipeLeft, RequestLeft
    <3> QED BY <2>0, <3>2 DEF Left
  <2>2. ASSUME Copy PROVE Left' < Left
    <3>1. /\ copier = "read" /\ copier' = "write" /\ copied' = copied + 1
          /\ UNCHANGED <<printed, got, pipeEnd, reader, feeder, request>>
      BY <2>2 DEF Copy, CopierStep, inVars
    <3>2. /\ PrintLeft' = PrintLeft /\ CopyLeft' = CopyLeft - 3 /\ GotLeft' = GotLeft
      BY <2>0, <3>1 DEF PrintLeft, CopyLeft, GotLeft
    <3>3. /\ CopierLeft = 1 /\ CopierLeft' = 3 /\ ReaderLeft' = ReaderLeft /\ FeederLeft' = FeederLeft
          /\ PipeLeft' = PipeLeft /\ RequestLeft' = RequestLeft
      BY <3>1 DEF CopierLeft, ReaderLeft, FeederLeft, PipeLeft, RequestLeft
    <3> QED BY <2>0, <3>2, <3>3 DEF Left
  <2>3. ASSUME CopyEnds \/ CopyRefused PROVE Left' < Left
    <3>1. /\ copier = "read" \/ copier = "write"
          /\ copier' = "stopped" /\ (pipeEnd => pipeEnd')
          /\ UNCHANGED <<printed, copied, got, reader, feeder, request>>
      BY <2>3 DEF CopyEnds, CopyRefused, CopierStep, inVars
    <3>2. /\ PrintLeft' = PrintLeft /\ CopyLeft' = CopyLeft /\ GotLeft' = GotLeft
          /\ CopierLeft' = CopierLeft - 1 \/ CopierLeft' = CopierLeft - 3
          /\ ReaderLeft' = ReaderLeft
          /\ FeederLeft' = FeederLeft /\ RequestLeft' = RequestLeft
          /\ PipeLeft' = PipeLeft \/ PipeLeft' = PipeLeft - 1
      BY <3>1 DEF PrintLeft, CopyLeft, GotLeft, CopierLeft, ReaderLeft, FeederLeft, PipeLeft, RequestLeft
    <3> QED BY <2>0, <3>2 DEF Left
  <2>4. ASSUME ReadPipe PROVE Left' < Left
    <3>1. /\ copier = "write" /\ copier' = "read" /\ got' = got + 1
          /\ UNCHANGED <<printed, copied, pipeEnd, reader, feeder, request>>
      BY <2>4 DEF ReadPipe, CopierStep, inVars
    <3>2. /\ PrintLeft' = PrintLeft /\ CopyLeft' = CopyLeft /\ GotLeft' = GotLeft - 1
      BY <2>0, <3>1 DEF PrintLeft, CopyLeft, GotLeft
    <3>3. /\ CopierLeft = 3 /\ CopierLeft' = 1 /\ ReaderLeft' = ReaderLeft /\ FeederLeft' = FeederLeft
          /\ PipeLeft' = PipeLeft /\ RequestLeft' = RequestLeft
      BY <3>1 DEF CopierLeft, ReaderLeft, FeederLeft, PipeLeft, RequestLeft
    <3> QED BY <2>0, <3>2, <3>3 DEF Left
  <2>5. ASSUME ReadConn PROVE Left' < Left
    <3>1. got' = got + 1 /\ UNCHANGED <<printed, copied, copier, pipeEnd, reader, feeder, request>>
      BY <2>5 DEF ReadConn, inVars
    <3>2. /\ PrintLeft' = PrintLeft /\ CopyLeft' = CopyLeft /\ GotLeft' = GotLeft - 1
      BY <2>0, <3>1 DEF PrintLeft, CopyLeft, GotLeft
    <3>3. /\ CopierLeft' = CopierLeft /\ ReaderLeft' = ReaderLeft /\ FeederLeft' = FeederLeft
          /\ PipeLeft' = PipeLeft /\ RequestLeft' = RequestLeft
      BY <3>1 DEF CopierLeft, ReaderLeft, FeederLeft, PipeLeft, RequestLeft
    <3> QED BY <2>0, <3>2, <3>3 DEF Left
  <2>6. ASSUME ReadFails \/ StartReading PROVE Left' < Left
    <3>1. /\ \/ reader = "idle" /\ reader' = "reading"
             \/ reader = "reading" /\ reader' = "stopped"
          /\ UNCHANGED <<printed, copied, got, copier, pipeEnd, feeder, request>>
      BY <2>6 DEF ReadFails, StartReading, inVars
    <3>2. /\ PrintLeft' = PrintLeft /\ CopyLeft' = CopyLeft /\ GotLeft' = GotLeft
          /\ CopierLeft' = CopierLeft /\ ReaderLeft' = ReaderLeft - 1 /\ FeederLeft' = FeederLeft
          /\ PipeLeft' = PipeLeft /\ RequestLeft' = RequestLeft
      BY <3>1 DEF PrintLeft, CopyLeft, GotLeft, CopierLeft, ReaderLeft, FeederLeft, PipeLeft, RequestLeft
    <3> QED BY <2>0, <3>2 DEF Left
  <2>7. ASSUME Feeder PROVE Left' < Left
    <3>1. /\ \/ feeder = "send" /\ (feeder' = "read" \/ feeder' = "stopped")
             \/ feeder = "read" /\ feeder' = "stopped"
          /\ UNCHANGED <<printed, copied, got, copier, reader, pipeEnd, request>>
      BY <2>7 DEF Feeder, FeederSends, FeederEnds, outVars
    <3>2. /\ PrintLeft' = PrintLeft /\ CopyLeft' = CopyLeft /\ GotLeft' = GotLeft
          /\ CopierLeft' = CopierLeft /\ ReaderLeft' = ReaderLeft
          /\ FeederLeft' = FeederLeft - 1 \/ FeederLeft' = FeederLeft - 2
          /\ PipeLeft' = PipeLeft /\ RequestLeft' = RequestLeft
      BY <3>1 DEF PrintLeft, CopyLeft, GotLeft, CopierLeft, ReaderLeft, FeederLeft, PipeLeft, RequestLeft
    <3> QED BY <2>0, <3>2 DEF Left
  <2>8. ASSUME RequestEnds PROVE Left' < Left
    <3>1. /\ request = "open" /\ request' = "over"
          /\ UNCHANGED <<printed, copied, got, copier, reader, pipeEnd, feeder>>
      BY <2>8 DEF RequestEnds, outVars, inVars
    <3>2. /\ PrintLeft' = PrintLeft /\ CopyLeft' = CopyLeft /\ GotLeft' = GotLeft
          /\ CopierLeft' = CopierLeft /\ ReaderLeft' = ReaderLeft /\ FeederLeft' = FeederLeft
          /\ PipeLeft' = PipeLeft /\ RequestLeft = 1 /\ RequestLeft' = 0
      BY <3>1 DEF PrintLeft, CopyLeft, GotLeft, CopierLeft, ReaderLeft, FeederLeft, PipeLeft, RequestLeft
    <3> QED BY <2>0, <3>2 DEF Left
  <2>9. ASSUME Output PROVE Left' < Left
    <3>1. /\ printed' = printed + 1
          /\ UNCHANGED <<copied, got, copier, reader, feeder, pipeEnd, request>>
      BY <2>9 DEF Output, inVars
    <3>2. /\ CopierLeft' = CopierLeft /\ ReaderLeft' = ReaderLeft /\ FeederLeft' = FeederLeft
          /\ PipeLeft' = PipeLeft /\ RequestLeft' = RequestLeft
      BY <3>1 DEF CopierLeft, ReaderLeft, FeederLeft, PipeLeft, RequestLeft
    <3>3. PrintLeft' = PrintLeft - 5 /\ CopyLeft' = CopyLeft + 3 /\ GotLeft' = GotLeft + 1
      BY <2>0, <3>1 DEF PrintLeft, CopyLeft, GotLeft
    <3> QED BY <2>0, <3>2, <3>3 DEF Left
  <2>10. ASSUME Exit \/ LinkLost \/ \E w \in Writers : Dispatch(w) \/ SendDocker(w) \/ Write(w)
         PROVE  Left' = Left
    <3>1. UNCHANGED <<printed, copied, got, copier, reader, feeder, pipeEnd, request>>
      BY <1>1, <2>10 DEF Exit, LinkLost, Dispatch, SendDocker, Write, Feed, WriteFails, outVars, inVars
    <3>2. /\ PrintLeft' = PrintLeft /\ CopyLeft' = CopyLeft /\ GotLeft' = GotLeft
          /\ CopierLeft' = CopierLeft /\ ReaderLeft' = ReaderLeft /\ FeederLeft' = FeederLeft
          /\ PipeLeft' = PipeLeft /\ RequestLeft' = RequestLeft
      BY <3>1 DEF PrintLeft, CopyLeft, GotLeft, CopierLeft, ReaderLeft, FeederLeft, PipeLeft, RequestLeft
    <3> QED BY <3>2 DEF Left
  <2>11. ~Open /\ ~Close
    BY <1>1 DEF EndFacts, EndInv, Open, K8sExec, K8sAttach, NewK8sStream, K8sLogs, Exec, Attach, Logs,
                NewDockerStream, Opens, Close
  <2>12. Left \in Int
    BY <2>0 DEF Left
  <2>13. Left' < Left \/ Left' = Left
    BY <1>1, <2>1, <2>2, <2>3, <2>4, <2>5, <2>6, <2>7, <2>8, <2>9, <2>10, <2>11
    DEF Next, Copier, Reader
  <2>14. Left' \in Int
    <3>1. EndFacts'
      BY <1>1, EndNext
    <3> QED BY <3>1, LeftNext
  <2> QED BY <2>1, <2>2, <2>3, <2>4, <2>5, <2>6, <2>7, <2>8, <2>12, <2>13, <2>14 DEF Copier, Reader
<1>2. EndFacts /\ [Next]_vars =>
        [closed =>
           /\ Left' <= Left
           /\ StreamReturns \/ Copier \/ Reader \/ Feeder \/ (IsLog /\ RequestEnds)
                => Left' < Left]_vars
  BY <1>1
<1> QED BY <1>2, EndAlways, PTL DEF Spec, EndComesNearer
=============================================================================
