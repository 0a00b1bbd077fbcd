---------------------------- MODULE AttachSession ----------------------------
(***************************************************************************)
(* The data path of an attach session: Subscribe, Unsubscribe, Broadcast   *)
(* and StartStreamPump of src/internal/session/session.go under            *)
(* runAttachWS of src/internal/api/ws.go.  One pump reads the container's  *)
(* stream for all browsers; every connection has a subscription with a     *)
(* bounded channel, a forwarder and the write goroutine of WSConn.         *)
(***************************************************************************)
EXTENDS WSConn, SequencesExt

CONSTANT SubCap \* capacity of Subscription.Ch (64 in the code)

ASSUME SubCapAssumption == SubCap \in Nat \ {0}

VARIABLES
  printed,      \* chunks the container has printed
  stream,       \* "open", "exited" (the container stopped) or "closed" (cut: by evict, a lost link
                \* or by the end of the request that opened it)
  pump,         \* "off", "read", "record", "copy", "send" or "stopped"
  chunk,        \* the last chunk the pump has read
  audience,     \* Broadcast's copy of the subscriber list, what is left of it
  subscribers,  \* Session.subscribers
  subCh,        \* Subscription.Ch, per connection
  cancelled,    \* connections whose Subscription.Done is closed
  forwarder,    \* "idle", "select", "send" or "stopped"
  held          \* the chunk the forwarder is handling

pumpVars == <<printed, stream, pump, chunk, audience>>
subVars == <<subscribers, subCh, cancelled, forwarder, held>>
vars == <<wsVars, pumpVars, subVars>>

Init ==
  /\ WSInit
  /\ printed = 0
  /\ stream = "open"
  /\ pump = "off"
  /\ chunk = 0
  /\ audience = <<>>
  /\ subscribers = <<>>
  /\ subCh = [c \in Conns |-> <<>>]
  /\ cancelled = {}
  /\ forwarder = [c \in Conns |-> "idle"]
  /\ held = [c \in Conns |-> 0]

-----------------------------------------------------------------------------
(* The container, and whatever cuts the stream *)

Output ==
  /\ stream = "open" /\ printed < MaxOutput
  /\ printed' = printed + 1
  /\ UNCHANGED <<wsVars, subVars, stream, pump, chunk, audience>>

ContainerStops ==
  /\ stream = "open"
  /\ stream' = "exited"
  /\ UNCHANGED <<wsVars, subVars, printed, pump, chunk, audience>>

CloseStream ==
  /\ stream # "closed"
  /\ stream' = "closed"
  /\ UNCHANGED <<wsVars, subVars, printed, pump, chunk, audience>>

-----------------------------------------------------------------------------
(* The pump: the goroutine of StartStreamPump *)

PumpStep(from, to) == pump = from /\ pump' = to

ReadStream ==
  /\ chunk < printed
  /\ PumpStep("read", "record")
  /\ chunk' = chunk + 1
  /\ UNCHANGED <<wsVars, subVars, printed, stream, audience>>

\* Stream.Read fails: the pump stops and tells nobody.
ReadError ==
  /\ (stream = "exited" /\ chunk = printed) \/ stream = "closed"
  /\ PumpStep("read", "stopped")
  /\ UNCHANGED <<wsVars, subVars, printed, stream, chunk, audience>>

\* Recorder.Add
Record ==
  /\ PumpStep("record", "copy")
  /\ rec' = Append(rec, chunk)
  /\ UNCHANGED <<client, handler, snapshot, deadline, writer, writeCh, closed, got, subVars,
                 printed, stream, chunk, audience>>

\* Broadcast copies the subscriber list under the session's mutex ...
CopySubscribers ==
  /\ PumpStep("copy", "send")
  /\ audience' = subscribers
  /\ UNCHANGED <<wsVars, subVars, printed, stream, chunk>>

\* Mutant: Broadcast waits for room in the channel.
SendToNextBlocking ==
  /\ pump = "send" /\ audience # <<>>
  /\ Len(subCh[Head(audience)]) < SubCap
  /\ audience' = Tail(audience)
  /\ subCh' = [subCh EXCEPT ![Head(audience)] = Append(@, chunk)]
  /\ UNCHANGED <<wsVars, printed, stream, pump, chunk, subscribers, cancelled, forwarder, held>>

\* ... and sends to each without the mutex, dropping the chunk where the channel is full.
SendToNext ==
  /\ pump = "send" /\ audience # <<>>
  /\ audience' = Tail(audience)
  /\ LET c == Head(audience) IN
       subCh' = IF Len(subCh[c]) < SubCap THEN [subCh EXCEPT ![c] = Append(@, chunk)] ELSE subCh
  /\ UNCHANGED <<wsVars, printed, stream, pump, chunk, subscribers, cancelled, forwarder, held>>

BroadcastEnds ==
  /\ audience = <<>>
  /\ PumpStep("send", "read")
  /\ UNCHANGED <<wsVars, subVars, printed, stream, chunk, audience>>

Pump == ReadStream \/ ReadError \/ Record \/ CopySubscribers \/ SendToNext \/ BroadcastEnds

-----------------------------------------------------------------------------
(* runAttachWS *)

Subscribe(c) ==
  /\ HandlerStep(c, "start", "subscribed")
  /\ subscribers' = Append(subscribers, c)
  /\ UNCHANGED <<rec, client, snapshot, deadline, writer, writeCh, closed, got, pumpVars,
                 subCh, cancelled, forwarder, held>>

\* Mutant: every connection restarts the pump.
StartAttachAgain(c) ==
  /\ HandlerStep(c, "subscribed", "reading")
  /\ pump' = "read"
  /\ writer' = [writer EXCEPT ![c] = "running"]
  /\ forwarder' = [forwarder EXCEPT ![c] = "select"]
  /\ UNCHANGED <<rec, client, snapshot, deadline, writeCh, closed, got, printed, stream, chunk,
                 audience, subscribers, subCh, cancelled, held>>

\* StartStreamPump, which runs the pump only the first time, and both goroutines of the
\* connection are started.
StartAttach(c) ==
  /\ HandlerStep(c, "subscribed", "reading")
  /\ pump' = IF pump = "off" THEN "read" ELSE pump
  /\ writer' = [writer EXCEPT ![c] = "running"]
  /\ forwarder' = [forwarder EXCEPT ![c] = "select"]
  /\ UNCHANGED <<rec, client, snapshot, deadline, writeCh, closed, got, printed, stream, chunk,
                 audience, subscribers, subCh, cancelled, held>>

\* Mutant: the deferred Unsubscribe removes the oldest subscription.
ReturnFirst(c) ==
  /\ Done(c)
  /\ HandlerStep(c, "waiting", "returned")
  /\ subscribers' = Tail(subscribers)
  /\ cancelled' = cancelled \cup {c}
  /\ UNCHANGED <<rec, client, snapshot, deadline, writer, writeCh, closed, got, pumpVars,
                 subCh, forwarder, held>>

\* runAttachWS returns after <-done; the deferred Unsubscribe closes Subscription.Done.
Return(c) ==
  /\ Done(c)
  /\ HandlerStep(c, "waiting", "returned")
  /\ subscribers' = RemoveFirst(subscribers, c)
  /\ cancelled' = cancelled \cup {c}
  /\ UNCHANGED <<rec, client, snapshot, deadline, writer, writeCh, closed, got, pumpVars,
                 subCh, forwarder, held>>

ForwarderStep(c, from, to) == forwarder[c] = from /\ forwarder' = [forwarder EXCEPT ![c] = to]

\* Mutant: the chunk stays at the head of the channel.
TakeChunkPeek(c) ==
  /\ ForwarderStep(c, "select", "send")
  /\ subCh[c] # <<>>
  /\ held' = [held EXCEPT ![c] = Head(subCh[c])]
  /\ UNCHANGED <<wsVars, pumpVars, subscribers, subCh, cancelled>>

\* case data := <-sub.Ch
TakeChunk(c) ==
  /\ ForwarderStep(c, "select", "send")
  /\ subCh[c] # <<>>
  /\ held' = [held EXCEPT ![c] = Head(subCh[c])]
  /\ subCh' = [subCh EXCEPT ![c] = Tail(@)]
  /\ UNCHANGED <<wsVars, pumpVars, subscribers, cancelled>>

\* case <-sub.Done, and the forwarder closes writeCh
Cancelled(c) ==
  /\ c \in cancelled
  /\ ForwarderStep(c, "select", "stopped")
  /\ closed' = closed \cup {c}
  /\ UNCHANGED <<rec, client, handler, snapshot, deadline, writer, writeCh, got, pumpVars,
                 subscribers, subCh, cancelled, held>>

Queue(c) ==
  /\ ForwarderStep(c, "send", "select")
  /\ Offer(c, held[c])
  /\ UNCHANGED <<rec, client, handler, snapshot, deadline, writer, closed, got, pumpVars,
                 subscribers, subCh, cancelled, held>>

\* done is closed while the chunk waits for room in writeCh.
GiveUp(c) ==
  /\ Done(c)
  /\ ForwarderStep(c, "send", "stopped")
  /\ closed' = closed \cup {c}
  /\ UNCHANGED <<rec, client, handler, snapshot, deadline, writer, writeCh, got, pumpVars,
                 subscribers, subCh, cancelled, held>>

Forwarder(c) == TakeChunk(c) \/ Cancelled(c) \/ Queue(c) \/ GiveUp(c)

-----------------------------------------------------------------------------
Shared(A) == A /\ UNCHANGED <<pumpVars, subVars>>

Handler(c) ==
  Shared(FlushEvents(c)) \/ Subscribe(c) \/ StartAttach(c) \/ Shared(ReadFails(c)) \/ Return(c)

Next ==
  \/ Output \/ ContainerStops \/ CloseStream \/ Pump
  \/ \E c \in Conns :
       \/ Shared(Dial(c)) \/ Shared(Leave(c)) \/ Shared(DeadlinePasses(c))
       \/ Handler(c) \/ Shared(Writer(c)) \/ Forwarder(c)

(***************************************************************************)
(* Fairness: the goroutines of the server run, except that the write       *)
(* goroutine may block in WriteMessage for as long as a slow browser does  *)
(* not read (FastBrowsers adds that none does).  The browser need not come *)
(* or leave, and the container need not print anything.                    *)
(***************************************************************************)
Fairness ==
  /\ WF_vars(Pump)
  /\ \A c \in Conns : WF_vars(Handler(c)) /\ WF_vars(Forwarder(c))

FastBrowsers == \A c \in Conns : WF_vars(Shared(Writer(c)))

Spec == Init /\ [][Next]_vars /\ Fairness
FastSpec == Spec /\ FastBrowsers
-----------------------------------------------------------------------------
(* Properties *)

TypeOK ==
  /\ WSTypeOK
  /\ printed \in 0 .. MaxOutput
  /\ stream \in {"open", "exited", "closed"}
  /\ pump \in {"off", "read", "record", "copy", "send", "stopped"}
  /\ chunk \in 0 .. printed
  /\ audience \in Seq(Conns)
  /\ subscribers \in Seq(Conns)
  /\ subCh \in [Conns -> Seq(Chunks)]
  /\ \A c \in Conns : Len(subCh[c]) <= SubCap
  /\ cancelled \subseteq Conns
  /\ forwarder \in [Conns -> {"idle", "select", "send", "stopped"}]
  /\ held \in [Conns -> 0 .. MaxOutput]

\* However many browsers connect, and whenever, the recording is the container's output: every
\* chunk once and in order (session.go:172, the pump starts once).
RecordedInOrder == \A i \in 1 .. Len(rec) : rec[i] = i

\* Subscriptions do not outlive their connections, nor are they lost while others come and
\* go: the list holds exactly the connections between Subscribe and Unsubscribe, each once.
SubscribersAreServed ==
  /\ \A c \in Conns :
       (c \in Range(subscribers)) <=> (handler[c] \in {"subscribed", "reading", "waiting"})
  /\ \A i, j \in 1 .. Len(subscribers) : subscribers[i] = subscribers[j] => i = j

\* Live output reaches a browser in order and no chunk of it twice, though some may be dropped;
\* of the flush only the last chunk can come again.
LiveInOrder ==
  \A c \in Conns : \A i, j \in 1 .. Len(got[c]) :
    i < j => IF j > Len(snapshot[c]) + 1 \/ i < Len(snapshot[c])
             THEN got[c][i] < got[c][j] ELSE got[c][i] <= got[c][j]

\* The pump waits for no browser: with a chunk to record or to send on, or one to read, it can
\* take its next step, however full the channels are and whoever has gone (session.go:150).
PumpWaitsForNobody ==
  pump \in {"record", "copy", "send"} \/ (pump = "read" /\ chunk < printed) => ENABLED Pump

-----------------------------------------------------------------------------
(* What the repository says and the code does not do *)

\* SPEC.md:211, main.go:57: the handler of a browser that has gone returns, at the latest when
\* the session itself is over, so that its disconnect is noticed.
DisconnectIsNoticed ==
  \A c \in Conns : (client[c] = "gone" /\ stream = "closed") ~> handler[c] = "returned"
=============================================================================
