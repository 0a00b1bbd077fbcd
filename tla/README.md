# A TLA+ model of cternal

cternal serves terminals of containers to browsers.  A `POST /api/v1/sessions` makes a
*session* (a shell in the container, its main process, or its log), a WebSocket at `/ws/{id}`
carries the session's output to a browser and its input back, every session is recorded, and
a session that nobody is connected to is discarded after a time to live.

The code that is hard to test is the code where goroutines meet: requests that race for the
last place in the store, timers that fire while a browser comes back, three goroutines per
connection that end each other through channels, one container stream shared by several
connections, pipes between goroutines, and recordings that are copied while they grow.  This
project models that code, checks it with TLC on small instances, and proves with TLAPS, for
every instance, the safety properties that the runs check: of the session registry, of the
recording and the live output, of the connections to containers, of cast files and of the
exports; further that the data paths read what the runtimes' streams promise, and that the
goroutines of a connection cannot wait for each other for ever, with the one exception that a
run shows.

## Inventory

| Component | State | Operations | Hard behaviour |
|---|---|---|---|
| Session store (`internal/session/store.go`) | map of sessions, cap | Create, Get, Delete, GetByContainer | the cap under concurrent creates; lookups that are stale when used |
| TTL manager (`internal/session/ttl.go`) | map of timers | StartTTL, CancelTTL, Remove, the callback | a fired timer cannot be stopped; the callback's own delete comes late |
| HTTP API (`internal/api/server.go`) | gauge, notifier | createSession, deleteSession, EvictSession, evict, autoExport, handleCast | every request is a goroutine; the teardown has five steps and may run twice |
| WebSocket handler (`internal/api/ws.go`) | per connection: writeCh, done, write deadline | handleWebSocket, flushEvents, run{Exec,Attach,Logs}WS, dispatchMessage | handler, writer and reader end each other; reconnects while old goroutines live |
| Session (`internal/session/session.go`) | status, subscribers, pumpOnce | SetStatus, Subscribe, Unsubscribe, Broadcast, StartStreamPump | Broadcast works from a copy and drops when full |
| Recorder (`internal/recorder`) | list of events | Add, AddAt, All; Marshal, Player | two clocks in one recording; clamped gaps |
| Runtimes (`internal/runtime`) | a stream per session | Exec, Attach, Logs; Read, Write, Resize, Close | unbuffered pipes with a goroutine at each end; Kubernetes streams live under the request's context; shared reads |
| Webhooks (`internal/webhook`) | none | Send | one goroutine per notification: no order; a timeout races a late answer |
| CLI (`cmd/cternal`) | recording, screen, file | serve, record, play, logscast | the file is written while the goroutines run on; signals at any point |
| Browser (`frontend/src`) | socket, panes, replay position | connect, retry, split, seek | retry timers against dispose |
| Telemetry, static files, types | none of its own | set-up and I/O | none |

How they interact: `main.go` hands the TTL manager a callback to `EvictSession`; handlers of
requests and connections call the store, the TTL manager and the session directly; a session's
output goes stream -> recorder -> (subscriptions, in attach mode) -> writeCh -> browser, and a
browser's input goes recorder -> stream; a browser that connects first gets a copy of the
recording.  A recording leaves as a cast file: on `GET /cast`, by the export at the end of a
session, or from the `record` and `logscast` commands, which use recorder and runtimes without
a server.  `play` reads such a file.

What makes each correct: the cap holds; a stream is owned by exactly one session and closed
with it; every timer of a live session can be found and stopped; a deserted session goes, and
goes once; a recording is the container's output, once and in order; a browser sees nothing out
of order and nothing that is not recorded, and no live output twice (but a reconnect to a log
reads it again from the start); no goroutine outlives its connection; what is typed is passed
on in order; a cast has all the output with its gaps, clamped, and what was on the screen is in
the file; commands end, with the terminal restored.  PROJECT.json lists the hazards behind
these at their source lines.

## Modules

| Module | Models | State and actions |
|---|---|---|
| `SessionStore` | `store.go` | `store` is the key set of the map.  Each method holds the mutex throughout, hence is one operator: `Create`, `Has` (Get), `Delete`. |
| `TTLManager` | `ttl.go` | `timers` is the map, `timer` the state of every `time.Timer`.  They may disagree, as the callback runs without the mutex. |
| `SessionServer` | `server.go`, `handleWebSocket` | Composes the two.  One action per call that a goroutine makes on shared state, so that handlers, timers and deletes interleave between any two of them: `post`, `conn` and `evictor` say where each goroutine is.  A session is named by its POST, a timer by the connection that started it. |
| `SessionRegistry` | the promise | Abstract: a session is absent, live, then gone; its stream is acquired before and closed no later than it; the end is notified.  `SessionServer!Registry` is the refinement mapping. |
| `SessionServerProofs` | | Theorems about `SessionServer`. |
| `WSConn` | shared parts of the `run*WS` functions | `flushEvents`, the handler's read loop, the write goroutine, the write deadline, `writeCh`, and the browser. |
| `ExecSession` | `runExecWS` | One stream reader per connection, all reading the session's one stream.  |
| `AttachSession` | `runAttachWS`, `session.go` | One pump for the session, a subscription and a forwarder per connection. |
| `LogsSession` | `runLogsWS` | One log reader per connection, each from the first line, into one recording; the log ends, breaks off or has a line that is too long. |
| `RuntimeStream` | `docker.go`, `k8s.go`, the write side of `dispatchMessage` | What Exec, Attach and Logs return: the bare connection, StdCopy with its pipe, StreamWithContext with two pipes, or a response body.  A `Write` on an `io.Pipe` and the `Read` that takes it are one step, whose enabling waits for both. |
| `ContainerStream` | the promise of `runtime.Stream` | Abstract: output in order, without gaps, each chunk to one of those who call `Read`, and an end only after the last of it or when the connection is cut.  `RuntimeStream!Stream` is the refinement mapping from below; the proofs about the three data paths have one each from above. |
| `Cast` | `cast.go`, `loadCast`, the size in `handleCast` | Operators only: events to rows and back. |
| `Recording` | `recorder.go`, the timing of log lines | The clock, the events, the log, the file. |
| `SessionRecording` | `dispatchMessage`, the recording side of the readers, `handleCast` | What a session records, with a reader of the stream per connection, and downloads of it. |
| `RecordCommand` | `record.go` | The main goroutine and those of keyboard, output and window size; the screen. |
| `LogscastCommand` | `logscast.go` | The scanner, signals, the broken connection, the file. |
| `PlayCommand` | `play.go`, `player.go` | Loading, rows, delays, passes, signals. |
| `Casts` | the life of a file | Composes the last four: one of the three makers writes the file, and `play` plays it. |
| `SessionReports` | `webhook.go`, `autoExport`, the order of steps in `evict` | The goroutine of each request, the network, the receivers; two teardowns of one session. |
| `ExecSessionProofs`, `AttachSessionProofs`, `LogsSessionProofs`, `RuntimeStreamProofs`, `CastsProofs`, `SessionReportsProofs` | | Theorems about the module each is named after; those of `Casts` include the lemmas about `Cast`. |
| `WSConnProofs` | | Lemmas about queues, about what the writer of `WSConn` keeps in order, about the end of a connection and about what its browser has seen, for the data paths. |
| `MCSessionServer`, `MCAttachSession` | | The symmetry sets of TLC's instances. |

Data is abstracted to what the properties tell apart: a chunk of output is its number in the
container's output, 0 is the exit message, ids are model values.  Outside the recording modules
times are not modelled (a timer may fire at any moment once armed, a deadline may pass at any
moment once set); there the clock counts ticks, and a log line has a stamp in ticks, 0 for none.
`SessionServer` sees a connection only as running or not; the three mode modules open that
step up, and `RuntimeStream` opens up the stream they read.  The levels meet at `Disconnect`,
which stands for the return of `run*WS`, at `CloseStream`, and at `ContainerStream`, which
`RuntimeStream` is shown to implement for one caller of `Read` and to which the mode modules are
shown to keep: with every exec connection as a reader, with the pump as the only one, and once
per connection for the logs.

A few choices need a word.  `Dial` of `WSConn` takes the flush's copy of the recording at once:
between the upgrade and `Recorder.All()` the code only cancels the timer and sets the status.
The channel of a subscription is never closed in the code, and is not in the model.
`FlushFails` covers a flush that fails half way: gorilla/websocket keeps the error, so that the
later writes fail too, which the model writes as a deadline that has passed.  `Vanish` is a
write to a browser that has gone and which the kernel still accepts.  Chunks are recorded
whole: `normalizeLF` is formatting here.  In `Casts` a process that ends takes its memory along
(events, goroutines), so that only the file and what the user saw remain; the log of a session
has short lines there, as its long ones differ only in `play`.  In `SessionReports` a request
that is lost stays on the wire for ever, and a receiver's answer is an `Answered` that is free
to come late or never. The libraries that move bytes (StdCopy, client-go's stdin goroutine) are
external and modelled by what the repository relies on: they read, write, and stop at the first
error.

## Runs

| Run | Instance | Shows |
|---|---|---|
| `server_safety` | 2 POSTs, 1 DELETE, 2 connections, cap 1, symmetry | types, the cap, stream and timer ownership, no forgotten session, honest status, no silent end, no ghost in the gauge |
| `server_live` | 2 POSTs, 2 connections, cap 1 | the refinement of `SessionRegistry` with its fairness; deserted sessions go |
| `exec_sharing` | 1 connection and 3 chunks, or 2 and 2; writeCh of 1 | order, each chunk recorded once, no leaked goroutine once the stream is closed and the browser gone, printed output is recorded while a browser is there whose queue has room |
| `attach_safety` | 2 connections, channels of 1, 3 chunks, symmetry | the recording is the output, subscriptions match connections, live output in order, the pump waits for no browser |
| `logs_sharing` | 2 connections, writeCh of 1, 2 lines | the log without gaps from where a browser begins, no leak once the log has ended or broken off |
| `streams` | all five kinds, 2 browsers, 2 messages each, 2 chunks | the refinement of `ContainerStream` with its fairness; input put on the connection in order, at most one message kept back; Close leaves nobody waiting |
| `casts` | all three makers, 2 connections, 3 events, logs of 2 lines | echo after input, later casts extend earlier ones, gaps kept or clamped, what was seen is saved, whole logs only, replay equals screen, commands end |
| `reports` | 2 teardowns, 1 receiver, 1 export URL, 2 events | types, exports lack nothing |
| `exec_deadline` | 2 connections, 2 chunks, flushes that succeed (`FlushedSpec`) | **violated**: live output after the flush |
| `attach_disconnect` | 1 connection, 1 chunk | **violated**: a disconnect is noticed |
| `k8s_request` | 1 browser, 1 chunk | **violated**: output ends only for a reason |
| `server_attended` | 1 POST, 2 connections | **violated**: the TTL runs from the last disconnect |

Bounds.  Each request and connection of `SessionServer` is used once.  Two POSTs with a cap of
one make both the race for the last place and the rejected stream; two connections make a timer
that is restarted, one cancelled, one that fires under a reconnect, and two teardowns of one
session (with the DELETE, three); a teardown shares no state with those of other sessions
except the store, so more sessions add no new interleaving.  The theorems below remove the
bounds for the safety properties.  In the mode modules `ChCap` and `SubCap` (64 in the code)
are 1, so that full queues are the normal case; `MaxOutput` bounds the chunks the container
prints (`Output`).  `ExecSession` has a second bound, `MaxLoad`, on chunks and connections
together (`Output`, `Connect`): a reader that is held up by a full queue needs a chunk with the
writer, one in the queue and one in hand, so three chunks for one browser, while two that share
the stream need no more than two.  `LogsSession` lets one of its connections to the log break
off (`MaxBreaks`, in `LogBreaks`), as they share nothing but the recording.  In `AttachSession`
three chunks are the least that let one be dropped between two that are delivered.  In
`RuntimeStream`, `MaxInput` bounds the messages of a browser (`Dispatch`) and `MaxOutput` the
chunks (`Output`): two of each, as an order needs two and every pipe holds one.  In the
recording modules `MaxTime` bounds `Tick`, `MaxEvents` and `MaxInput` what a session still
takes up (`Receive`, `DispatchResize`, `RecordLine`), `MaxOutput`, `MaxKeys` and `MaxWinch` the
shell, the keyboard and the resizes of `record`; `MaxLines`, `MaxStamp` and `LineSizes` bound
the logs, of which every one is tried: stamps that are missing, equal, far apart or go
backwards (two lines and stamps of 1 to 3 give gaps below, at and above an `IdleLimit` of 1),
and lines too long for `play` or for the scanner. `SessionReports` bounds only the recording
(`MaxEvents`); the receivers are independent of each other, so that one stands for all.
Deadlock is not checked: everything may come to rest when all requests are done and the
browsers and processes are gone.

Fairness.  Goroutines that do not wait for anybody outside run on (the Go scheduler is fair);
a timer fires.  Nothing is assumed of clients: they need not come, leave or read, and the
container need not print.  `Connect` is not fair because the runtime may never answer, and
`Disconnect` because a browser may stay.  A write to a browser that is there is not fair, as
`WriteMessage` may block for ever on one that does not read: of the write goroutine only
`WriterFreed` is fair, writes to a browser that has gone or past the deadline, and the end when
the queue is closed and empty.  `AttachSession` has in addition `FastSpec`, where the whole
writer is fair, so that `attach_disconnect` fails for no reason of the browser's; the two other
violated runs of the session's side state safety and need no fairness.  In `RuntimeStream` the
ends of the pipes run that face the server, but the container and the network may stop taking
input (neither `SendDocker` nor the feeder's send is fair, only `FeederFreed`), and nobody need
close.  In `Casts` the output and main goroutines of `record` and the loop of `play` run; the
keyboard, the shell's input side and signals do not have to.  `SessionReports`
states no fairness: the network and the receivers may do nothing, and its properties are safety.

### What the violated runs show

1. `exec_deadline`: `writeWS` sets a write deadline of ten seconds for the flush, and nothing
   clears it when the flush has succeeded: the first output after that ends the writer, in every
   mode.
2. `attach_disconnect`: forwarder, `Unsubscribe` and writer wait for each other in a circle;
   the handler of a browser that has gone stays, and no TTL starts.
3. `k8s_request`: `newK8sStream` derives its context from that of the POST request, which ends
   when the response is written, and the shell's output with it.
4. `server_attended`: each handler that ends starts the countdown, whether or not another browser
   is connected; when two share a session and one leaves, the other loses it an hour later.

Other behaviours that the models show, or that they leave out, and that have no run:

* Two attach requests for one container racing between `GetByContainer` and `Create` both make
  a session, where SPEC.md:32 has one per container.
* A reconnect just after the timer fired is served by a session that is then dropped, as
  `handleWebSocket` ignores what `CancelTTL` returns (ws.go:60: "reconnect wins over expiry").
* A reconnect is sent the whole recording, where SPEC.md:209 speaks of the difference, and in
  logs mode the whole log once more after it, where SPEC.md:210 has live output from there on;
  every connection records the log again, with an epoch of its own, so that the times of a cast
  may go backwards.
* A log reader ends without a word to the browser when a line is over 1 MiB or the connection to
  the log breaks, as nobody looks at the scanner's error.
* The recording of an exec session stops when all its browsers have stopped reading: their
  readers wait for queues that nobody empties (`PrintedIsRecorded` makes the exception).
* The exec reader of a connection that has gone takes the next chunk, which is recorded but shown
  to nobody; a chunk recorded between flush and `Subscribe` is shown by neither.
* Input that is on the connection when the link is lost may never reach the container, however
  much of it there is: the code does not learn what has arrived, and neither does the model.
* A double teardown decrements the gauge twice and exports twice, the one that arrives last
  staying; `session.end` may come twice, and before `session.start`.
* With `logscast --follow`, which the flag says is stopped with Ctrl+C (logscast.go:27), Ctrl+C
  cancels the context under the scanner, whose error is returned before anything is written
  (logscast.go:99; `Interrupt`, then `ScanFails`).
* `record` says "Ctrl+C ... to stop" (record.go:74), but in raw mode Ctrl+C is a key that is
  passed on; a row of more than 64 KiB makes a file that `play` cannot load.

## Proofs

`SessionServerProofs` proves, for every set of requests, connections and containers and every
cap, with `Posts` finite and `None` distinct (the ASSUMEs of `SessionServer`; no theorem has
hypotheses besides such ASSUMEs, which bound nothing):

* `TypeCorrect`, `StreamsAreOwned`, `TimersAreReachable`, `NobodyIsForgotten`, `StatusIsHonest`
  and `EndsAreSent`: the invariants `TypeOK`, `NoStreamLeak`, `TimerReachable`,
  `NoForgottenSession`, `StatusSettles` and `NoSilentEnd`;
* `CapHolds`: the invariant `CapRespected`;
* `GaugeIsHonest`: the invariant `GaugeCountsNoGhost`;
* `RefinesRegistry`: `Spec => Registry!Init /\ [][Registry!Next]_Registry!vars`.

The first six follow from the inductive invariant `IInv`.  None of them is inductive alone:
whether an open stream is owned depends on how far its request has come
(`StreamFollowsPost`), whether a timer can be found on who put it in the map and on the rule
that each connection starts its timer as its last act (`ConnState`, `TimerOwner`), and a late
callback is harmless only because a session is already out of the store when anybody forgets
its timer (`TeardownState`).  `NextIInv` has a lemma per kind of goroutine with a step per
action.  `CapHolds` needs only that nothing but `Register` grows the store and that it tests
the cap in the same step.  A session that is torn down twice is subtracted from the gauge
twice, so the gauge may be too low; `GaugeIsHonest` rests on `GaugeBound`, that it is never
above the number of sessions that were announced less the number of those reported as ended.
Both are sizes of sets, and at rest the sessions in the difference are in the store.
`RefinesRegistry` maps `Connect`, `Register`, `Discard`, `CloseStream`, `Drop` and `Report` to
the registry's six actions (or to a stutter, when another teardown was first) and every other
action to a stutter.

`ExecSessionProofs`, for any number of connections, any amount of output and channels of any
capacity of at least one (`ChCapAssumption`, `MaxOutputAssumption`):

* `EachChunkIsRecordedOnce`: `RecordedOnce`.  The invariant `OnePlace` says where a chunk is
  that the stream has given away: at one place of the recording or with one reader.  A count
  of the recording alone is not inductive, as it does not say who may still append;
* `LiveIsAlwaysNewer`: `LiveIsNewer`, and `ExecTypeCorrect`: `TypeOK`, from the invariant
  `FlowInv`: what is received, what is queued and what the reader has in hand lie in this
  order, none of it is newer than the last chunk taken, and nothing is queued before the flush
  is over.  Another connection may only take chunks, so `OneConnection` reduces each step to
  the connection it is about.

`AttachSessionProofs`, for any number of connections, any amount of output and channels of any
capacity of at least one:

* `RecordingIsTheOutput`: `RecordedInOrder`.  It is inductive with `RecordKeepsUp`: the
  recording is as long as the number of the last chunk read, less the one that the pump is
  about to record;
* `AttachTypeCorrect`, `SubscribersServed` and `LiveStaysInOrder`: `TypeOK`,
  `SubscribersAreServed` and `LiveInOrder`, from the invariant `FlowInv`.  `Served` says who is
  on the session's list and `Audience` what the copy of it is that Broadcast works from, which
  may name connections that have left.  `InOrder` names the five stations of a chunk (received,
  in writeCh, with the forwarder, in the subscription, about to be offered) and says that the
  chunks of each are older than those of the next; `Bounds` puts all of them between the
  snapshot and the last chunk read.

`LogsSessionProofs`, in the same generality and for any number of breaks (`MaxBreaksAssumption`):
`LogIsWhole`, the invariant `LogWithoutGaps`.  As
long as a connection is good for anything, what it has received after the flush, what is
queued and the line in hand are the beginning of the log, in this order and without a gap
(`QueuedLines`).  This and `FlowInv` rest on `Connections`, the invariant of `WSConnProofs` for
the parts that the handlers share.

About all three data paths, in the same generality, three groups of theorems; none of them
states a property of a run.

* The levels meet: `ReadsOneStream` (exec), `PumpReadsStream` (attach) and `EachReadsTheLog`
  (logs, for each connection) say that the mode module is `ContainerStream` when one looks only
  at the container and at those who read (a log that breaks off or has a line that is too long
  is a cut stream): `Spec => Stream!Init /\ [][Stream!Next]_Stream!vars`.
  In exec several goroutines read one stream, so `ContainerStream` has a set of `Readers`;
* Nobody waits for ever.  `NoCircularWait` says for exec and logs that of the goroutines of a
  connection whose browser has gone, once the stream is closed or the log has ended or broken
  off, one can go on until all have ended.  For attach that is false, as `attach_disconnect`
  shows; `NoOtherCircle` says that the circle of that run is the only way to get stuck,
  `AChunkOrNothing` that only a chunk offered by the pump leads out of it, and
  `CircleIsForGood` that after the pump has stopped nothing does.  `EndIsCounted` gives a
  number (`Left`: chunks still to come, what is queued, and where each goroutine is) that each
  step of theirs lowers and nobody's raises once no more output is to come.  The two together
  are the argument for the liveness properties `NoGoroutineLeak`, but for fairness.  They rest
  on `PhaseInv`: who has started, and who ends before whom;
* `SeenCanBePlayedBack`: whatever a browser was shown, the exit message apart, is in the
  recording.  The invariant follows a chunk backwards: whatever is queued for a browser, or in
  the hands of a goroutine past the recorder, has been recorded (`SeenInv`), as `Recorder.Add`
  comes before the send in each of the three readers and a flush is a copy of the recording.

`RuntimeStreamProofs`, for every set of kinds, any number of browsers and any amount of input
and output (`KindsAssumption`, `BoundsAssumption`):

* `StreamTypeCorrect`: the invariant `TypeOK`;
* `RefinesStream`: `Spec => Stream!Init /\ [][Stream!Next]_Stream!vars`.  `OutputInv` counts
  what is in the pipe (`OutputInPipe`), says which goroutines each kind has (`KindOfStream`)
  and that a pipe ends only after the last chunk or when the connection is cut
  (`PipeEndsLast`); a Read maps to a delivery and the goroutines to stutters;
* `AtMostOneInputUnsent`: `OneInputUnsent`, from `InputInv`: what `Write` took is what was put on
  the connection, and at most one message in the feeder's hands or kept back when it ended
  (`OneInHand`).  What the network makes of it is not modelled;
* `InputKeepsItsOrder`: `InputInOrder`, from `OrderInv`: what was taken of a browser is in
  order, and what its handler has in hand is newer than all of it;
* `NoCircularWait`: after Close one of the goroutines of a connection, or a handler in `Write`,
  can go on until all have ended, except when the connection is a docker attach without a TTY
  that nobody reads, whose StdCopy stays in its write to the pipe; and `EndIsCounted`, as for
  the data paths.  `EndInv` says what Close and the end of the request do to each kind, and
  which end brings about which.

`SessionReportsProofs`, for any number of teardowns, receivers and events (`BoundAssumption`):
`ReportsTypeCorrect`, the invariant `TypeOK`, and `ExportsAreComplete`, the invariant
`ExportLacksNothing`.  They need that a teardown past `Drop` finds the session gone
(`Settled`), so that what an export must have at least does not change any more.

`CastsProofs`, for any number of browsers and any bounds on input, output, logs and stamps
(`RecordingAssumption`, `SessionAssumption`, `RecordAssumption`, `LimitAssumption`,
`MakersAssumption`), in three layers:

* What the operators of `Cast` return for every recording.  `Outputs` and `Marshal` run through
  a sequence, and the library's induction theorems cannot be used.  The lemmas get by without
  them: a set of numbers that has 0 and the successor of each of its members has all of them,
  as otherwise the least that is missing (`Least`, from the well-foundedness of `<`) would have
  a predecessor that is not (`Inductive`).  `LoopRuns` concludes that a loop computes something,
  and `LoopsAgree` that it computes one thing.  From these follow what one more event adds to
  the output (`OutputsAppend`), that rows are the output but for their times (`MarshalRows`),
  that each gap is clamped on its own (`MarshalGaps`), that a cast begins with the cast of what
  had been recorded before, times included (`MarshalGrows`), and that the first resize decides
  the size (`SizeStays`);
* The inductive invariant `IInv`, with a part for each maker and one for the player.
  `InputFirst`: what the shell may echo, and what any reader has in hand of it, has been
  recorded; `LogLines`: each recorded line was timed against the epoch its connection still
  has; `RecordBody`: what is recorded is at least what is on the screen, in hand included, and
  the copy and the file have what was there when the recording was stopped; `LogscastBody`: the
  reading has ended only at the log's end; `PlayInv`: the player has the rows of the file.  A
  lemma per group of actions shows that its maker's part is kept, and `OneMaker` that the
  others' parts are not concerned;
* `CastsTypeCorrect`, `EchoIsAfterInput`, `DownloadsGrow`, `StampsKeepTheirDistance`,
  `ScreenIsSaved`, `LogIsSavedWhole`, `GapsAreKept` and `ReplayShowsTheScreen`: the invariants
  `TypeOK`, `EchoAfterInput`, `CastsGrow`, `LogGapsKept`, `SeenIsSaved`, `WholeLogOrNothing`,
  `CastKeepsGaps` and `ReplayIsTheScreen`.

Model-checked only, as they are outside the prover's reach: the liveness properties, the
fairness parts of the two refinements, and `PumpWaitsForNobody`, which speaks of ENABLED.
Every other property of a passing run is a theorem.  For the liveness of the goroutines the two
halves that need no fairness are theorems, `NoCircularWait` and `EndIsCounted`; that they make
the property is the usual argument over a number that falls, which the prover cannot be given.
What `NoCircularWait` calls "can go on" is the guard of the actions, spelled out (`HandlerCan`,
`WriterCan`, `ReaderCan` ...), because of ENABLED again.

## Not modelled, and the plan

Done: session lifecycle, the three data paths, the runtimes' streams, recordings and casts, and
what a session reports, with their proofs.  Left for later: `BrowserSocket` and `Panes`, the
retry logic of `useWebSocket`, panes and replay, composed with `WSConn` for a whole reconnect.

`Resize` of the runtimes is not an action: it changes the terminal in the container and nothing
the server looks at.  The bytes inside a chunk are not modelled, so nothing is said of a UTF-8
character or a CRLF that two chunks split.

Left out for good: telemetry set-up, static files, configuration and flags, the Docker and
Kubernetes client libraries (external), markup and styling of the browser views.  None of them
keeps state that a property could be about.
