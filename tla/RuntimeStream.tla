---------------------------- MODULE RuntimeStream ----------------------------
(***************************************************************************)
(* The connections to a container: k8sStream (src/internal/runtime/k8s.go),*)
(* dockerStream and the reader of DockerRuntime.Logs (docker.go), used as  *)
(* the server uses them (src/internal/api/ws.go): one goroutine reads the  *)
(* output, the handlers of the browsers record and forward what is typed   *)
(* (dispatchMessage), and evict closes.  `kind' says what a call of the    *)
(* runtime returned:                                                       *)
(*   k8s    exec or attach in a pod: two io.Pipes and a goroutine in       *)
(*          StreamWithContext, all bound to the context of the request     *)
(*   tty    docker exec, or attach to a container with a terminal: the     *)
(*          bare connection                                                *)
(*   mux    docker attach to a container without a terminal: a goroutine   *)
(*          in StdCopy takes the frames apart and writes to an io.Pipe     *)
(*   logs   docker logs of a container without a terminal: the same, over  *)
(*          a response body bound to the context of the request            *)
(*   body   logs of a pod, or of a container with a terminal: that body    *)
(* Write on an io.Pipe waits for a Read, and the other way round.  The     *)
(* libraries that move the bytes are modelled by what these files rely on. *)
(***************************************************************************)
EXTENDS Integers, Sequences, FiniteSets

CONSTANTS
  Kinds,        \* the kinds of connection to look at
  Writers,      \* WebSocket handlers that forward what is typed
  MaxInput,     \* bound: messages of one browser
  MaxOutput     \* bound: chunks the container prints

ASSUME KindsAssumption == Kinds \subseteq {"k8s", "tty", "mux", "logs", "body"}
ASSUME BoundsAssumption == MaxInput \in Nat /\ MaxOutput \in Nat

Messages == [by : Writers, n : 1 .. MaxInput]

VARIABLES
  kind,         \* what has been opened; "none" yet, or never, if the call fails
  request,      \* the request whose context was given to the runtime: "open" or "over"
  process,      \* the shell or container: "running" or "exited"
  link,         \* the connection to it, as this end sees it: "up" or "down"
  closed,       \* Close has been called
  printed,      \* chunks printed
  copier,       \* goroutine that fills the output pipe: "none", "read", "write" or "stopped"
  copied,       \* chunks it has taken off the connection
  pipeEnd,      \* the writing end of the output pipe is closed
  reader,       \* who calls Read: "idle", "reading" or "stopped"
  got,          \* chunks Read has returned
  feeder,       \* goroutine that empties the input pipe: "none", "read", "send" or "stopped"
  writer,       \* messages a handler has recorded and is writing, <<>> or <<m>>
  typed,        \* messages a browser has sent
  taken,        \* messages for which Write has returned nil
  sent          \* what has been put on the connection; how much of it arrives before the
                \* connection is lost is the network's affair

outVars == <<printed, copier, copied, pipeEnd, reader, got>>
inVars == <<feeder, writer, typed, taken, sent>>
vars == <<kind, request, process, link, closed, outVars, inVars>>

IsLog == kind \in {"logs", "body"}
Piped == kind \notin {"tty", "body"}

Init ==
  /\ kind = "none"
  /\ request = "open"
  /\ process = "running"
  /\ link = "up"
  /\ closed = FALSE
  /\ printed = 0
  /\ copier = "none"
  /\ copied = 0
  /\ pipeEnd = FALSE
  /\ reader = "idle"
  /\ got = 0
  /\ feeder = "none"
  /\ writer = [w \in Writers |-> <<>>]
  /\ typed = [w \in Writers |-> 0]
  /\ taken = <<>>
  /\ sent = <<>>

-----------------------------------------------------------------------------
(* Opening *)

\* The goroutines start with the stream.  A request that is over by then is as good as one that
\* ends at once, or makes the call fail.
Opens(k) ==
  /\ kind = "none" /\ k \in Kinds
  /\ kind' = k
  /\ copier' = IF k \in {"tty", "body"} THEN "none" ELSE "read"
  /\ feeder' = IF k = "k8s" THEN "read" ELSE "none"
  /\ UNCHANGED <<request, process, link, closed, printed, copied, pipeEnd, reader, got,
                 writer, typed, taken, sent>>

NewK8sStream == Opens("k8s")
K8sExec == NewK8sStream
K8sAttach == NewK8sStream
K8sLogs == Opens("body")

\* Exec asks for a terminal; Attach and Logs follow what the container has.
NewDockerStream(terminal) == Opens(IF terminal THEN "tty" ELSE "mux")
Exec == NewDockerStream(TRUE)
Attach == \E terminal \in BOOLEAN : NewDockerStream(terminal)
Logs == \E terminal \in BOOLEAN : Opens(IF terminal THEN "body" ELSE "logs")

Open == K8sExec \/ K8sAttach \/ K8sLogs \/ Exec \/ Attach \/ Logs

-----------------------------------------------------------------------------
(* The container, the network and the request *)

Output ==
  /\ kind # "none" /\ process = "running" /\ printed < MaxOutput
  /\ printed' = printed + 1
  /\ UNCHANGED <<kind, request, process, link, closed, copier, copied, pipeEnd, reader, got, inVars>>

Exit ==
  /\ kind # "none" /\ process = "running"
  /\ process' = "exited"
  /\ UNCHANGED <<kind, request, link, closed, outVars, inVars>>

LinkLost ==
  /\ kind # "none" /\ link = "up"
  /\ link' = "down"
  /\ UNCHANGED <<kind, request, process, closed, outVars, inVars>>

\* The handler returns and its context is cancelled: the POST when the session has been made,
\* runLogsWS after its deferred Close.  Only a response body ends with it here.
RequestEnds ==
  /\ kind # "none" /\ request = "open"
  /\ IsLog => closed
  /\ request' = "over"
  /\ link' = IF IsLog THEN "down" ELSE link
  /\ UNCHANGED <<kind, process, closed, outVars, inVars>>

-----------------------------------------------------------------------------
(* Output *)

AllCopied == process = "exited" /\ copied = printed /\ copier # "write"

\* Mutant: the pipe is closed when the process exits, not when its output has been copied.
StreamReturnsEarly ==
  /\ kind = "k8s" /\ ~pipeEnd
  /\ request = "over" \/ closed \/ link = "down" \/ process = "exited"
  /\ pipeEnd' = TRUE
  /\ link' = IF process = "exited" THEN link ELSE "down"
  /\ UNCHANGED <<kind, request, process, closed, printed, copier, copied, reader, got, inVars>>

\* k8s: StreamWithContext returns, at the end of the output or at once when the context is
\* cancelled, and stdoutW is closed.
StreamReturns ==
  /\ kind = "k8s" /\ ~pipeEnd
  /\ request = "over" \/ closed \/ link = "down" \/ AllCopied
  /\ pipeEnd' = TRUE
  /\ link' = IF AllCopied THEN link ELSE "down"
  /\ UNCHANGED <<kind, request, process, closed, printed, copier, copied, reader, got, inVars>>

CopierStep(from, to) == copier = from /\ copier' = to

\* A chunk comes off the connection and is offered to the pipe.
Copy ==
  /\ link = "up" /\ copied < printed
  /\ CopierStep("read", "write")
  /\ copied' = copied + 1
  /\ UNCHANGED <<kind, request, process, link, closed, printed, pipeEnd, reader, got, inVars>>

\* The connection has nothing more to give.  Docker: StdCopy returns and pw is closed.
CopyEnds ==
  /\ link = "down" \/ AllCopied
  /\ CopierStep("read", "stopped")
  /\ pipeEnd' = (pipeEnd \/ kind # "k8s")
  /\ UNCHANGED <<kind, request, process, link, closed, printed, copied, reader, got, inVars>>

\* Write on a pipe one of whose ends is closed fails: k8s closes stdoutW, only the reader of
\* the logs closes its end.
CopyRefused ==
  /\ pipeEnd \/ (kind = "logs" /\ closed)
  /\ CopierStep("write", "stopped")
  /\ pipeEnd' = TRUE
  /\ UNCHANGED <<kind, request, process, link, closed, printed, copied, reader, got, inVars>>

StartReading ==
  /\ kind # "none" /\ reader = "idle"
  /\ reader' = "reading"
  /\ UNCHANGED <<kind, request, process, link, closed, printed, copier, copied, pipeEnd, got, inVars>>

\* Mutant: the chunk that was read stays in the pipe.
ReadPipeAgain ==
  /\ reader = "reading" /\ ~pipeEnd
  /\ copier = "write"
  /\ got' = got + 1
  /\ UNCHANGED <<kind, request, process, link, closed, printed, copier, copied, pipeEnd, reader, inVars>>

\* Read takes the chunk that is offered ...
ReadPipe ==
  /\ reader = "reading" /\ ~pipeEnd
  /\ kind = "logs" => ~closed
  /\ CopierStep("write", "read")
  /\ got' = got + 1
  /\ UNCHANGED <<kind, request, process, link, closed, printed, copied, pipeEnd, reader, inVars>>

\* ... or what is buffered on the bare connection, even if that is down by now.
ReadConn ==
  /\ reader = "reading" /\ ~Piped /\ got < printed
  /\ kind = "body" => ~closed
  /\ got' = got + 1
  /\ UNCHANGED <<kind, request, process, link, closed, printed, copier, copied, pipeEnd, reader, inVars>>

\* Read fails.
ReadFails ==
  /\ reader = "reading"
  /\ IF Piped THEN pipeEnd \/ (kind = "logs" /\ closed)
              ELSE link = "down" \/ (process = "exited" /\ got = printed)
  /\ reader' = "stopped"
  /\ UNCHANGED <<kind, request, process, link, closed, printed, copier, copied, pipeEnd, got, inVars>>

-----------------------------------------------------------------------------
(* Input: dispatchMessage and Stream.Write *)

\* Mutant: the handler leaves the write to a goroutine and reads the next message.
DispatchAndGo(w) ==
  /\ kind # "none" /\ ~IsLog
  /\ typed[w] < MaxInput
  /\ \E i \in 0 .. Len(writer[w]) :
       writer' = [writer EXCEPT ![w] = SubSeq(@, 1, i) \o <<[by |-> w, n |-> typed[w] + 1]>>
                                       \o SubSeq(@, i + 1, Len(@))]
  /\ typed' = [typed EXCEPT ![w] = @ + 1]
  /\ UNCHANGED <<kind, request, process, link, closed, outVars, feeder, taken, sent>>

\* A message comes.  It is recorded and written; a logs session has no stream to write to.
Dispatch(w) ==
  /\ kind # "none" /\ ~IsLog
  /\ writer[w] = <<>> /\ typed[w] < MaxInput
  /\ writer' = [writer EXCEPT ![w] = <<[by |-> w, n |-> typed[w] + 1]>>]
  /\ typed' = [typed EXCEPT ![w] = @ + 1]
  /\ UNCHANGED <<kind, request, process, link, closed, outVars, feeder, taken, sent>>

\* The handler's call of Write returns.
Returns(w) == writer[w] # <<>> /\ writer' = [writer EXCEPT ![w] = Tail(@)]

\* Docker: the bytes are put on the connection, and Write returns.
SendDocker(w) ==
  /\ kind \in {"tty", "mux"}
  /\ Returns(w)
  /\ link = "up"
  /\ sent' = Append(sent, Head(writer[w]))
  /\ taken' = Append(taken, Head(writer[w]))
  /\ UNCHANGED <<kind, request, process, link, closed, outVars, feeder, typed>>

\* k8s: the goroutine that empties the pipe takes the bytes.
Feed(w) ==
  /\ feeder = "read" /\ ~closed
  /\ Returns(w)
  /\ feeder' = "send"
  /\ taken' = Append(taken, Head(writer[w]))
  /\ UNCHANGED <<kind, request, process, link, closed, outVars, typed, sent>>

\* Mutant: k8sStream.Close cancels the context and leaves the input pipe open.
WriteFailsDockerOnly(w) ==
  /\ link = "down" /\ kind # "k8s"
  /\ Returns(w)
  /\ UNCHANGED <<kind, request, process, link, closed, outVars, feeder, typed, taken, sent>>

\* The stream is closed or, with docker, the connection is lost.  The error is ignored.
WriteFails(w) ==
  /\ closed \/ (link = "down" /\ kind # "k8s")
  /\ Returns(w)
  /\ UNCHANGED <<kind, request, process, link, closed, outVars, feeder, typed, taken, sent>>

Write(w) == Feed(w) \/ WriteFails(w)

Connected == link = "up" /\ ~pipeEnd

\* Mutant: the feeder goes on after a failed send.
FeederSendsOn ==
  /\ feeder = "send"
  /\ feeder' = "read"
  /\ sent' = IF Connected THEN Append(sent, taken[Len(taken)]) ELSE sent
  /\ UNCHANGED <<kind, request, process, link, closed, outVars, writer, typed, taken>>

\* What was taken is put on the connection, or that is gone and the goroutine ends with it.
FeederSends ==
  /\ feeder = "send"
  /\ feeder' = IF Connected THEN "read" ELSE "stopped"
  /\ sent' = IF Connected THEN Append(sent, taken[Len(taken)]) ELSE sent
  /\ UNCHANGED <<kind, request, process, link, closed, outVars, writer, typed, taken>>

FeederEnds ==
  /\ feeder = "read" /\ closed
  /\ feeder' = "stopped"
  /\ UNCHANGED <<kind, request, process, link, closed, outVars, writer, typed, taken, sent>>

-----------------------------------------------------------------------------
(* Close *)

\* k8s: cancel and close stdinW.  Docker: close the connection.  Logs: close the pipe's reader,
\* or the body.
Close ==
  /\ kind # "none" /\ ~closed
  /\ closed' = TRUE
  /\ link' = IF kind \in {"tty", "mux", "body"} THEN "down" ELSE link
  /\ UNCHANGED <<kind, request, process, outVars, inVars>>

-----------------------------------------------------------------------------
Copier == Copy \/ CopyEnds \/ CopyRefused
Reader == ReadPipe \/ ReadConn \/ ReadFails
Feeder == FeederSends \/ FeederEnds

\* What the feeder does in the end whether or not the container takes input.
FeederFreed == (~Connected /\ FeederSends) \/ FeederEnds

Next ==
  \/ Open \/ Output \/ Exit \/ LinkLost \/ RequestEnds \/ Close
  \/ StreamReturns \/ Copier \/ StartReading \/ Reader \/ Feeder
  \/ \E w \in Writers : Dispatch(w) \/ SendDocker(w) \/ Write(w)

(***************************************************************************)
(* Fairness: the goroutines run.  The container may stop taking input (no  *)
(* send on a connection that is up is fair), nobody need type, read or     *)
(* close.  The request of a log reader ends soon after its Close.          *)
(***************************************************************************)
Fairness ==
  /\ WF_vars(StreamReturns) /\ WF_vars(Copier) /\ WF_vars(Reader) /\ WF_vars(FeederFreed)
  /\ WF_vars(IsLog /\ RequestEnds)
  /\ \A w \in Writers : WF_vars(Write(w))

Spec == Init /\ [][Next]_vars /\ Fairness
-----------------------------------------------------------------------------
(* Properties *)

TypeOK ==
  /\ kind \in Kinds \cup {"none"}
  /\ request \in {"open", "over"}
  /\ process \in {"running", "exited"}
  /\ link \in {"up", "down"}
  /\ closed \in BOOLEAN
  /\ printed \in 0 .. MaxOutput
  /\ copier \in {"none", "read", "write", "stopped"}
  /\ copied \in 0 .. printed
  /\ pipeEnd \in BOOLEAN
  /\ reader \in {"idle", "reading", "stopped"}
  /\ got \in 0 .. printed
  /\ feeder \in {"none", "read", "send", "stopped"}
  /\ writer \in [Writers -> Seq(Messages)]
  /\ typed \in [Writers -> 0 .. MaxInput]
  /\ taken \in Seq(Messages)
  /\ sent \in Seq(Messages)

\* What one browser types is put on the connection in the order it was typed and no message of it
\* twice, through whatever goroutines it goes and whoever else is typing (ws.go:297-304).
InputInOrder ==
  \A i, j \in 1 .. Len(sent) : i < j /\ sent[i].by = sent[j].by => sent[i].n < sent[j].n

\* The pipe and the feeder keep back one message at most: of those whose Write returned nil only
\* the last may not have been put on the connection, in the feeder's hands or dropped by it
\* (k8s.go:209).  What is in flight when the connection is lost is lost besides.
OneInputUnsent ==
  \E m \in {Len(taken) - 1, Len(taken)} : sent = SubSeq(taken, 1, m)

Stream == INSTANCE ContainerStream WITH
  Readers <- {"reader"}, delivered <- got, source <- process,
  cut <- (link = "down" \/ closed), calling <- IF reader = "reading" THEN {"reader"} ELSE {}

\* Every kind of connection keeps the promise of ContainerStream, through its pipes and
\* goroutines and however the connection ends.
ImplementsStream == Stream!Spec

\* Close ends every goroutine of the stream and releases every handler that waits in Write.
\* StdCopy needs somebody who reads: a docker attach that nobody ever connected to keeps it
\* waiting in the pipe (docker.go:193).
CloseEndsAll ==
  (closed /\ (kind = "mux" => reader # "idle")) ~>
    /\ reader # "reading"
    /\ copier \in {"none", "stopped"} /\ feeder \in {"none", "stopped"}
    /\ \A w \in Writers : writer[w] = <<>>

-----------------------------------------------------------------------------
(* What the repository says and the code does not do *)

\* SPEC.md:11, SPEC.md:366: the session of a shell in a pod is kept while the shell runs: unless
\* it is closed or its connection fails, its output does not end.
OutputEndsForAReason ==
  [][~pipeEnd /\ pipeEnd' => process = "exited" \/ closed \/ link = "down"]_vars
=============================================================================
