--------------------------- MODULE SessionServer ---------------------------
(***************************************************************************)
(* The life of a session: api.Server (src/internal/api/server.go, ws.go)   *)
(* over session.Store and session.TTLManager.  Every HTTP request and      *)
(* every WebSocket connection has its own goroutine and every expired      *)
(* timer runs EvictSession on one more; they meet only in the store, the   *)
(* TTL map, the session's stream and its status.  One action is one call   *)
(* on one of these, so the actions interleave as the goroutines do.        *)
(*                                                                         *)
(* A session is named by the POST that makes it (generateID never repeats  *)
(* an id), a timer by the WebSocket connection that starts it, and a       *)
(* teardown by the DELETE or by the timer that runs it.                    *)
(***************************************************************************)
EXTENDS Integers, FiniteSets

CONSTANTS
  Posts,        \* POST /sessions requests; also the ids of the sessions they make
  Deletes,      \* DELETE /sessions/{id} requests
  Conns,        \* WebSocket connections; also the timers they start
  Containers,   \* container ids
  MaxSessions,  \* --max-sessions
  None          \* no timer, no session, no container

ASSUME PostsAssumption == IsFiniteSet(Posts) /\ None \notin Posts
ASSUME ConnsAssumption == None \notin Conns /\ Deletes \cap Conns = {}
ASSUME CapAssumption == MaxSessions \in Nat

Modes == {"exec", "attach", "logs"}

\* Goroutines that tear a session down: DELETE handlers and timer callbacks.
Evictors == Deletes \cup Conns

VARIABLES
  store, timers, timer,   \* see SessionStore and TTLManager
  \* Session, one entry per id
  mode,         \* Session.Mode, "none" until the request is decoded
  container,    \* Session.ContainerID
  stream,       \* Session.Stream: "none", "open" or "closed"
  status,       \* Session.status: "active" or "disconnected"
  \* goroutines
  post,         \* where each createSession is
  conn,         \* where each handleWebSocket is
  target,       \* the session a connection or a DELETE names
  evictor,      \* where each teardown is
  \* what the rest of the world is told
  gauge,        \* cternal.sessions.active
  started,      \* sessions whose session.start was sent
  ended         \* how often session.end was sent, per session

sessionVars == <<mode, container, stream, status>>
reportVars == <<gauge, started, ended>>
vars == <<store, timers, timer, mode, container, stream, status, post, conn,
          target, evictor, gauge, started, ended>>

Store == INSTANCE SessionStore
TTL == INSTANCE TTLManager WITH Sessions <- Posts, Timers <- Conns, NoTimer <- None

Init ==
  /\ Store!NewStore
  /\ TTL!NewTTLManager
  /\ mode = [p \in Posts |-> "none"]
  /\ container = [p \in Posts |-> None]
  /\ stream = [p \in Posts |-> "none"]
  /\ status = [p \in Posts |-> "active"]
  /\ post = [p \in Posts |-> "idle"]
  /\ conn = [c \in Conns |-> "idle"]
  /\ target = [e \in Evictors |-> None]
  /\ evictor = [e \in Evictors |-> "idle"]
  /\ gauge = 0
  /\ started = {}
  /\ ended = [p \in Posts |-> 0]

-----------------------------------------------------------------------------
(* POST /api/v1/sessions: createSession *)

PostStep(p, from, to) == post[p] = from /\ post' = [post EXCEPT ![p] = to]

\* The body does not decode, has no container id or an unknown mode: 400.
BadRequest(p) ==
  /\ PostStep(p, "idle", "refused")
  /\ UNCHANGED <<store, timers, timer, sessionVars, conn, target, evictor, reportVars>>

\* Mutant: the switch on the mode has lost its default case.
ReceivePostAnyMode(p) ==
  /\ PostStep(p, "idle", "register")
  /\ mode' = [mode EXCEPT ![p] = "shell"]
  /\ \E k \in Containers : container' = [container EXCEPT ![p] = k]
  /\ UNCHANGED <<store, timers, timer, stream, status, conn, target, evictor, reportVars>>

\* A valid body.  Attach looks for a session to share, exec asks the runtime for
\* a stream, logs needs none and goes straight to NewSession.
ReceivePost(p) ==
  /\ \E m \in Modes, k \in Containers :
       /\ mode' = [mode EXCEPT ![p] = m]
       /\ container' = [container EXCEPT ![p] = k]
       /\ PostStep(p, "idle", CASE m = "attach" -> "lookup"
                                [] m = "exec" -> "connect"
                                [] m = "logs" -> "register")
       /\ status' = [status EXCEPT ![p] = IF m = "logs" THEN "disconnected" ELSE "active"]
  /\ UNCHANGED <<store, timers, timer, stream, conn, target, evictor, reportVars>>

\* Store.GetByContainer(k, attach) has something to return.
Sharable(k) == \E s \in store : mode[s] = "attach" /\ container[s] = k

\* Attach: answer 200 with a session of the same container, or go on to make one.
GetByContainer(p) ==
  /\ PostStep(p, "lookup", IF Sharable(container[p]) THEN "reused" ELSE "connect")
  /\ UNCHANGED <<store, timers, timer, sessionVars, conn, target, evictor, reportVars>>

\* Runtime.Exec or Runtime.Attach returns a stream.
Connect(p) ==
  /\ PostStep(p, "connect", "register")
  /\ stream' = [stream EXCEPT ![p] = "open"]
  /\ UNCHANGED <<store, timers, timer, mode, container, status, conn, target, evictor, reportVars>>

\* Runtime.Exec or Runtime.Attach fails: 500.
ConnectFails(p) ==
  /\ PostStep(p, "connect", "refused")
  /\ UNCHANGED <<store, timers, timer, sessionVars, conn, target, evictor, reportVars>>

Register(p) ==
  /\ PostStep(p, "register", "announce")
  /\ Store!Create(p)
  /\ UNCHANGED <<timers, timer, sessionVars, conn, target, evictor, reportVars>>

\* Mutant: the 503 path does not close the stream.
RegisterFailsKeepsStream(p) ==
  /\ Store!AtCapacity
  /\ PostStep(p, "register", "refused")
  /\ UNCHANGED <<store, timers, timer, sessionVars, conn, target, evictor, reportVars>>

\* Store.Create returns ErrMaxSessions.
RegisterFails(p) ==
  /\ Store!AtCapacity
  /\ PostStep(p, "register", IF stream[p] = "none" THEN "refused" ELSE "discard")
  /\ UNCHANGED <<store, timers, timer, sessionVars, conn, target, evictor, reportVars>>

\* The stream of a session that was not registered is closed: 503.
Discard(p) ==
  /\ PostStep(p, "discard", "refused")
  /\ stream' = [stream EXCEPT ![p] = "closed"]
  /\ UNCHANGED <<store, timers, timer, mode, container, status, conn, target, evictor, reportVars>>

\* The gauge goes up, session.start is sent and 201 is answered.
Announce(p) ==
  /\ PostStep(p, "announce", "created")
  /\ gauge' = gauge + 1
  /\ started' = started \cup {p}
  /\ UNCHANGED <<store, timers, timer, sessionVars, conn, target, evictor, ended>>

CreateSession(p) ==
  \/ BadRequest(p) \/ ReceivePost(p) \/ GetByContainer(p)
  \/ Connect(p) \/ ConnectFails(p)
  \/ Register(p) \/ RegisterFails(p) \/ Discard(p) \/ Announce(p)

-----------------------------------------------------------------------------
(* GET /ws/{id}: handleWebSocket *)

ConnStep(c, from, to) == conn[c] = from /\ conn' = [conn EXCEPT ![c] = to]

\* store.Get at the top of the handler; a miss answers 404.
Dial(c, s) ==
  /\ ConnStep(c, "idle", IF Store!Has(s) THEN "upgrade" ELSE "refused")
  /\ target' = [target EXCEPT ![c] = s]
  /\ UNCHANGED <<store, timers, timer, sessionVars, post, evictor, reportVars>>

Upgrade(c) ==
  /\ \/ ConnStep(c, "upgrade", "cancel")
     \/ ConnStep(c, "upgrade", "refused")
  /\ UNCHANGED <<store, timers, timer, sessionVars, post, target, evictor, reportVars>>

\* ttlMgr.CancelTTL; the handler ignores what it returns.
CancelCountdown(c) ==
  /\ ConnStep(c, "cancel", "activate")
  /\ TTL!CancelTTL(target[c])
  /\ UNCHANGED <<store, sessionVars, post, target, evictor, reportVars>>

Activate(c) ==
  /\ ConnStep(c, "activate", "running")
  /\ status' = [status EXCEPT ![target[c]] = "active"]
  /\ UNCHANGED <<store, timers, timer, mode, container, stream, post, target, evictor, reportVars>>

\* Mutant: a handler ends without touching the status.
DisconnectKeepsStatus(c) ==
  /\ ConnStep(c, "running", "leaving")
  /\ UNCHANGED <<store, timers, timer, sessionVars, post, target, evictor, reportVars>>

\* Mutant: a handler ends without StartTTL.
DisconnectForGood(c) ==
  /\ ConnStep(c, "running", "left")
  /\ status' = [status EXCEPT ![target[c]] = "disconnected"]
  /\ UNCHANGED <<store, timers, timer, mode, container, stream, post, target, evictor, reportVars>>

\* flushEvents and run{Exec,Attach,Logs}WS have returned.
Disconnect(c) ==
  /\ ConnStep(c, "running", "leaving")
  /\ status' = [status EXCEPT ![target[c]] = "disconnected"]
  /\ UNCHANGED <<store, timers, timer, mode, container, stream, post, target, evictor, reportVars>>

StartCountdown(c) ==
  /\ ConnStep(c, "leaving", "left")
  /\ TTL!StartTTL(target[c], c)
  /\ UNCHANGED <<store, sessionVars, post, target, evictor, reportVars>>

HandleWebSocket(c) ==
  \/ \E s \in Posts : Dial(c, s)
  \/ Upgrade(c) \/ CancelCountdown(c) \/ Activate(c) \/ Disconnect(c) \/ StartCountdown(c)

-----------------------------------------------------------------------------
(* Teardown: EvictSession, deleteSession and the evict they share *)

EvictStep(e, from, to) == evictor[e] = from /\ evictor' = [evictor EXCEPT ![e] = to]

\* The countdown started by connection c ends and its callback begins.
Expire(c) ==
  /\ TTL!Fire(c)
  /\ EvictStep(c, "idle", "get")
  /\ UNCHANGED <<store, sessionVars, post, conn, target, reportVars>>

\* Mutant: the callback gives up when somebody is connected again.
EvictSessionIfDisconnected(c) ==
  /\ EvictStep(c, "get", IF Store!Has(target[c]) /\ status[target[c]] # "active"
                         THEN "remove" ELSE "forget")
  /\ UNCHANGED <<store, timers, timer, sessionVars, post, conn, target, reportVars>>

\* EvictSession returns at once when the session has already gone.
EvictSession(c) ==
  /\ EvictStep(c, "get", IF Store!Has(target[c]) THEN "remove" ELSE "forget")
  /\ UNCHANGED <<store, timers, timer, sessionVars, post, conn, target, reportVars>>

\* DELETE: store.Get in handleSession; a miss answers 404.
DeleteSession(d, s) ==
  /\ EvictStep(d, "idle", IF Store!Has(s) THEN "remove" ELSE "done")
  /\ target' = [target EXCEPT ![d] = s]
  /\ UNCHANGED <<store, timers, timer, sessionVars, post, conn, reportVars>>

\* Mutant: the session is dropped with its stream open.
RemoveTimerSkipClose(e) ==
  /\ EvictStep(e, "remove", "drop")
  /\ TTL!Remove(target[e])
  /\ UNCHANGED <<store, sessionVars, post, conn, target, reportVars>>

RemoveTimer(e) ==
  /\ EvictStep(e, "remove", "close")
  /\ TTL!Remove(target[e])
  /\ UNCHANGED <<store, sessionVars, post, conn, target, reportVars>>

\* Logs sessions have no stream.
CloseStream(e) ==
  /\ EvictStep(e, "close", "drop")
  /\ stream' = [stream EXCEPT ![target[e]] = IF @ = "none" THEN "none" ELSE "closed"]
  /\ UNCHANGED <<store, timers, timer, mode, container, status, post, conn, target, reportVars>>

\* Mutant: expiry drops a session without announcing its end.
DropQuietly(e) ==
  /\ EvictStep(e, "drop", IF e \in Conns THEN "forget" ELSE "report")
  /\ Store!Delete(target[e])
  /\ UNCHANGED <<timers, timer, sessionVars, post, conn, target, reportVars>>

Drop(e) ==
  /\ EvictStep(e, "drop", "report")
  /\ Store!Delete(target[e])
  /\ UNCHANGED <<timers, timer, sessionVars, post, conn, target, reportVars>>

\* Mutant: the gauge is not decremented.
ReportKeepsGauge(e) ==
  /\ EvictStep(e, "report", IF e \in Conns THEN "forget" ELSE "done")
  /\ ended' = [ended EXCEPT ![target[e]] = @ + 1]
  /\ UNCHANGED <<store, timers, timer, sessionVars, post, conn, target, gauge, started>>

\* The gauge goes down, session.end is sent and autoExport is started.
Report(e) ==
  /\ EvictStep(e, "report", IF e \in Conns THEN "forget" ELSE "done")
  /\ gauge' = gauge - 1
  /\ ended' = [ended EXCEPT ![target[e]] = @ + 1]
  /\ UNCHANGED <<store, timers, timer, sessionVars, post, conn, target, started>>

\* A timer callback ends by deleting the session's entry of the TTL map.
ForgetTimer(c) ==
  /\ EvictStep(c, "forget", "done")
  /\ TTL!Forget(target[c])
  /\ UNCHANGED <<store, sessionVars, post, conn, target, reportVars>>

Evict(e) == RemoveTimer(e) \/ CloseStream(e) \/ Drop(e) \/ Report(e)

TimerCallback(c) == EvictSession(c) \/ Evict(c) \/ ForgetTimer(c)

HandleDelete(d) == (\E s \in Posts : DeleteSession(d, s)) \/ Evict(d)

-----------------------------------------------------------------------------
Next ==
  \/ \E p \in Posts : CreateSession(p)
  \/ \E c \in Conns : HandleWebSocket(c) \/ Expire(c) \/ TimerCallback(c)
  \/ \E d \in Deletes : HandleDelete(d)

(***************************************************************************)
(* Fairness.  A goroutine that is not waiting for a client or for the      *)
(* container runtime keeps running, and a countdown ends.  Nothing is      *)
(* assumed of clients: a request may never come and a connected client     *)
(* may stay for ever (Disconnect is not fair).  Nor is Connect fair: the   *)
(* runtime may never answer.                                               *)
(***************************************************************************)
Fairness ==
  /\ \A p \in Posts :
       WF_vars(Register(p) \/ RegisterFails(p) \/ Discard(p) \/ Announce(p))
  /\ \A c \in Conns :
       /\ WF_vars(Upgrade(c) \/ CancelCountdown(c) \/ Activate(c) \/ StartCountdown(c))
       /\ WF_vars(Expire(c))
       /\ WF_vars(TimerCallback(c))
  /\ \A d \in Deletes : WF_vars(Evict(d))

Spec == Init /\ [][Next]_vars /\ Fairness
-----------------------------------------------------------------------------
(* Properties *)

Teardowns == {"remove", "close", "drop", "report"}

\* Teardown e is under way for session s.
TearingDown(e, s) == target[e] = s /\ evictor[e] \in Teardowns \cup {"get"}

\* Connection c has called CancelTTL for s and has yet to call StartTTL.
Present(c, s) == target[c] = s /\ conn[c] \in {"activate", "running", "leaving"}

\* Some connection has come to s and left it.
Visited(s) == \E c \in Conns : target[c] = s /\ conn[c] = "left"

\* store.Create has succeeded for s.
Registered(s) == post[s] \in {"announce", "created"}

Quiet ==
  /\ \A p \in Posts : post[p] # "announce"
  /\ \A e \in Evictors : evictor[e] \notin Teardowns

\* Every variable has its type.
TypeOK ==
  /\ store \subseteq Posts
  /\ timers \in [Posts -> Conns \cup {None}]
  /\ timer \in [Conns -> {"unset", "armed", "stopped", "fired"}]
  /\ mode \in [Posts -> Modes \cup {"none"}]
  /\ container \in [Posts -> Containers \cup {None}]
  /\ stream \in [Posts -> {"none", "open", "closed"}]
  /\ status \in [Posts -> {"active", "disconnected"}]
  /\ post \in [Posts -> {"idle", "lookup", "connect", "register", "discard", "announce",
                         "created", "reused", "refused"}]
  /\ conn \in [Conns -> {"idle", "upgrade", "cancel", "activate", "running", "leaving",
                         "left", "refused"}]
  /\ target \in [Evictors -> Posts \cup {None}]
  /\ evictor \in [Evictors -> {"idle", "get", "forget", "done"} \cup Teardowns]
  /\ gauge \in Int
  /\ started \subseteq Posts
  /\ ended \in [Posts -> Nat]

\* The cap holds whatever runs between a request's lookup and its Create: two requests
\* that both saw room cannot both take the last place (server.go:432).
CapRespected == MaxSessions > 0 => Cardinality(store) <= MaxSessions

\* No container stream is left open with nobody to close it: behind an open stream is a
\* session in the store, or a request that will register it or close it (server.go:433).
NoStreamLeak ==
  \A p \in Posts : stream[p] = "open" => p \in store \/ post[p] \in {"register", "discard"}

\* Remove and CancelTTL reach every countdown that matters: an armed timer of a stored
\* session is the one in the TTL map.  In particular such a session has at most one, although
\* the callback's delete (ttl.go:39) may drop the entry of a later timer.
TimerReachable ==
  \A c \in Conns : timer[c] = "armed" /\ target[c] \in store => timers[target[c]] = c

\* A session that everybody has left is not forgotten: its countdown runs, or a teardown of
\* it is under way, in whatever order its connections came and went.
NoForgottenSession ==
  \A s \in store :
    Visited(s) /\ (\A c \in Conns : ~Present(c, s)) =>
      \/ TTL!Stoppable(timers[s])
      \/ \E e \in Evictors : TearingDown(e, s)

\* A session is not shown as active when the last of its connections has ended (ws.go:78),
\* although each connection sets the status without looking at the others.
StatusSettles ==
  \A s \in Posts :
    /\ \E c \in Conns : target[c] = s /\ conn[c] \in {"leaving", "left"}
    /\ \A c \in Conns : target[c] = s => conn[c] # "running"
    => status[s] = "disconnected"

\* A session does not vanish unannounced: when it is gone, session.end has been sent or is
\* about to be (server.go:155).
NoSilentEnd ==
  \A s \in Posts :
    Registered(s) /\ s \notin store =>
      ended[s] > 0 \/ \E e \in Evictors : target[e] = s /\ evictor[e] = "report"

\* At rest the gauge counts no session that is gone.
GaugeCountsNoGhost == Quiet => gauge <= Cardinality(store)

\* A deserted session is discarded, or somebody comes back to it (SPEC.md:211).
DesertedSessionGoes ==
  \A s \in Posts :
    (s \in store /\ Visited(s) /\ \A c \in Conns : ~Present(c, s)) ~>
      (s \notin store \/ \E c \in Conns : Present(c, s))

-----------------------------------------------------------------------------
(* The session registry this server implements *)

PhaseOf(s) ==
  IF s \in store THEN "live" ELSE IF Registered(s) THEN "gone" ELSE "absent"

Registry == INSTANCE SessionRegistry WITH
  Sessions <- Posts,
  phase <- [s \in Posts |-> PhaseOf(s)],
  notified <- {s \in Posts : ended[s] > 0}

\* The server implements SessionRegistry: a stream is acquired before its session is stored
\* and closed before it is dropped, no session comes back, and the end of each is notified
\* at least once, however its teardowns interleave.
ImplementsRegistry == Registry!Spec

-----------------------------------------------------------------------------
(* What the repository says and the code does not do *)

\* main.go:57: the TTL counts "after last disconnect", so that the countdown of a session does
\* not run out while another browser is connected to it (attach sessions are shared, SPEC.md:32).
ExpiresWhenDeserted ==
  [][\A t \in Conns : timer[t] = "armed" /\ timer'[t] = "fired" =>
       ~\E c \in Conns : conn[c] = "running" /\ target[c] = target[t]]_vars
=============================================================================
