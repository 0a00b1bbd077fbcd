------------------------- MODULE SessionServerProofs -------------------------
(***************************************************************************)
(* Theorems about SessionServer, for every number of requests, connections *)
(* and containers and for every cap.                                       *)
(***************************************************************************)
EXTENDS SessionServer, FiniteSetTheorems, TLAPS

(***************************************************************************)
(* The inductive invariant.  NoStreamLeak and TimerReachable are not       *)
(* inductive: they need to know how far each goroutine has come when it    *)
(* touches a stream, the store or the TTL map.                             *)
(***************************************************************************)

\* Only sessions whose Create succeeded are stored.
StoredIsRegistered == \A p \in store : Registered(p)

\* A request holds a stream exactly when Connect gave it one.
StreamFollowsPost ==
  \A p \in Posts :
    /\ post[p] \in {"idle", "lookup", "connect"} => stream[p] = "none"
    /\ post[p] = "register" => stream[p] # "closed"
    /\ post[p] = "discard" => stream[p] = "open"

\* A connection past the lookup names a registered session, has started its timer exactly
\* when it has left, and its callback runs only once that timer has fired.
ConnState ==
  \A c \in Conns :
    /\ conn[c] \notin {"idle", "refused"} => target[c] \in Posts /\ Registered(target[c])
    /\ timer[c] = "unset" <=> conn[c] # "left"
    /\ evictor[c] # "idle" => timer[c] = "fired"

\* The TTL map holds a timer under the session it was started for.
TimerOwner ==
  \A s \in Posts : timers[s] \in Conns => target[timers[s]] = s /\ conn[timers[s]] = "left"

\* A teardown names a registered session, has closed its stream before it drops it, and
\* reports or forgets only sessions that are gone.
TeardownState ==
  \A e \in Evictors :
    /\ evictor[e] \in Teardowns \cup {"forget"} => target[e] \in Posts /\ Registered(target[e])
    /\ evictor[e] \in {"drop", "report"} => stream[target[e]] # "open"
    /\ evictor[e] \in {"report", "forget"} => target[e] \notin store

IInv ==
  /\ TypeOK
  /\ StoredIsRegistered
  /\ StreamFollowsPost
  /\ NoStreamLeak
  /\ ConnState
  /\ TimerOwner
  /\ TeardownState
  /\ TimerReachable
  /\ NoForgottenSession
  /\ StatusSettles
  /\ NoSilentEnd

-----------------------------------------------------------------------------
\* The server starts in a state that satisfies the inductive invariant.
THEOREM InitIInv == Init => IInv
  BY PostsAssumption, ConnsAssumption DEF Init, IInv, TypeOK, StoredIsRegistered,
     StreamFollowsPost, NoStreamLeak, ConnState, TimerOwner, TeardownState, TimerReachable,
     NoForgottenSession, Visited, StatusSettles, NoSilentEnd, Registered, Teardowns,
     Evictors, Store!NewStore, TTL!NewTTLManager

\* A step of createSession keeps the invariant.
LEMMA PostStepKeeps ==
  ASSUME IInv, NEW p \in Posts, CreateSession(p)
  PROVE  IInv'
  <1> USE PostsAssumption, ConnsAssumption, SMTT(30) DEF IInv, TypeOK, StoredIsRegistered,
      StreamFollowsPost, NoStreamLeak, ConnState, TimerOwner, TeardownState, TimerReachable,
      NoForgottenSession, Visited, Present, TearingDown, StatusSettles, NoSilentEnd, Registered,
      Teardowns, Modes, Evictors, sessionVars, reportVars, PostStep, ConnStep, EvictStep,
      Store!Create, Store!Has, Store!Delete, TTL!CancelTTL, TTL!StartTTL, TTL!Remove, TTL!Fire,
      TTL!Forget, TTL!AfterStop, TTL!Stoppable
  <1>1. CASE BadRequest(p)
    BY <1>1 DEF BadRequest
  <1>2. CASE ReceivePost(p)
    BY <1>2 DEF ReceivePost
  <1>3. CASE GetByContainer(p)
    BY <1>3 DEF GetByContainer
  <1>4. CASE Connect(p)
    BY <1>4 DEF Connect
  <1>5. CASE ConnectFails(p)
    BY <1>5 DEF ConnectFails
  <1>6. CASE Register(p)
    BY <1>6 DEF Register
  <1>7. CASE RegisterFails(p)
    BY <1>7 DEF RegisterFails
  <1>8. CASE Discard(p)
    BY <1>8 DEF Discard
  <1>9. CASE Announce(p)
    BY <1>9 DEF Announce
  <1> QED
    BY ONLY <1>1, <1>2, <1>3, <1>4, <1>5, <1>6, <1>7, <1>8, <1>9, CreateSession(p) DEF CreateSession

\* A step of handleWebSocket keeps the invariant.
LEMMA ConnStepKeeps ==
  ASSUME IInv, NEW c \in Conns, HandleWebSocket(c)
  PROVE  IInv'
  <1> USE PostsAssumption, ConnsAssumption, SMTT(30) DEF IInv, TypeOK, StoredIsRegistered,
      StreamFollowsPost, NoStreamLeak, ConnState, TimerOwner, TeardownState, TimerReachable,
      NoForgottenSession, Visited, Present, TearingDown, StatusSettles, NoSilentEnd, Registered,
      Teardowns, Modes, Evictors, sessionVars, reportVars, PostStep, ConnStep, EvictStep,
      Store!Create, Store!Has, Store!Delete, TTL!CancelTTL, TTL!StartTTL, TTL!Remove, TTL!Fire,
      TTL!Forget, TTL!AfterStop, TTL!Stoppable
  <1>1. CASE \E s \in Posts : Dial(c, s)
    BY <1>1 DEF Dial
  <1>2. CASE Upgrade(c)
    BY <1>2 DEF Upgrade
  <1>3. CASE CancelCountdown(c)
    BY <1>3 DEF CancelCountdown
  <1>4. CASE Activate(c)
    BY <1>4 DEF Activate
  <1>5. CASE Disconnect(c)
    BY <1>5 DEF Disconnect
  <1>6. CASE StartCountdown(c)
    BY <1>6 DEF StartCountdown
  <1> QED
    BY ONLY <1>1, <1>2, <1>3, <1>4, <1>5, <1>6, HandleWebSocket(c) DEF HandleWebSocket

\* A step of evict, whoever runs it, keeps the invariant.
LEMMA EvictStepKeeps ==
  ASSUME IInv, NEW e \in Evictors, Evict(e)
  PROVE  IInv'
  <1> USE PostsAssumption, ConnsAssumption, SMTT(30) DEF IInv, TypeOK, StoredIsRegistered,
      StreamFollowsPost, NoStreamLeak, ConnState, TimerOwner, TeardownState, TimerReachable,
      NoForgottenSession, Visited, Present, TearingDown, StatusSettles, NoSilentEnd, Registered,
      Teardowns, Modes, Evictors, sessionVars, reportVars, PostStep, ConnStep, EvictStep,
      Store!Create, Store!Has, Store!Delete, TTL!CancelTTL, TTL!StartTTL, TTL!Remove, TTL!Fire,
      TTL!Forget, TTL!AfterStop, TTL!Stoppable
  <1>1. CASE RemoveTimer(e)
    BY <1>1 DEF RemoveTimer
  <1>2. CASE CloseStream(e)
    BY <1>2 DEF CloseStream
  <1>3. CASE Drop(e)
    BY <1>3 DEF Drop
  <1>4. CASE Report(e)
    BY <1>4 DEF Report
  <1> QED
    BY ONLY <1>1, <1>2, <1>3, <1>4, Evict(e) DEF Evict

\* The steps of a timer callback around evict keep the invariant.
LEMMA TimerStepKeeps ==
  ASSUME IInv, NEW c \in Conns, Expire(c) \/ EvictSession(c) \/ ForgetTimer(c)
  PROVE  IInv'
  <1> USE PostsAssumption, ConnsAssumption, SMTT(30) DEF IInv, TypeOK, StoredIsRegistered,
      StreamFollowsPost, NoStreamLeak, ConnState, TimerOwner, TeardownState, TimerReachable,
      NoForgottenSession, Visited, Present, TearingDown, StatusSettles, NoSilentEnd, Registered,
      Teardowns, Modes, Evictors, sessionVars, reportVars, PostStep, ConnStep, EvictStep,
      Store!Create, Store!Has, Store!Delete, TTL!CancelTTL, TTL!StartTTL, TTL!Remove, TTL!Fire,
      TTL!Forget, TTL!AfterStop, TTL!Stoppable
  <1>1. CASE Expire(c)
    BY <1>1 DEF Expire
  <1>2. CASE EvictSession(c)
    BY <1>2 DEF EvictSession
  <1>3. CASE ForgetTimer(c)
    BY <1>3 DEF ForgetTimer
  <1> QED
    BY ONLY <1>1, <1>2, <1>3, Expire(c) \/ EvictSession(c) \/ ForgetTimer(c)

\* The lookup of a DELETE keeps the invariant.
LEMMA DeleteStepKeeps ==
  ASSUME IInv, NEW d \in Deletes, \E s \in Posts : DeleteSession(d, s)
  PROVE  IInv'
  <1> USE PostsAssumption, ConnsAssumption, SMTT(30) DEF IInv, TypeOK, StoredIsRegistered,
      StreamFollowsPost, NoStreamLeak, ConnState, TimerOwner, TeardownState, TimerReachable,
      NoForgottenSession, Visited, Present, TearingDown, StatusSettles, NoSilentEnd, Registered,
      Teardowns, Modes, Evictors, sessionVars, reportVars, PostStep, ConnStep, EvictStep,
      Store!Create, Store!Has, Store!Delete, TTL!CancelTTL, TTL!StartTTL, TTL!Remove, TTL!Fire,
      TTL!Forget, TTL!AfterStop, TTL!Stoppable
  <1> QED
    BY DEF DeleteSession

\* Every step of every goroutine keeps the invariant.
THEOREM NextIInv == IInv /\ [Next]_vars => IInv'
  <1>1. CASE Next
    <2>1. CASE \E p \in Posts : CreateSession(p)
      BY <2>1, PostStepKeeps
    <2>2. CASE \E c \in Conns : HandleWebSocket(c) \/ Expire(c) \/ TimerCallback(c)
      BY <2>2, ConnStepKeeps, EvictStepKeeps, TimerStepKeeps DEF TimerCallback, Evictors
    <2>3. CASE \E d \in Deletes : HandleDelete(d)
      BY <2>3, EvictStepKeeps, DeleteStepKeeps DEF HandleDelete, Evictors
    <2> QED
      BY <1>1, <2>1, <2>2, <2>3 DEF Next
  <1>2. CASE UNCHANGED vars
    BY <1>2 DEF vars, IInv, TypeOK, StoredIsRegistered, StreamFollowsPost, NoStreamLeak,
       ConnState, TimerOwner, TeardownState, TimerReachable, NoForgottenSession, Visited,
       Present, TearingDown, StatusSettles, NoSilentEnd, Registered, TTL!Stoppable
  <1> QED
    BY <1>1, <1>2

\* The inductive invariant holds in every reachable state.
THEOREM Invariance == Spec => []IInv
  BY InitIInv, NextIInv, PTL DEF Spec

\* Every variable keeps its type.
THEOREM TypeCorrect == Spec => []TypeOK
  BY Invariance, PTL DEF IInv

\* No container stream is left open with nobody to close it.
THEOREM StreamsAreOwned == Spec => []NoStreamLeak
  BY Invariance, PTL DEF IInv

\* Every running countdown of a stored session can be found and stopped.
THEOREM TimersAreReachable == Spec => []TimerReachable
  BY Invariance, PTL DEF IInv

\* A deserted session has a countdown or is being torn down.
THEOREM NobodyIsForgotten == Spec => []NoForgottenSession
  BY Invariance, PTL DEF IInv

\* The status of a session everybody has left is "disconnected".
THEOREM StatusIsHonest == Spec => []StatusSettles
  BY Invariance, PTL DEF IInv

\* A session that is gone has been, or is about to be, announced as ended.
THEOREM EndsAreSent == Spec => []NoSilentEnd
  BY Invariance, PTL DEF IInv

-----------------------------------------------------------------------------
(***************************************************************************)
(* The gauge.  Announce raises it as it counts one request more as done,   *)
(* and each Report lowers it, though of the reports of one session only    *)
(* the first makes the set Ended grow.                                     *)
(***************************************************************************)
Created == {p \in Posts : post[p] = "created"}
Ended == {p \in Posts : ended[p] > 0}

GaugeBound == gauge <= Cardinality(Created) - Cardinality(Ended)

LEMMA CountsAreNumbers ==
  /\ IsFiniteSet(Created) /\ Cardinality(Created) \in Nat
  /\ IsFiniteSet(Ended) /\ Cardinality(Ended) \in Nat
  <1>1. IsFiniteSet(Created) /\ IsFiniteSet(Ended)
    BY PostsAssumption, FS_Subset DEF Created, Ended
  <1> QED
    BY <1>1, FS_CardinalityType

LEMMA InitGauge == Init => GaugeBound
  <1> SUFFICES ASSUME Init PROVE GaugeBound
    OBVIOUS
  <1>1. Created = {} /\ Ended = {} /\ gauge = 0
    BY DEF Init, Created, Ended
  <1> QED
    BY <1>1, FS_EmptySet DEF GaugeBound

\* Only Announce and Report touch what the bound is about.
LEMMA GaugeFrame ==
  ASSUME GaugeBound, UNCHANGED <<gauge, Created, Ended>>
  PROVE  GaugeBound'
  BY DEF GaugeBound

LEMMA PostStepKeepsGauge ==
  ASSUME TypeOK, GaugeBound, NEW p \in Posts, CreateSession(p)
  PROVE  GaugeBound'
  <1> USE DEF TypeOK, PostStep, reportVars
  <1>1. CASE \/ BadRequest(p) \/ ReceivePost(p) \/ GetByContainer(p) \/ Connect(p)
             \/ ConnectFails(p) \/ Register(p) \/ RegisterFails(p) \/ Discard(p)
    <2>1. UNCHANGED <<gauge, ended>>
      BY <1>1 DEF BadRequest, ReceivePost, GetByContainer, Connect, ConnectFails, Register,
         RegisterFails, Discard
    <2>2. post[p] # "created" /\ \E x : x # "created" /\ post' = [post EXCEPT ![p] = x]
      BY <1>1 DEF BadRequest, ReceivePost, GetByContainer, Connect, ConnectFails, Register,
         RegisterFails, Discard, Modes
    <2>3. Created' = Created /\ Ended' = Ended
      BY <2>1, <2>2 DEF Created, Ended
    <2> QED
      BY <2>1, <2>3, GaugeFrame
  <1>2. CASE Announce(p)
    <2>1. gauge' = gauge + 1 /\ Ended' = Ended
      BY <1>2 DEF Announce, Ended
    <2>2. p \notin Created /\ Created' = Created \cup {p}
      BY <1>2 DEF Announce, Created
    <2>3. Cardinality(Created') = Cardinality(Created) + 1
      BY <2>2, CountsAreNumbers, FS_AddElement
    <2> QED
      BY <2>1, <2>3, CountsAreNumbers DEF GaugeBound
  <1> QED
    BY ONLY <1>1, <1>2, CreateSession(p) DEF CreateSession

LEMMA ReportKeepsGaugeBound ==
  ASSUME IInv, GaugeBound, NEW e \in Evictors, Report(e)
  PROVE  GaugeBound'
  <1>1. PICK s \in Posts : target[e] = s
    BY DEF IInv, TeardownState, Teardowns, Report, EvictStep
  <1>2. gauge' = gauge - 1 /\ Created' = Created
    BY DEF Report, sessionVars, Created
  <1>3. Ended' = Ended \cup {s}
    BY <1>1 DEF Report, Ended, IInv, TypeOK
  <1>4. Cardinality(Ended \cup {s}) \in {Cardinality(Ended), Cardinality(Ended) + 1}
    BY CountsAreNumbers, FS_AddElement, Zenon
  <1> QED
    BY <1>2, <1>3, <1>4, CountsAreNumbers DEF GaugeBound, IInv, TypeOK

LEMMA OthersKeepGauge ==
  ASSUME GaugeBound,
         \/ \E c \in Conns : HandleWebSocket(c) \/ Expire(c) \/ EvictSession(c) \/ ForgetTimer(c)
         \/ \E d \in Deletes, s \in Posts : DeleteSession(d, s)
         \/ \E e \in Evictors : RemoveTimer(e) \/ CloseStream(e) \/ Drop(e)
         \/ UNCHANGED vars
  PROVE  GaugeBound'
  <1>1. UNCHANGED <<gauge, post, ended>>
    BY DEF HandleWebSocket, Dial, Upgrade, CancelCountdown, Activate, Disconnect, StartCountdown,
       Expire, EvictSession, ForgetTimer, DeleteSession, RemoveTimer, CloseStream, Drop,
       sessionVars, reportVars, vars
  <1> QED
    BY <1>1, GaugeFrame DEF Created, Ended

LEMMA NextGauge == IInv /\ GaugeBound /\ [Next]_vars => GaugeBound'
  <1> SUFFICES ASSUME IInv, GaugeBound, [Next]_vars PROVE GaugeBound'
    OBVIOUS
  <1>1. CASE \E p \in Posts : CreateSession(p)
    BY <1>1, PostStepKeepsGauge DEF IInv
  <1>2. CASE \E e \in Evictors : Report(e)
    BY <1>2, ReportKeepsGaugeBound
  <1>3. CASE \/ \E c \in Conns :
                  HandleWebSocket(c) \/ Expire(c) \/ EvictSession(c) \/ ForgetTimer(c)
             \/ \E d \in Deletes, s \in Posts : DeleteSession(d, s)
             \/ \E e \in Evictors : RemoveTimer(e) \/ CloseStream(e) \/ Drop(e)
             \/ UNCHANGED vars
    BY <1>3, OthersKeepGauge
  <1> QED
    BY <1>1, <1>2, <1>3 DEF Next, TimerCallback, HandleDelete, Evict, Evictors

\* At rest every created session that was not announced as ended is still stored, so the bound
\* is the number of stored sessions.
LEMMA QuietGauge == IInv /\ GaugeBound => GaugeCountsNoGhost
  <1> SUFFICES ASSUME IInv, GaugeBound, Quiet PROVE gauge <= Cardinality(store)
    BY DEF GaugeCountsNoGhost
  <1>1. Created \ Ended \subseteq store
    BY DEF IInv, TypeOK, NoSilentEnd, Registered, Quiet, Teardowns, Created, Ended
  <1>2. IsFiniteSet(store) /\ Cardinality(store) \in Nat
    BY PostsAssumption, FS_Subset, FS_CardinalityType DEF IInv, TypeOK
  <1>3. Cardinality(Created \ Ended) <= Cardinality(store)
    BY <1>1, <1>2, FS_Subset
  <1>4. Cardinality(Created \ Ended) = Cardinality(Created) - Cardinality(Created \cap Ended)
    BY CountsAreNumbers, FS_Difference
  <1>5. IsFiniteSet(Created \cap Ended) /\ Cardinality(Created \cap Ended) <= Cardinality(Ended)
    BY CountsAreNumbers, FS_Intersection
  <1>6. Cardinality(Created \cap Ended) \in Nat
    BY <1>5, FS_CardinalityType
  <1> QED
    BY <1>2, <1>3, <1>4, <1>5, <1>6, CountsAreNumbers DEF GaugeBound, IInv, TypeOK

\* When no request and no teardown is under way, cternal.sessions.active counts no session that
\* is gone, however many teardowns of one session reported its end (server.go:441, :150).
THEOREM GaugeIsHonest == Spec => []GaugeCountsNoGhost
  BY Invariance, InitGauge, NextGauge, QuietGauge, PTL DEF Spec

-----------------------------------------------------------------------------
(* The cap: Create tests and inserts under one lock, and nothing else grows the store. *)

\* The store is a finite map.
LEMMA StoreIsFinite == TypeOK => IsFiniteSet(store)
  BY PostsAssumption, FS_Subset DEF TypeOK

\* Each instance brings its own copy of Cardinality; the copies agree.
LEMMA SameCardinality ==
  \A S : Store!Cardinality(S) = Cardinality(S) /\ Registry!Cardinality(S) = Cardinality(S)
  BY DEF Store!Cardinality, Registry!Cardinality, Cardinality

\* Only Register adds to the store: one session, when Create found room.
LEMMA StoreGrowsByRegister ==
  ASSUME Next
  PROVE  \/ store' \subseteq store
         \/ \E p \in Posts : ~Store!AtCapacity /\ store' = store \cup {p}
  <1>1. ASSUME NEW p \in Posts, CreateSession(p)
        PROVE  store' = store \/ (~Store!AtCapacity /\ store' = store \cup {p})
    BY <1>1 DEF CreateSession, BadRequest, ReceivePost, GetByContainer, Connect, ConnectFails,
       Register, RegisterFails, Discard, Announce, Store!Create
  <1>2. ASSUME NEW c \in Conns, HandleWebSocket(c) PROVE store' = store
    BY <1>2 DEF HandleWebSocket, Dial, Upgrade, CancelCountdown, Activate, Disconnect,
       StartCountdown
  <1>3. ASSUME NEW e \in Evictors, Evict(e) PROVE store' \subseteq store
    BY <1>3 DEF Evict, RemoveTimer, CloseStream, Drop, Report, Store!Delete
  <1>4. ASSUME NEW c \in Conns, Expire(c) \/ EvictSession(c) \/ ForgetTimer(c)
        PROVE  store' = store
    BY <1>4 DEF Expire, EvictSession, ForgetTimer
  <1>5. ASSUME NEW d \in Deletes, NEW s \in Posts, DeleteSession(d, s) PROVE store' = store
    BY <1>5 DEF DeleteSession
  <1> QED
    BY <1>1, <1>2, <1>3, <1>4, <1>5 DEF Next, TimerCallback, HandleDelete, Evictors

\* The cap is never exceeded, however many requests run at once.
THEOREM CapHolds == Spec => []CapRespected
  <1>1. Init => CapRespected
    BY CapAssumption, FS_EmptySet DEF Init, CapRespected, Store!NewStore
  <1>2. TypeOK /\ CapRespected /\ [Next]_vars => CapRespected'
    <2> SUFFICES ASSUME TypeOK, CapRespected, [Next]_vars, MaxSessions > 0
                 PROVE  Cardinality(store') <= MaxSessions
      BY DEF CapRespected
    <2>1. IsFiniteSet(store) /\ Cardinality(store) \in Nat
      BY StoreIsFinite, FS_CardinalityType
    <2>2. CASE store' \subseteq store
      BY <2>1, <2>2, FS_Subset, FS_CardinalityType, CapAssumption DEF CapRespected
    <2>3. CASE \E p \in Posts : ~Store!AtCapacity /\ store' = store \cup {p}
      BY <2>1, <2>3, FS_AddElement, SameCardinality, CapAssumption DEF Store!AtCapacity, CapRespected
    <2>4. CASE UNCHANGED vars
      BY <2>4 DEF vars, CapRespected
    <2> QED
      BY <2>2, <2>3, <2>4, StoreGrowsByRegister
  <1> QED
    BY <1>1, <1>2, TypeCorrect, PTL DEF Spec

-----------------------------------------------------------------------------
(* The server implements SessionRegistry: safety. *)

\* The live sessions of the registry are those in the store.
LEMMA LiveIsStore == TypeOK => Registry!Live = store
  BY DEF TypeOK, Registry!Live, PhaseOf

\* When Create finds room in the store, the registry has room too.
LEMMA RoomMeansRoom ==
  ASSUME TypeOK, ~Store!AtCapacity, MaxSessions > 0
  PROVE  Registry!Cardinality(Registry!Live) < MaxSessions
  <1>1. Cardinality(store) \in Nat
    BY StoreIsFinite, FS_CardinalityType
  <1>2. Cardinality(store) < MaxSessions
    BY <1>1, SameCardinality, CapAssumption DEF Store!AtCapacity
  <1> QED
    BY <1>2, LiveIsStore, SameCardinality

\* An action of the registry is a step of it.
LEMMA RegistryMoves ==
  ASSUME NEW s \in Posts,
         \/ Registry!Acquire(s) \/ Registry!Register(s) \/ Registry!GiveUp(s)
         \/ Registry!CloseStream(s) \/ Registry!Drop(s) \/ Registry!Notify(s)
  PROVE  [Registry!Next]_Registry!vars
  BY DEF Registry!Next

\* Every step of createSession is a step of the registry, or none.
LEMMA PostRefines ==
  ASSUME IInv, NEW p \in Posts, CreateSession(p)
  PROVE  [Registry!Next]_Registry!vars
  <1> USE DEF IInv, TypeOK, PostStep, PhaseOf, Registered, sessionVars, reportVars,
      Registry!vars
  <1>1. CASE BadRequest(p) \/ ReceivePost(p) \/ GetByContainer(p) \/ ConnectFails(p)
             \/ RegisterFails(p) \/ Announce(p)
    <2>1. UNCHANGED Registry!vars
      BY <1>1 DEF BadRequest, ReceivePost, GetByContainer, ConnectFails, RegisterFails, Announce,
         Modes
    <2> QED
      BY <2>1
  <1>2. CASE Connect(p)
    <2>1. Registry!Acquire(p)
      BY <1>2 DEF Connect, Registry!Acquire, StreamFollowsPost, StoredIsRegistered
    <2> QED
      BY <2>1 DEF Registry!Next
  <1>3. CASE Register(p)
    <2>1. Registry!Register(p)
      BY <1>3, RoomMeansRoom DEF Register, Registry!Register, Store!Create, StreamFollowsPost,
         StoredIsRegistered
    <2> QED
      BY <2>1 DEF Registry!Next
  <1>4. CASE Discard(p)
    <2>1. Registry!GiveUp(p)
      BY <1>4 DEF Discard, Registry!GiveUp, StreamFollowsPost, StoredIsRegistered
    <2> QED
      BY <2>1 DEF Registry!Next
  <1> QED
    BY ONLY <1>1, <1>2, <1>3, <1>4, CreateSession(p) DEF CreateSession

\* Every step of evict is a step of the registry, or none.
LEMMA EvictRefines ==
  ASSUME IInv, NEW e \in Evictors, Evict(e)
  PROVE  [Registry!Next]_Registry!vars
  <1> USE DEF IInv, TypeOK, TeardownState, Teardowns, EvictStep, PhaseOf, Registered,
      sessionVars, reportVars, Registry!vars
  <1>1. CASE RemoveTimer(e)
    BY <1>1 DEF RemoveTimer
  <1>2. CASE CloseStream(e)
    <2>1. PICK s \in Posts : target[e] = s /\ Registered(s)
      BY <1>2 DEF CloseStream
    <2>2. CASE stream[s] = "open"
      <3>1. Registry!CloseStream(s)
        BY <1>2, <2>1, <2>2 DEF CloseStream, Registry!CloseStream, NoStreamLeak
      <3> QED
        BY <3>1, RegistryMoves
    <2>3. CASE stream[s] # "open"
      BY <1>2, <2>1, <2>3 DEF CloseStream
    <2> QED
      BY <2>2, <2>3
  <1>3. CASE Drop(e)
    <2>1. PICK s \in Posts : target[e] = s /\ Registered(s)
      BY <1>3 DEF Drop
    <2>2. CASE s \in store
      <3>1. stream[s] # "open" /\ store' = store \ {s} /\ UNCHANGED <<stream, post, ended>>
        BY <1>3, <2>1 DEF Drop, Store!Delete
      <3>2. Registry!Drop(s)
        BY ONLY <2>1, <2>2, <3>1 DEF Registry!Drop, PhaseOf, Registered
      <3> QED
        BY <3>2, RegistryMoves
    <2>3. CASE s \notin store
      BY <1>3, <2>1, <2>3 DEF Drop, Store!Delete
    <2> QED
      BY <2>1, <2>2, <2>3
  <1>4. CASE Report(e)
    <2>1. PICK s \in Posts : target[e] = s /\ Registered(s)
      BY <1>4 DEF Report
    <2>2. CASE ended[s] = 0
      <3>1. Registry!Notify(s)
        BY <1>4, <2>1, <2>2 DEF Report, Registry!Notify
      <3> QED
        BY <3>1, RegistryMoves
    <2>3. CASE ended[s] # 0
      BY <1>4, <2>1, <2>3 DEF Report
    <2> QED
      BY <2>1, <2>2, <2>3
  <1> QED
    BY ONLY <1>1, <1>2, <1>3, <1>4, Evict(e) DEF Evict

\* Connections, timers and lookups change nothing the registry sees.
LEMMA OthersRefine ==
  ASSUME \/ \E c \in Conns : HandleWebSocket(c) \/ Expire(c) \/ EvictSession(c) \/ ForgetTimer(c)
         \/ \E d \in Deletes, s \in Posts : DeleteSession(d, s)
         \/ UNCHANGED vars,
         TypeOK
  PROVE  UNCHANGED Registry!vars
  <1>1. UNCHANGED <<store, stream, post, ended>>
    BY DEF HandleWebSocket, Dial, Upgrade, CancelCountdown, Activate, Disconnect, StartCountdown,
       Expire, EvictSession, ForgetTimer, DeleteSession, sessionVars, reportVars, vars
  <1> QED
    BY <1>1 DEF Registry!vars, PhaseOf, Registered

\* Every behaviour of the server is, step by step, one of the registry.
THEOREM RefinesRegistry == Spec => Registry!Init /\ [][Registry!Next]_Registry!vars
  <1>1. Init => Registry!Init
    BY DEF Init, Registry!Init, PhaseOf, Registered, Store!NewStore
  <1>2. IInv /\ [Next]_vars => [Registry!Next]_Registry!vars
    <2> SUFFICES ASSUME IInv, [Next]_vars PROVE [Registry!Next]_Registry!vars
      OBVIOUS
    <2>1. CASE \E p \in Posts : CreateSession(p)
      BY <2>1, PostRefines
    <2>2. CASE \E e \in Evictors : Evict(e)
      BY <2>2, EvictRefines
    <2>3. CASE \/ \E c \in Conns :
                    HandleWebSocket(c) \/ Expire(c) \/ EvictSession(c) \/ ForgetTimer(c)
               \/ \E d \in Deletes, s \in Posts : DeleteSession(d, s)
               \/ UNCHANGED vars
      BY <2>3, OthersRefine DEF IInv
    <2> QED
      BY <2>1, <2>2, <2>3 DEF Next, TimerCallback, HandleDelete, Evictors
  <1> QED
    BY <1>1, <1>2, Invariance, PTL DEF Spec
=============================================================================
