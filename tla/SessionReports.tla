--------------------------- MODULE SessionReports ---------------------------
(***************************************************************************)
(* What leaves the server when a session starts and ends: the webhooks     *)
(* (src/internal/webhook/webhook.go), each sent by a goroutine of its own, *)
(* and the export of the recording (autoExport,                            *)
(* src/internal/api/server.go), which two teardowns of one session, by the *)
(* TTL and by DELETE, may both make.  The network may delay or lose a      *)
(* request, and a receiver may answer late or never.  A recording is the   *)
(* number of its events, and receivers keep what comes in order.           *)
(***************************************************************************)
EXTENDS Integers, Sequences, FiniteSets

CONSTANTS
  Evictors,     \* goroutines that may run evict
  Urls,         \* webhook receivers
  Creator,      \* the goroutine of createSession
  ExportUrl,    \* where recordings are PUT
  MaxEvents     \* bound: recorded events

ASSUME BoundAssumption == MaxEvents \in Nat
ASSUME SendersAssumption == Creator \notin Evictors /\ ExportUrl \notin Urls

\* A request is named by the receiver and the goroutine on whose behalf it is made.
Posts == [to : Urls, by : Evictors \cup {Creator}]
Puts == [to : {ExportUrl}, by : Evictors]
Requests == Posts \cup Puts

VARIABLES
  stored,       \* the session is in the store
  recorded,     \* events in its recording
  creator,      \* createSession: "announce" or "done"
  evictor,      \* each evict: "idle", "close", "drop", "announce", "export" or "done"
  body,         \* events in the export of each
  leastExport,  \* events recorded when the session left the store (history)
  sender,       \* the goroutine of each request: "none", "waiting" or "ended"
  wire,         \* requests under way
  inbox         \* per receiver, who made the requests that arrived

evictVars == <<stored, evictor, body, leastExport>>
networkVars == <<sender, wire, inbox>>
vars == <<recorded, creator, evictVars, networkVars>>

\* createSession has stored the session.
Init ==
  /\ stored = TRUE
  /\ recorded = 0
  /\ creator = "announce"
  /\ evictor = [e \in Evictors |-> "idle"]
  /\ body = [e \in Evictors |-> 0]
  /\ leastExport = 0
  /\ sender = [r \in Requests |-> "none"]
  /\ wire = {}
  /\ inbox = [u \in Urls \cup {ExportUrl} |-> <<>>]

\* Handlers and readers record, also when the session has gone.
Record ==
  /\ recorded < MaxEvents
  /\ recorded' = recorded + 1
  /\ UNCHANGED <<creator, evictVars, networkVars>>

\* Mutant: the requests are counted on nobody's account.
StartUnwatched(requests) == wire' = wire \cup requests /\ UNCHANGED <<sender, inbox>>

\* A goroutine is started for each of the requests.
Start(requests) ==
  /\ sender' = [r \in Requests |-> IF r \in requests THEN "waiting" ELSE sender[r]]
  /\ wire' = wire \cup requests
  /\ UNCHANGED inbox

\* Notifier.Send
Send(by) == Start({r \in Posts : r.by = by})

\* createSession sends session.start.
AnnounceStart ==
  /\ creator = "announce"
  /\ creator' = "done"
  /\ Send(Creator)
  /\ UNCHANGED <<recorded, evictVars>>

-----------------------------------------------------------------------------
(* evict *)

EvictStep(e, from, to) == evictor[e] = from /\ evictor' = [evictor EXCEPT ![e] = to]

\* EvictSession or DELETE has found the session.
BeginEvict(e) ==
  /\ stored
  /\ EvictStep(e, "idle", "close")
  /\ UNCHANGED <<recorded, creator, stored, body, leastExport, networkVars>>

\* The timer is removed and the stream closed.
CloseStream(e) ==
  /\ EvictStep(e, "close", "drop")
  /\ UNCHANGED <<recorded, creator, stored, body, leastExport, networkVars>>

Drop(e) ==
  /\ EvictStep(e, "drop", "announce")
  /\ stored' = FALSE
  /\ leastExport' = IF stored THEN recorded ELSE leastExport
  /\ UNCHANGED <<recorded, creator, body, networkVars>>

AnnounceEnd(e) ==
  /\ EvictStep(e, "announce", "export")
  /\ Send(e)
  /\ UNCHANGED <<recorded, creator, stored, body, leastExport>>

\* autoExport makes the cast here and leaves the PUT to a goroutine.
AutoExport(e) ==
  /\ EvictStep(e, "export", "done")
  /\ body' = [body EXCEPT ![e] = recorded]
  /\ Start({r \in Puts : r.by = e})
  /\ UNCHANGED <<recorded, creator, stored, leastExport>>

\* Mutant: the export is made before the session is dropped and announced.
EvictExportFirst(e) ==
  \/ BeginEvict(e)
  \/ /\ EvictStep(e, "close", "drop")
     /\ body' = [body EXCEPT ![e] = recorded]
     /\ Start({r \in Puts : r.by = e})
     /\ UNCHANGED <<recorded, creator, stored, leastExport>>
  \/ Drop(e) \/ AnnounceEnd(e)
  \/ /\ EvictStep(e, "export", "done")
     /\ UNCHANGED <<recorded, creator, stored, body, leastExport, networkVars>>

Evict(e) == BeginEvict(e) \/ CloseStream(e) \/ Drop(e) \/ AnnounceEnd(e) \/ AutoExport(e)

-----------------------------------------------------------------------------
(* The goroutines of the requests, the network and the receivers *)

Arrived(r) == r.by \in {inbox[r.to][i] : i \in 1 .. Len(inbox[r.to])}

\* A request that is lost stays on the wire for ever.
Deliver(r) ==
  /\ r \in wire
  /\ wire' = wire \ {r}
  /\ inbox' = [inbox EXCEPT ![r.to] = Append(@, r.by)]
  /\ UNCHANGED <<recorded, creator, evictVars, sender>>

SenderEnds(r) == sender[r] = "waiting" /\ sender' = [sender EXCEPT ![r] = "ended"]

\* The receiver answers; any status ends the goroutine.
Answered(r) ==
  /\ Arrived(r)
  /\ SenderEnds(r)
  /\ UNCHANGED <<recorded, creator, evictVars, wire, inbox>>

\* The request fails, or its time is up (5 s for a webhook, 30 s for an export).  It may have
\* arrived, or arrive still.  Nothing is tried again.
TimesOut(r) ==
  /\ SenderEnds(r)
  /\ UNCHANGED <<recorded, creator, evictVars, wire, inbox>>

Sender(r) == Answered(r) \/ TimesOut(r)

-----------------------------------------------------------------------------
Next ==
  \/ Record \/ AnnounceStart
  \/ \E e \in Evictors : Evict(e)
  \/ \E r \in Requests : Deliver(r) \/ Sender(r)

Spec == Init /\ [][Next]_vars
-----------------------------------------------------------------------------
(* Properties *)

TypeOK ==
  /\ stored \in BOOLEAN
  /\ recorded \in 0 .. MaxEvents
  /\ creator \in {"announce", "done"}
  /\ evictor \in [Evictors -> {"idle", "close", "drop", "announce", "export", "done"}]
  /\ body \in [Evictors -> 0 .. recorded]
  /\ leastExport \in 0 .. recorded
  /\ sender \in [Requests -> {"none", "waiting", "ended"}]
  /\ wire \subseteq {r \in Requests : sender[r] # "none"}
  /\ inbox \in [Urls \cup {ExportUrl} -> Seq(Evictors \cup {Creator})]

\* An export lacks nothing that had been recorded when the session left the store, whoever of
\* several teardowns made it and whichever of them arrives last at the one URL (server.go:167).
ExportLacksNothing ==
  \A e \in Evictors : evictor[e] = "done" => body[e] >= leastExport

=============================================================================
