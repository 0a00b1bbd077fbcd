------------------------ MODULE SessionReportsProofs ------------------------
(***************************************************************************)
(* Theorems about SessionReports, for any number of teardowns, receivers   *)
(* and events.                                                             *)
(***************************************************************************)
EXTENDS SessionReports, TLAPS

\* A teardown that has passed Drop found or made the session absent, so that leastExport is
\* settled when an export is made.
Settled ==
  \A e \in Evictors : evictor[e] \in {"announce", "export", "done"} => ~stored

IInv == TypeOK /\ Settled /\ ExportLacksNothing

-----------------------------------------------------------------------------
\* What is put on the wire has a goroutine that waits for it.
LEMMA StartType ==
  ASSUME TypeOK, NEW requests \in SUBSET Requests, Start(requests)
  PROVE  /\ sender' \in [Requests -> {"none", "waiting", "ended"}]
         /\ wire' \subseteq {r \in Requests : sender'[r] # "none"}
         /\ inbox' \in [Urls \cup {ExportUrl} -> Seq(Evictors \cup {Creator})]
BY DEF TypeOK, Start

LEMMA InitIInv == Init => IInv
BY BoundAssumption DEF Init, IInv, TypeOK, Settled, ExportLacksNothing

\* A step of a teardown keeps the invariant.
LEMMA EvictIInv ==
  ASSUME IInv, NEW e \in Evictors, Evict(e)
  PROVE  IInv'
<1>1. CASE BeginEvict(e)
  BY <1>1 DEF BeginEvict, EvictStep, networkVars, IInv, TypeOK, Settled, ExportLacksNothing
<1>2. CASE CloseStream(e)
  BY <1>2 DEF CloseStream, EvictStep, networkVars, IInv, TypeOK, Settled, ExportLacksNothing
<1>3. CASE Drop(e)
  <2>1. TypeOK'
    <3>1. /\ stored' \in BOOLEAN /\ recorded' = recorded
          /\ UNCHANGED <<creator, body, networkVars>>
      BY <1>3 DEF Drop
    <3>2. evictor' \in [Evictors -> {"idle", "close", "drop", "announce", "export", "done"}]
      BY <1>3 DEF Drop, EvictStep, IInv, TypeOK
    <3>3. leastExport' \in 0 .. recorded
      BY <1>3 DEF Drop, IInv, TypeOK
    <3> QED BY <3>1, <3>2, <3>3 DEF networkVars, IInv, TypeOK
  <2>2. Settled'
    BY <1>3 DEF Drop, EvictStep, IInv, TypeOK, Settled
  <2>3. ExportLacksNothing'
    BY <1>3 DEF Drop, EvictStep, IInv, TypeOK, Settled, ExportLacksNothing
  <2> QED BY <2>1, <2>2, <2>3 DEF IInv
<1>4. CASE AnnounceEnd(e)
  <2> DEFINE R == {r \in Posts : r.by = e}
  <2>1. R \in SUBSET Requests /\ Start(R)
    BY <1>4 DEF AnnounceEnd, Send, Requests
  <2>2. /\ sender' \in [Requests -> {"none", "waiting", "ended"}]
        /\ wire' \subseteq {r \in Requests : sender'[r] # "none"}
        /\ inbox' \in [Urls \cup {ExportUrl} -> Seq(Evictors \cup {Creator})]
    BY <2>1, StartType DEF IInv
  <2> QED BY <1>4, <2>2 DEF AnnounceEnd, EvictStep, IInv, TypeOK, Settled, ExportLacksNothing
<1>5. CASE AutoExport(e)
  <2> DEFINE R == {r \in Puts : r.by = e}
  <2>1. R \in SUBSET Requests /\ Start(R)
    BY <1>5 DEF AutoExport, Requests
  <2>2. /\ sender' \in [Requests -> {"none", "waiting", "ended"}]
        /\ wire' \subseteq {r \in Requests : sender'[r] # "none"}
        /\ inbox' \in [Urls \cup {ExportUrl} -> Seq(Evictors \cup {Creator})]
    BY <2>1, StartType DEF IInv
  <2>3. TypeOK'
    BY <1>5, <2>2 DEF AutoExport, EvictStep, IInv, TypeOK
  <2>4. Settled' /\ ExportLacksNothing'
    BY <1>5 DEF AutoExport, EvictStep, IInv, TypeOK, Settled, ExportLacksNothing
  <2> QED BY <2>3, <2>4 DEF IInv
<1> QED BY <1>1, <1>2, <1>3, <1>4, <1>5 DEF Evict

\* A step of the network or of a request's goroutine keeps it.
LEMMA RequestIInv ==
  ASSUME IInv, NEW r \in Requests, Deliver(r) \/ Sender(r)
  PROVE  IInv'
<1>1. CASE Deliver(r)
  <2>1. r.to \in Urls \cup {ExportUrl} /\ r.by \in Evictors \cup {Creator}
    BY DEF Requests, Posts, Puts
  <2>2. inbox' \in [Urls \cup {ExportUrl} -> Seq(Evictors \cup {Creator})]
    BY <1>1, <2>1 DEF Deliver, IInv, TypeOK
  <2>3. wire' \subseteq {q \in Requests : sender'[q] # "none"}
    BY <1>1 DEF Deliver, IInv, TypeOK
  <2> QED BY <1>1, <2>2, <2>3
          DEF Deliver, evictVars, IInv, TypeOK, Settled, ExportLacksNothing
<1>2. CASE Sender(r)
  <2>1. SenderEnds(r) /\ UNCHANGED <<recorded, creator, evictVars, wire, inbox>>
    BY <1>2 DEF Sender, Answered, TimesOut
  <2> QED BY <2>1 DEF SenderEnds, evictVars, IInv, TypeOK, Settled, ExportLacksNothing
<1> QED BY <1>1, <1>2

LEMMA NextIInv == IInv /\ [Next]_vars => IInv'
<1> SUFFICES ASSUME IInv, [Next]_vars PROVE IInv'
  OBVIOUS
<1>1. CASE Record
  BY <1>1, BoundAssumption
     DEF Record, evictVars, networkVars, IInv, TypeOK, Settled, ExportLacksNothing
<1>2. CASE AnnounceStart
  <2> DEFINE R == {r \in Posts : r.by = Creator}
  <2>1. R \in SUBSET Requests /\ Start(R)
    BY <1>2 DEF AnnounceStart, Send, Requests
  <2>2. /\ sender' \in [Requests -> {"none", "waiting", "ended"}]
        /\ wire' \subseteq {r \in Requests : sender'[r] # "none"}
        /\ inbox' \in [Urls \cup {ExportUrl} -> Seq(Evictors \cup {Creator})]
    BY <2>1, StartType DEF IInv
  <2> QED BY <1>2, <2>2 DEF AnnounceStart, evictVars, IInv, TypeOK, Settled, ExportLacksNothing
<1>3. CASE \E e \in Evictors : Evict(e)
  BY <1>3, EvictIInv
<1>4. CASE \E r \in Requests : Deliver(r) \/ Sender(r)
  BY <1>4, RequestIInv
<1>5. CASE UNCHANGED vars
  BY <1>5 DEF vars, evictVars, networkVars, IInv, TypeOK, Settled, ExportLacksNothing
<1> QED BY <1>1, <1>2, <1>3, <1>4, <1>5 DEF Next

LEMMA Inductive == Spec => []IInv
BY InitIInv, NextIInv, PTL DEF Spec

\* Every variable keeps its type; in particular only what a goroutine sent is on the wire
\* (webhook.go:45-49).
THEOREM ReportsTypeCorrect == Spec => []TypeOK
<1>1. IInv => TypeOK
  BY DEF IInv
<1> QED BY <1>1, Inductive, PTL

\* However many teardowns of a session run, and however they interleave with what still
\* records, each export has all that was recorded when the session left the store
\* (server.go:143, server.go:170).
THEOREM ExportsAreComplete == Spec => []ExportLacksNothing
<1>1. IInv => ExportLacksNothing
  BY DEF IInv
<1> QED BY <1>1, Inductive, PTL
=============================================================================
