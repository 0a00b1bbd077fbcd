--------------------------- MODULE SessionRegistry ---------------------------
(***************************************************************************)
(* What the server promises of its sessions, whoever creates, joins,       *)
(* leaves, deletes or outlives them.  A session is absent, then live, then *)
(* gone, and never comes back.  At most MaxSessions are live.  The         *)
(* container stream behind a session is acquired before it is registered   *)
(* and closed before it is dropped; a session that could not be registered *)
(* gives its stream back; and the end of every session is notified.        *)
(***************************************************************************)
EXTENDS Integers, FiniteSets

CONSTANTS Sessions, MaxSessions

VARIABLES
  phase,        \* [Sessions -> {"absent", "live", "gone"}]
  stream,       \* [Sessions -> {"none", "open", "closed"}]
  notified      \* the sessions whose end has been notified

vars == <<phase, stream, notified>>

Live == {s \in Sessions : phase[s] = "live"}

Init ==
  /\ phase = [s \in Sessions |-> "absent"]
  /\ stream = [s \in Sessions |-> "none"]
  /\ notified = {}

Acquire(s) ==
  /\ phase[s] = "absent" /\ stream[s] = "none"
  /\ stream' = [stream EXCEPT ![s] = "open"]
  /\ UNCHANGED <<phase, notified>>

Register(s) ==
  /\ phase[s] = "absent" /\ stream[s] # "closed"
  /\ MaxSessions > 0 => Cardinality(Live) < MaxSessions
  /\ phase' = [phase EXCEPT ![s] = "live"]
  /\ UNCHANGED <<stream, notified>>

GiveUp(s) ==
  /\ phase[s] = "absent" /\ stream[s] = "open"
  /\ stream' = [stream EXCEPT ![s] = "closed"]
  /\ UNCHANGED <<phase, notified>>

CloseStream(s) ==
  /\ phase[s] = "live" /\ stream[s] = "open"
  /\ stream' = [stream EXCEPT ![s] = "closed"]
  /\ UNCHANGED <<phase, notified>>

Drop(s) ==
  /\ phase[s] = "live" /\ stream[s] # "open"
  /\ phase' = [phase EXCEPT ![s] = "gone"]
  /\ UNCHANGED <<stream, notified>>

Notify(s) ==
  /\ phase[s] = "gone" /\ s \notin notified
  /\ notified' = notified \cup {s}
  /\ UNCHANGED <<phase, stream>>

Next ==
  \E s \in Sessions :
    Acquire(s) \/ Register(s) \/ GiveUp(s) \/ CloseStream(s) \/ Drop(s) \/ Notify(s)

\* A stream that was acquired ends up behind a live session or is given back.
Settle(s) == stream[s] = "open" /\ (Register(s) \/ GiveUp(s))

Fairness == \A s \in Sessions : WF_vars(Settle(s)) /\ WF_vars(Notify(s))

Spec == Init /\ [][Next]_vars /\ Fairness
=============================================================================
