----------------------------- MODULE TTLManager -----------------------------
(***************************************************************************)
(* session.TTLManager: one countdown per disconnected session              *)
(* (src/internal/session/ttl.go).  `timers' is the manager's map; `timer'  *)
(* is the state of each time.Timer that AfterFunc may return.  Stop on a   *)
(* timer that has already fired changes nothing and returns false, and     *)
(* firing starts the callback on a goroutine of its own, which does not    *)
(* hold the manager's mutex: that is why the two variables can disagree.   *)
(***************************************************************************)
EXTENDS Integers

CONSTANTS
  Sessions,     \* keys of the map
  Timers,       \* the time.Timer values
  NoTimer       \* a key that is absent from the map

VARIABLES
  timers,       \* TTLManager.timers, [Sessions -> Timers \cup {NoTimer}]
  timer         \* [Timers -> {"unset", "armed", "stopped", "fired"}]

NewTTLManager ==
  /\ timers = [s \in Sessions |-> NoTimer]
  /\ timer = [t \in Timers |-> "unset"]

\* t.Stop() returns true.
Stoppable(t) == t \in Timers /\ timer[t] = "armed"

\* The timers once Stop has been called on t.
AfterStop(t) == [u \in Timers |-> IF u = t /\ Stoppable(u) THEN "stopped" ELSE timer[u]]

\* Mutant: a restarted countdown leaves the old timer running.
StartTTLKeepOld(s, t) ==
  /\ timer[t] = "unset"
  /\ timer' = [timer EXCEPT ![t] = "armed"]
  /\ timers' = [timers EXCEPT ![s] = t]

\* StartTTL(s): stop the timer in the map, if any, and put the new one, t, there.
StartTTL(s, t) ==
  /\ timer[t] = "unset"
  /\ timer' = [AfterStop(timers[s]) EXCEPT ![t] = "armed"]
  /\ timers' = [timers EXCEPT ![s] = t]

\* CancelTTL(s): the entry goes only if the timer was stopped in time.
CancelTTL(s) ==
  /\ timer' = AfterStop(timers[s])
  /\ timers' = IF Stoppable(timers[s]) THEN [timers EXCEPT ![s] = NoTimer] ELSE timers

\* Remove(s): stop the timer, if any, and delete the entry in every case.
Remove(s) ==
  /\ timer' = AfterStop(timers[s])
  /\ timers' = [timers EXCEPT ![s] = NoTimer]

\* The countdown of t ends: its callback starts to run.
Fire(t) ==
  /\ timer[t] = "armed"
  /\ timer' = [timer EXCEPT ![t] = "fired"]
  /\ UNCHANGED timers

\* The last statement of the callback deletes the entry, whatever it holds by then.
Forget(s) ==
  /\ timers' = [timers EXCEPT ![s] = NoTimer]
  /\ UNCHANGED timer
=============================================================================
