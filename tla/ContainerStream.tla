--------------------------- MODULE ContainerStream ---------------------------
(***************************************************************************)
(* What runtime.Stream and the reader of Runtime.Logs                      *)
(* (src/internal/runtime/interface.go) promise to whoever reads them, be   *)
(* it one goroutine or several: the output comes in order and without a    *)
(* gap, each chunk to one caller, Read never waits while there is          *)
(* something to return, and it fails only when everything has been         *)
(* delivered or when the connection has been cut.                          *)
(***************************************************************************)
EXTENDS Integers

CONSTANTS
  MaxOutput,    \* bound: chunks the container prints
  Readers       \* the goroutines that read

VARIABLES
  printed,      \* chunks the container has printed
  delivered,    \* chunks Read has returned
  source,       \* what is printing: "running" or "exited"
  cut,          \* the connection was closed or lost
  calling       \* readers that are in a call of Read

vars == <<printed, delivered, source, cut, calling>>

Init ==
  /\ printed = 0
  /\ delivered = 0
  /\ source = "running"
  /\ cut = FALSE
  /\ calling = {}

Output ==
  /\ source = "running" /\ printed < MaxOutput
  /\ printed' = printed + 1
  /\ UNCHANGED <<delivered, source, cut, calling>>

Exit ==
  /\ source = "running"
  /\ source' = "exited"
  /\ UNCHANGED <<printed, delivered, cut, calling>>

\* What prints may end with the connection.
Cut ==
  /\ cut' = TRUE
  /\ source' \in {source, "exited"}
  /\ UNCHANGED <<printed, delivered, calling>>

CallRead(r) ==
  /\ r \notin calling
  /\ calling' = calling \cup {r}
  /\ UNCHANGED <<printed, delivered, source, cut>>

\* Read returns the next chunk; the reader may call it again at once.
Deliver(r) ==
  /\ r \in calling /\ delivered < printed
  /\ delivered' = delivered + 1
  /\ calling' \in {calling, calling \ {r}}
  /\ UNCHANGED <<printed, source, cut>>

\* Read returns an error.
Fail(r) ==
  /\ r \in calling
  /\ cut \/ (source = "exited" /\ delivered = printed)
  /\ calling' = calling \ {r}
  /\ UNCHANGED <<printed, delivered, source, cut>>

Next ==
  \/ Output \/ Exit \/ Cut
  \/ \E r \in Readers : CallRead(r) \/ Deliver(r) \/ Fail(r)

Spec == Init /\ [][Next]_vars /\ \A r \in Readers : WF_vars(Deliver(r) \/ Fail(r))
=============================================================================
