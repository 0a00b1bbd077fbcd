------------------------------ MODULE Recording ------------------------------
(***************************************************************************)
(* recorder.Recorder (src/internal/recorder/recorder.go), and the way both *)
(* readers of a container log put its lines into one                       *)
(* (src/internal/api/ws.go, src/cmd/cternal/logscast.go).  Each method     *)
(* holds the mutex throughout, the reading of the clock included.  The     *)
(* cast file is the one the recorded session ends in.                      *)
(***************************************************************************)
EXTENDS Cast

CONSTANTS
  MaxTime,      \* bound on the clock
  MaxLines,     \* bound on the length of a log
  MaxStamp,     \* bound on the stamps of its lines
  LineSizes     \* what its lines may be: "short", "long" (over 64 KiB), "huge" (over 1 MiB)

ASSUME RecordingAssumption == MaxTime \in Nat /\ MaxLines \in Nat /\ MaxStamp \in Nat

VARIABLES
  now,          \* ticks since the recorder was made
  events,       \* what has been recorded
  log,          \* the container's log, a sequence of [stamp, size]
  file          \* the cast file: <<>> when there is none, <<cast>> else

NoStamp == 0    \* the stamp of a log line without a time in front, and an epoch not yet set

Logs == UNION {[1 .. n -> [stamp : 0 .. MaxStamp, size : LineSizes]] : n \in 0 .. MaxLines}

Init ==
  /\ now = 0
  /\ events = <<>>
  /\ log \in Logs
  /\ file = <<>>

Tick == now < MaxTime /\ now' = now + 1 /\ UNCHANGED <<events, log, file>>

\* AddAt is given the time, Add reads the clock.  `long' marks data whose JSON exceeds 64 KiB.
AddAt(type, data, long, elapsed) ==
  events' = Append(events, [at |-> elapsed, type |-> type, data |-> data, long |-> long])
Add(type, data) == AddAt(type, data, FALSE, now)

\* The first line with a stamp sets the epoch of its reader.
EpochAfter(epoch, l) == IF epoch = NoStamp THEN l.stamp ELSE epoch

\* Mutant: every line sets the epoch.
LineTimeMoving(epoch, l) == IF l.stamp = NoStamp THEN now ELSE 0

\* Its lines are timed by their stamps from then on, 0 for one that has none, and by the clock
\* before.
LineTime(epoch, l) ==
  IF EpochAfter(epoch, l) = NoStamp THEN now
  ELSE IF l.stamp = NoStamp THEN 0 ELSE l.stamp - EpochAfter(epoch, l)

\* A reader with this epoch records the line; bufio.Scanner refuses one of more than 1 MiB.
Scannable(l) == l.size # "huge"
AddLine(data, epoch, l) == AddAt("o", data, l.size = "long", LineTime(epoch, l))
=============================================================================
