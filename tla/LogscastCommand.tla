-------------------------- MODULE LogscastCommand --------------------------
(***************************************************************************)
(* cternal logscast (src/cmd/cternal/logscast.go): one goroutine reads the *)
(* container's log to its end, recording each line, and then writes the    *)
(* file.  With --follow the log ends when the container does, or Ctrl+C    *)
(* cancels the context under the reader; without, Ctrl+C ends the process. *)
(***************************************************************************)
EXTENDS Recording

CONSTANT LogSize      \* 220x50

VARIABLES
  follow,       \* --follow
  scan,         \* "off", "scanning", "ended", "exited"
  lines,        \* lines read
  logEpoch,     \* stamp of the first stamped line
  interrupted,  \* Ctrl+C or SIGTERM has come
  connection,   \* the connection the log comes over: "up" or "lost"
  outcome       \* of the command: "none", "saved", "unwritten" or "error"

logscastVars == <<follow, scan, lines, logEpoch, interrupted, connection, outcome>>

LogscastInit ==
  /\ follow \in BOOLEAN
  /\ scan = "off"
  /\ lines = 0
  /\ logEpoch = NoStamp
  /\ interrupted = FALSE
  /\ connection = "up"
  /\ outcome = "none"

ScanStep(from, to) == scan = from /\ scan' = to

StartLogscast ==
  /\ ScanStep("off", "scanning")
  /\ UNCHANGED <<now, events, log, file, follow, lines, logEpoch, interrupted, connection, outcome>>

Interrupt ==
  /\ scan \in {"scanning", "ended"} /\ ~interrupted
  /\ interrupted' = TRUE
  /\ scan' = IF follow THEN scan ELSE "exited"
  /\ outcome' = IF follow THEN outcome ELSE "error"
  /\ UNCHANGED <<now, events, log, file, follow, lines, logEpoch, connection>>

ConnectionLost ==
  /\ scan = "scanning" /\ connection = "up"
  /\ connection' = "lost"
  /\ UNCHANGED <<now, events, log, file, follow, scan, lines, logEpoch, interrupted, outcome>>

\* Lines that were buffered still come when the connection is gone.
ScanLine ==
  LET l == log[lines + 1] IN
  /\ scan = "scanning" /\ lines < Len(log)
  /\ Scannable(l)
  /\ lines' = lines + 1
  /\ logEpoch' = EpochAfter(logEpoch, l)
  /\ AddLine(lines + 1, logEpoch, l)
  /\ UNCHANGED <<now, log, file, follow, scan, interrupted, connection, outcome>>

ScanEnds ==
  /\ lines = Len(log) /\ connection = "up" /\ ~interrupted
  /\ ScanStep("scanning", "ended")
  /\ UNCHANGED <<now, events, log, file, follow, lines, logEpoch, interrupted, connection, outcome>>

ScanBroken ==
  connection = "lost" \/ interrupted \/ (lines < Len(log) /\ ~Scannable(log[lines + 1]))

\* Mutant: the scanner's error is not looked at.
ScanFailsUnseen ==
  /\ ScanBroken
  /\ ScanStep("scanning", "ended")
  /\ UNCHANGED <<now, events, log, file, follow, lines, logEpoch, interrupted, connection, outcome>>

\* sc.Err(): the connection, the cancelled context, or a line that is too long.
ScanFails ==
  /\ ScanBroken
  /\ ScanStep("scanning", "exited")
  /\ outcome' = "error"
  /\ UNCHANGED <<now, events, log, file, follow, lines, logEpoch, interrupted, connection>>

SaveLog ==
  /\ ScanStep("ended", "exited")
  /\ \/ file' = <<CastOf(LogSize, events)>> /\ outcome' = "saved"
     \/ \E n \in 0 .. Len(Marshal(events)) :
          /\ file' = <<[size |-> LogSize, rows |-> SubSeq(Marshal(events), 1, n)]>>
          /\ outcome' = "unwritten"
  /\ events' = <<>>
  /\ UNCHANGED <<now, log, follow, lines, logEpoch, interrupted, connection>>

LogscastNext ==
  \/ StartLogscast \/ Interrupt \/ ConnectionLost
  \/ ScanLine \/ ScanEnds \/ ScanFails \/ SaveLog
-----------------------------------------------------------------------------
(* Properties *)

LogscastTypeOK ==
  /\ follow \in BOOLEAN
  /\ scan \in {"off", "scanning", "ended", "exited"}
  /\ lines \in 0 .. Len(log)
  /\ logEpoch \in 0 .. MaxStamp
  /\ interrupted \in BOOLEAN
  /\ connection \in {"up", "lost"}
  /\ outcome \in {"none", "saved", "unwritten", "error"}

\* A command that says it has saved the log has saved all of it: no end of the reading but the
\* log's own leads to a file.
WholeLogOrNothing ==
  outcome = "saved" =>
    /\ Len(file[1].rows) = Len(log)
    /\ \A i \in 1 .. Len(log) : file[1].rows[i].data = i
=============================================================================
