------------------------------- MODULE Casts -------------------------------
(***************************************************************************)
(* The life of a cast file: it is downloaded from a session of the server, *)
(* or written by `cternal record' or `cternal logscast', and then played   *)
(* with `cternal play'.  One of the three makes it in each behaviour; they *)
(* share the recorder's code and nothing else.                             *)
(***************************************************************************)
EXTENDS SessionRecording, RecordCommand, LogscastCommand, PlayCommand

CONSTANT Makers       \* who may make the file

ASSUME MakersAssumption == Makers \subseteq {"session", "record", "logscast"}

VARIABLE maker        \* "session", "record", "logscast", or "nobody" any more

vars == <<now, events, log, file, maker, sessionVars, recordVars, logscastVars, playVars>>

\* A log matters only to those who read one; that of a session has short lines here.
MakerInit ==
  /\ maker \in Makers
  /\ maker = "session" => \A i \in 1 .. Len(log) : log[i].size = "short"
  /\ maker = "record" \/ mode = "exec" => log = <<>>
  /\ (mode = "none") <=> (maker # "session")
  /\ maker # "logscast" => ~follow

CastsInit == Init /\ SessionInit /\ RecordInit /\ LogscastInit /\ PlayInit /\ MakerInit

Session ==
  /\ maker = "session"
  /\ SessionNext
  /\ UNCHANGED <<maker, recordVars, logscastVars, playVars>>
Record == maker = "record" /\ RecordNext /\ UNCHANGED <<maker, sessionVars, logscastVars, playVars>>
Logscast ==
  maker = "logscast" /\ LogscastNext /\ UNCHANGED <<maker, sessionVars, recordVars, playVars>>

ServerGone == ServerStops /\ maker' = "nobody" /\ UNCHANGED <<recordVars, logscastVars, playVars>>

\* The file is played when its maker has ended; it would be loaded as it is at once, in any case.
Player ==
  /\ maker # "session"
  /\ PlayNext
  /\ UNCHANGED <<maker, sessionVars, recordVars, logscastVars>>

Clock ==
  /\ Tick
  /\ maker # "nobody" /\ player = "off" /\ main # "exited" /\ scan # "exited"
  /\ UNCHANGED <<maker, sessionVars, recordVars, logscastVars, playVars>>

Next == Session \/ ServerGone \/ Record \/ Logscast \/ Player \/ Clock

Frame(A) == A /\ UNCHANGED <<maker, sessionVars, logscastVars, playVars>>

(***************************************************************************)
(* Fairness: the goroutines of the commands run, the screen takes what it  *)
(* is given, and delays end.  Nothing is assumed of the keyboard, of the   *)
(* shell's input or of signals.                                            *)
(***************************************************************************)
Fairness ==
  /\ WF_vars(Frame(OutputLoop)) /\ WF_vars(Frame(Main))
  /\ WF_vars(Play /\ UNCHANGED <<maker, sessionVars, recordVars, logscastVars>>)

Spec == CastsInit /\ [][Next]_vars /\ Fairness
-----------------------------------------------------------------------------
(* Properties *)

TypeOK ==
  /\ now \in 0 .. MaxTime
  /\ log \in Logs
  /\ SessionTypeOK /\ RecordTypeOK /\ LogscastTypeOK /\ PlayTypeOK

\* Making a cast keeps the output and its order; a gap that is longer than the idle limit
\* becomes the limit and every other gap stays what it was, also where time runs backwards
\* between the readers of a log (cast.go:55).
CastKeepsGaps ==
  LET outs == Outputs(events)  rows == Marshal(events) IN
  /\ Len(rows) = Len(outs)
  /\ \A i \in 1 .. Len(rows) :
       /\ rows[i].data = outs[i].data
       /\ IF IdleLimit > 0 /\ Gap(outs, i) > IdleLimit
          THEN Gap(rows, i) = IdleLimit ELSE Gap(rows, i) = Gap(outs, i)

\* From the shell to the replay: what `record' saved of a shell that ran to its end and `play'
\* showed to the end is all that the shell printed and all that was on the screen, in order.
ReplayIsTheScreen ==
  maker = "record" /\ canceller = "stream" /\ shell = "ended" /\ written = "yes" /\ played = "all" =>
    /\ Len(tape) = printed /\ Len(screen) = printed
    /\ \A i \in 1 .. printed : tape[i].data = i /\ screen[i] = i
=============================================================================
