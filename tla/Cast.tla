-------------------------------- MODULE Cast --------------------------------
(***************************************************************************)
(* Asciicast files: how events become a cast (Marshal,                     *)
(* src/internal/recorder/cast.go; the size, src/internal/api/server.go)    *)
(* and how `cternal play' reads one back (loadCast,                        *)
(* src/cmd/cternal/play.go).  An event is [at, type, data]: "o" for        *)
(* output, "i" for input, "r" for a resize.  Times are in ticks.  A cast   *)
(* is its size and its rows; the JSON that carries them is left out,       *)
(* except that a line of it can be too long for the scanner of loadCast.   *)
(***************************************************************************)
EXTENDS Integers, Sequences, SequencesExt

CONSTANTS
  IdleLimit,    \* gaps are clamped to this; 0: they are not
  DefaultSize   \* 80x24

ASSUME LimitAssumption == IdleLimit \in Nat

\* The loop over the events passes over all but the output.
Outputs(events) ==
  LET outs[i \in 0 .. Len(events)] ==
        IF i = 0 THEN <<>>
        ELSE IF events[i].type = "o" THEN Append(outs[i - 1], events[i]) ELSE outs[i - 1]
  IN  outs[Len(events)]

\* Time from the row before to row i, before and after clamping.  Time may run backwards.
Gap(rows, i) == rows[i].at - (IF i = 1 THEN 0 ELSE rows[i - 1].at)
Clamp(gap) == IF IdleLimit > 0 /\ gap > IdleLimit THEN IdleLimit ELSE gap

\* Mutant: the gap is taken from the clamped time of the row before.
MarshalFromCursor(events) ==
  LET outs == Outputs(events)
      cursor[i \in 0 .. Len(outs)] ==
        IF i = 0 THEN 0 ELSE cursor[i - 1] + Clamp(outs[i].at - cursor[i - 1])
  IN  [i \in 1 .. Len(outs) |-> [outs[i] EXCEPT !.at = cursor[i]]]

\* Mutant: the rows are sorted by time.
MarshalSorted(events) ==
  LET outs == SortSeq(Outputs(events), LAMBDA a, b : a.at < b.at)
      cursor[i \in 0 .. Len(outs)] ==
        IF i = 0 THEN 0 ELSE cursor[i - 1] + Clamp(Gap(outs, i))
  IN  [i \in 1 .. Len(outs) |-> [outs[i] EXCEPT !.at = cursor[i]]]

\* The rows of the file: the output, each gap clamped on its own.
Marshal(events) ==
  LET outs == Outputs(events)
      cursor[i \in 0 .. Len(outs)] ==
        IF i = 0 THEN 0 ELSE cursor[i - 1] + Clamp(Gap(outs, i))
  IN  [i \in 1 .. Len(outs) |-> [outs[i] EXCEPT !.at = cursor[i]]]

\* The size is that of the first resize event.
Size(events) ==
  LET resizes == {i \in 1 .. Len(events) : events[i].type = "r"}
  IN  IF resizes = {} THEN DefaultSize ELSE events[Min(resizes)].data

CastOf(size, events) == [size |-> size, rows |-> Marshal(events)]

\* loadCast reads the rows again, or fails on a line of more than 64 KiB.
Loads(cast) == \A i \in 1 .. Len(cast.rows) : ~cast.rows[i].long
LoadCast(cast) == cast.rows
=============================================================================
