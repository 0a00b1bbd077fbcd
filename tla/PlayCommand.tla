---------------------------- MODULE PlayCommand ----------------------------
(***************************************************************************)
(* cternal play (src/cmd/cternal/play.go) and Player.Play                  *)
(* (src/internal/recorder/player.go): the file is loaded once and its rows *)
(* are written with the delays between them, once or in a loop, until a    *)
(* signal closes done, which is looked at during a delay and after a pass. *)
(* The speed is a factor of the delays and left out.                       *)
(***************************************************************************)
EXTENDS Recording

VARIABLES
  player,       \* "off", "row", "delay" or "exited"
  loop,         \* --loop
  tape,         \* the rows that were loaded
  position,     \* rows written in this pass
  delay,        \* the delay the player waits for
  done,         \* done is closed
  played        \* how it ended: "no", "all", "interrupted" or "error"

playVars == <<player, loop, tape, position, delay, done, played>>

PlayInit ==
  /\ player = "off"
  /\ loop = FALSE
  /\ tape = <<>>
  /\ position = 0
  /\ delay = 0
  /\ done = FALSE
  /\ played = "no"

PlayStep(from, to) == player = from /\ player' = to

LoadFile ==
  /\ file # <<>> /\ Loads(file[1])
  /\ PlayStep("off", "row")
  /\ tape' = LoadCast(file[1])
  /\ loop' \in BOOLEAN
  /\ UNCHANGED <<now, events, log, file, position, delay, done, played>>

LoadFails ==
  /\ file # <<>> /\ ~Loads(file[1])
  /\ PlayStep("off", "exited")
  /\ played' = "error"
  /\ UNCHANGED <<now, events, log, file, loop, tape, position, delay, done>>

StopPlay ==
  /\ player \in {"row", "delay"} /\ ~done
  /\ done' = TRUE
  /\ UNCHANGED <<now, events, log, file, player, loop, tape, position, delay, played>>

NextDelay == Gap(tape, position + 1)

StartDelay ==
  /\ position < Len(tape) /\ NextDelay > 0
  /\ PlayStep("row", "delay")
  /\ delay' = NextDelay
  /\ UNCHANGED <<now, events, log, file, loop, tape, position, done, played>>

\* The row is written, after its delay if it has one; the select may take either branch when
\* the delay and done come together.
ShowRow ==
  /\ \/ PlayStep("delay", "row")
     \/ position < Len(tape) /\ NextDelay <= 0 /\ PlayStep("row", "row")
  /\ position' = position + 1
  /\ UNCHANGED <<now, events, log, file, loop, tape, delay, done, played>>

\* Standard output is closed.
ShowFails ==
  /\ position < Len(tape)
  /\ player = "delay" \/ NextDelay <= 0
  /\ player \in {"row", "delay"} /\ player' = "exited"
  /\ played' = "error"
  /\ UNCHANGED <<now, events, log, file, loop, tape, position, delay, done>>

DelayStopped ==
  /\ done
  /\ PlayStep("delay", "exited")
  /\ played' = "interrupted"
  /\ UNCHANGED <<now, events, log, file, loop, tape, position, delay, done>>

\* Mutant: done is looked at during delays only.
PassEndsUnchecked ==
  /\ position = Len(tape)
  /\ PlayStep("row", IF loop THEN "row" ELSE "exited")
  /\ played' = IF loop THEN played ELSE "all"
  /\ position' = IF loop THEN 0 ELSE position
  /\ UNCHANGED <<now, events, log, file, loop, tape, delay, done>>

\* The end of a pass.
PassEnds ==
  /\ position = Len(tape)
  /\ PlayStep("row", IF loop /\ ~done THEN "row" ELSE "exited")
  /\ played' = IF done THEN "interrupted" ELSE IF loop THEN played ELSE "all"
  /\ position' = IF loop /\ ~done THEN 0 ELSE position
  /\ UNCHANGED <<now, events, log, file, loop, tape, delay, done>>

Play == StartDelay \/ ShowRow \/ DelayStopped \/ PassEnds

PlayNext == LoadFile \/ LoadFails \/ StopPlay \/ ShowFails \/ Play
-----------------------------------------------------------------------------
(* Properties *)

PlayTypeOK ==
  /\ player \in {"off", "row", "delay", "exited"}
  /\ loop \in BOOLEAN
  /\ position \in 0 .. Len(tape)
  /\ delay \in Nat
  /\ done \in BOOLEAN
  /\ played \in {"no", "all", "interrupted", "error"}

\* A signal ends the playback, in a loop too, whatever the delays are.
SignalEndsPlay == done ~> player = "exited"
=============================================================================
