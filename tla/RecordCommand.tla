--------------------------- MODULE RecordCommand ---------------------------
(***************************************************************************)
(* cternal record (src/cmd/cternal/record.go): a goroutine moves the       *)
(* output of the shell to the screen, another moves the keyboard to the    *)
(* shell, both record, and the main goroutine waits for the context to be  *)
(* cancelled, restores the terminal and writes the file.  Nobody waits for *)
(* the two goroutines; they end with the process.                          *)
(***************************************************************************)
EXTENDS Recording

CONSTANTS
  StartSize,    \* size of the terminal when the command starts
  NewSizes,     \* sizes it may be given later
  MaxOutput,    \* bound: chunks the shell prints
  MaxKeys,      \* bound: reads of the keyboard
  MaxWinch      \* bound: resize events

ASSUME RecordAssumption == MaxOutput \in Nat /\ MaxKeys \in Nat /\ MaxWinch \in Nat

VARIABLES
  main,         \* "off", "waiting", "restored", "snapped" or "exited"
  terminal,     \* "cooked" or "raw"
  canceller,    \* who cancelled the context: "nobody", "stream", "stdin" or "signal"
  shell,        \* "running", "ended" or "lost"
  printed,      \* chunks the shell has printed
  output,       \* goroutine container -> stdout: "read", "record", "show" or "stopped"
  shown,        \* the chunk it has in hand, or the last one
  screen,       \* chunks on the screen
  atStop,       \* chunks on the screen when the context was cancelled (history)
  keyboard,     \* goroutine stdin -> container: "read", "record", "write" or "stopped"
  keys,         \* reads of the keyboard so far
  snapshot,     \* the main goroutine's copy of the events
  written       \* how WriteFile ended: "no", "yes" or "failed"

outputVars == <<shell, printed, output, shown, screen>>
keyVars == <<keyboard, keys>>
mainVars == <<main, terminal, snapshot, written>>
recordVars == <<mainVars, canceller, atStop, outputVars, keyVars>>

RecordInit ==
  /\ main = "off"
  /\ terminal = "cooked"
  /\ canceller = "nobody"
  /\ shell = "running"
  /\ printed = 0
  /\ output = "read"
  /\ shown = 0
  /\ screen = <<>>
  /\ atStop = 0
  /\ keyboard = "read"
  /\ keys = 0
  /\ snapshot = <<>>
  /\ written = "no"

\* Exec, MakeRaw (which fails if stdin is no terminal), and the goroutines start.
StartRecord ==
  /\ main = "off"
  /\ main' = "waiting"
  /\ terminal' \in {"raw", "cooked"}
  /\ UNCHANGED <<now, events, log, file, canceller, atStop, outputVars, keyVars, snapshot, written>>

Alive == main \notin {"off", "exited"}

\* cancel(): only the first call counts.
Cancel(who) ==
  /\ canceller' = IF canceller = "nobody" THEN who ELSE canceller
  /\ atStop' = IF canceller = "nobody" THEN Len(screen) ELSE atStop

\* SIGTERM, or SIGINT, which the keyboard sends only while the terminal is cooked.
Signalled ==
  /\ Alive /\ canceller = "nobody"
  /\ Cancel("signal")
  /\ UNCHANGED <<now, events, log, file, mainVars, outputVars, keyVars>>

-----------------------------------------------------------------------------
(* The shell and its output *)

ShellPrints ==
  /\ Alive /\ shell = "running" /\ printed < MaxOutput
  /\ printed' = printed + 1
  /\ UNCHANGED <<now, events, log, file, mainVars, canceller, atStop, shell, output, shown, screen,
                 keyVars>>

\* It exits, or the connection to it is lost.
ShellEnds ==
  /\ Alive /\ shell = "running"
  /\ shell' \in {"ended", "lost"}
  /\ UNCHANGED <<now, events, log, file, mainVars, canceller, atStop, printed, output, shown, screen,
                 keyVars>>

OutputStep(from, to) == Alive /\ output = from /\ output' = to

\* Mutant: a Read without data is taken for a chunk.
ReadNothing ==
  /\ OutputStep("read", "record")
  /\ shown <= printed
  /\ shown' = shown + 1
  /\ UNCHANGED <<now, events, log, file, mainVars, canceller, atStop, shell, printed, screen, keyVars>>

ReadOutput ==
  /\ OutputStep("read", "record")
  /\ shown < printed
  /\ shown' = shown + 1
  /\ UNCHANGED <<now, events, log, file, mainVars, canceller, atStop, shell, printed, screen, keyVars>>

RecordShown ==
  /\ OutputStep("record", "show")
  /\ Add("o", shown)
  /\ UNCHANGED <<now, log, file, mainVars, canceller, atStop, shell, printed, shown, screen, keyVars>>

Show ==
  /\ OutputStep("show", "read")
  /\ screen' = Append(screen, shown)
  /\ UNCHANGED <<now, events, log, file, mainVars, canceller, atStop, shell, printed, shown, keyVars>>

\* Mutant: a chunk is shown before it is recorded.
ShowFirst ==
  \/ /\ OutputStep("record", "show")
     /\ screen' = Append(screen, shown)
     /\ UNCHANGED <<now, events, log, file, mainVars, canceller, atStop, shell, printed, shown,
                    keyVars>>
  \/ /\ OutputStep("show", "read")
     /\ Add("o", shown)
     /\ UNCHANGED <<now, log, file, mainVars, canceller, atStop, shell, printed, shown, screen,
                    keyVars>>

Deliver == RecordShown \/ Show

StreamOver == shell = "lost" \/ (shell = "ended" /\ shown = printed) \/ canceller # "nobody"

\* Mutant: the end of the stream cancels while the last chunk is still in hand.
ReadEndsEarly ==
  /\ Alive /\ StreamOver /\ canceller = "nobody"
  /\ Cancel("stream")
  /\ UNCHANGED <<now, events, log, file, mainVars, outputVars, keyVars>>

\* Read fails: at the end of the output, when the connection is lost, or, in a pod, because
\* the context is over.
ReadEnds ==
  /\ OutputStep("read", "stopped")
  /\ StreamOver
  /\ Cancel("stream")
  /\ UNCHANGED <<now, events, log, file, mainVars, shell, printed, shown, screen, keyVars>>

-----------------------------------------------------------------------------
(* The keyboard and the terminal *)

KeyStep(from, to) == Alive /\ keyboard = from /\ keyboard' = to

ReadKey ==
  /\ keys < MaxKeys
  /\ KeyStep("read", "record")
  /\ keys' = keys + 1
  /\ UNCHANGED <<now, events, log, file, mainVars, canceller, atStop, outputVars>>

RecordKey ==
  /\ KeyStep("record", "write")
  /\ Add("i", keys)
  /\ UNCHANGED <<now, log, file, mainVars, canceller, atStop, outputVars, keys>>

\* Write, whose error is ignored; it waits as long as nobody takes the key.
WriteKey ==
  /\ KeyStep("write", "read")
  /\ UNCHANGED <<now, events, log, file, mainVars, canceller, atStop, outputVars, keys>>

StdinEnds ==
  /\ KeyStep("read", "stopped")
  /\ Cancel("stdin")
  /\ UNCHANGED <<now, events, log, file, mainVars, outputVars, keys>>

\* SIGWINCH: a goroutine records the new size and passes it on, until the context is over.
Winch(size) ==
  /\ Alive /\ canceller = "nobody"
  /\ Len(SelectSeq(events, LAMBDA e : e.type = "r")) < MaxWinch
  /\ Add("r", size)
  /\ UNCHANGED <<now, log, file, recordVars>>

-----------------------------------------------------------------------------
(* The main goroutine *)

MainStep(from, to) == main = from /\ main' = to

\* Mutant: it waits for the goroutines first.
RestoreJoins ==
  /\ canceller # "nobody"
  /\ output = "stopped" /\ keyboard = "stopped"
  /\ MainStep("waiting", "restored")
  /\ terminal' = "cooked"
  /\ UNCHANGED <<now, events, log, file, canceller, atStop, outputVars, keyVars, snapshot, written>>

Restore ==
  /\ canceller # "nobody"
  /\ MainStep("waiting", "restored")
  /\ terminal' = "cooked"
  /\ UNCHANGED <<now, events, log, file, canceller, atStop, outputVars, keyVars, snapshot, written>>

Snapshot ==
  /\ MainStep("restored", "snapped")
  /\ snapshot' = events
  /\ UNCHANGED <<now, events, log, file, terminal, canceller, atStop, outputVars, keyVars, written>>

\* The file has the size of the start.  Its write may fail and leave the beginning of it.  The
\* process ends, and the goroutines and what they hold with it.
WriteFile ==
  /\ MainStep("snapped", "exited")
  /\ \/ file' = <<CastOf(StartSize, snapshot)>> /\ written' = "yes"
     \/ \E n \in 0 .. Len(Marshal(snapshot)) :
          /\ file' = <<[size |-> StartSize, rows |-> SubSeq(Marshal(snapshot), 1, n)]>>
          /\ written' = "failed"
  /\ output' = "stopped" /\ keyboard' = "stopped"
  /\ events' = <<>> /\ snapshot' = <<>>
  /\ UNCHANGED <<now, log, terminal, canceller, atStop, shell, printed, shown, screen, keys>>

Main == Restore \/ Snapshot \/ WriteFile
OutputLoop == ReadOutput \/ Deliver \/ ReadEnds

RecordNext ==
  \/ StartRecord \/ Signalled \/ ShellPrints \/ ShellEnds \/ OutputLoop
  \/ ReadKey \/ RecordKey \/ WriteKey \/ StdinEnds \/ Main
  \/ \E s \in NewSizes : Winch(s)
-----------------------------------------------------------------------------
(* Properties *)

RecordTypeOK ==
  /\ main \in {"off", "waiting", "restored", "snapped", "exited"}
  /\ terminal \in {"cooked", "raw"}
  /\ canceller \in {"nobody", "stream", "stdin", "signal"}
  /\ shell \in {"running", "ended", "lost"}
  /\ printed \in 0 .. MaxOutput
  /\ output \in {"read", "record", "show", "stopped"}
  /\ shown \in 0 .. printed
  /\ screen \in Seq(1 .. MaxOutput)
  /\ atStop \in 0 .. Len(screen)
  /\ keyboard \in {"read", "record", "write", "stopped"}
  /\ keys \in 0 .. MaxKeys
  /\ written \in {"no", "yes", "failed"}

\* What the user had on the screen when the recording was stopped, whoever stopped it, is in
\* the file, in order; the goroutines run on while it is written (record.go:132).
SeenIsSaved ==
  written = "yes" =>
    /\ Len(file[1].rows) >= atStop
    /\ \A i \in 1 .. Len(file[1].rows) : file[1].rows[i].data = i

\* When the shell ends or the recording is stopped, the command ends, with the terminal as it
\* was, although its goroutines may wait for the keyboard or for the shell for ever.
RecordingEnds ==
  (main = "waiting" /\ (shell # "running" \/ canceller # "nobody"))
    ~> (main = "exited" /\ terminal = "cooked")
=============================================================================
