---------------------------- MODULE CommandOutput ----------------------------
(***************************************************************************)
(* The output of a command (internal/osrun/run.go: Tail, RunRaw): the last *)
(* bytes of what it has written, and what the caller gets in the end.      *)
(***************************************************************************)
EXTENDS Integers, Sequences

CONSTANTS
  Bytes,     \* what a command writes
  Middle,    \* the bytes that do not start a character of UTF-8
  Chunks,    \* what it may write at once
  Capacity,  \* bytes kept (8 MiB of stdout)
  MaxOutput  \* bound: bytes written

ASSUME TailAssumption == Chunks \subseteq Seq(Bytes) /\ {Capacity, MaxOutput} \subseteq Nat

VARIABLES
  output,     \* all that the command has written so far
  kept,       \* Tail.Bytes
  truncated,  \* Tail.Truncated
  command,    \* "running", or how the command ended
  answer      \* what RunRaw returned: [text, error]

tailVars == <<output, kept, truncated, command, answer>>

LastOf(s, n) == SubSeq(s, Len(s) - n + 1, Len(s))

TailInit ==
  /\ output = <<>> /\ kept = <<>> /\ truncated = FALSE
  /\ command = "running" /\ answer = [text |-> <<>>, error |-> FALSE]

-----------------------------------------------------------------------------
\* What is left of a chunk that is longer than the capacity.
Piece(p) == IF Len(p) > Capacity THEN LastOf(p, Capacity) ELSE p

\* How many of the bytes that were kept have to go.
Excess(p) == Len(kept) + Len(Piece(p)) - Capacity

\* Mutant: a long chunk that meets an empty tail does not count as cut.
TruncatesExcess(p) == truncated \/ Excess(p) > 0

Truncates(p) == truncated \/ Len(p) > Capacity \/ Excess(p) > 0

\* Mutant: the tail is cut to its capacity only after the chunk is added.
SurvivesTooLong(p) == IF Excess(p) > 1 THEN SubSeq(kept, Excess(p), Len(kept)) ELSE kept

\* What is left of the bytes that were kept.
Survives(p) == IF Excess(p) > 0 THEN SubSeq(kept, Excess(p) + 1, Len(kept)) ELSE kept

\* Tail.Write
Write(p) ==
  /\ command = "running" /\ Len(output) + Len(p) <= MaxOutput
  /\ output' = output \o p
  /\ kept' = Survives(p) \o Piece(p)
  /\ truncated' = Truncates(p)
  /\ UNCHANGED <<command, answer>>

\* Tail.Text drops what is left of a character that was cut in two.
Starts == {i \in DOMAIN kept : kept[i] \notin Middle}
Text ==
  IF Starts = {} THEN <<>>
  ELSE LET first == CHOOSE i \in Starts : \A j \in Starts : i <= j
       IN  SubSeq(kept, first, Len(kept))

\* cmd.Run returns: the command exits with status 0, fails, is killed because
\* its context is closed, or is given up because its output stays open.
Exit(how) ==
  /\ command = "running" /\ command' = how
  /\ answer' = [text  |-> IF truncated THEN <<>> ELSE Text,
                error |-> truncated \/ how # "ok"]
  /\ UNCHANGED <<output, kept, truncated>>

-----------------------------------------------------------------------------
TailNext == (\E p \in Chunks : Write(p)) \/ (\E how \in {"ok", "failed"} : Exit(how))

TailSpec == TailInit /\ [][TailNext]_tailVars

-----------------------------------------------------------------------------
TailTypeOK ==
  /\ output \in Seq(Bytes) /\ kept \in Seq(Bytes) /\ truncated \in BOOLEAN
  /\ command \in {"running", "ok", "failed"}
  /\ answer \in [text : Seq(Bytes), error : BOOLEAN]

\* Whatever the sizes of the chunks, what is kept is the end of what was
\* written, as much of it as fits, and it counts as cut exactly if something
\* is missing (osrun/run.go: Tail.Write).
KeepsTheEnd ==
  /\ Len(kept) = IF Len(output) <= Capacity THEN Len(output) ELSE Capacity
  /\ \A i \in DOMAIN kept : kept[i] = output[Len(output) - Len(kept) + i]
  /\ truncated <=> Len(output) > Capacity

\* A caller never takes a fragment for the output: it gets all that a command
\* wrote, or nothing and an error (osrun/run.go: "A tail is not a complete
\* response").  Output that starts in the middle of a character is no text.
NoFragment ==
  command # "running" /\ (output # <<>> => output[1] \notin Middle) =>
    \/ answer.text = output /\ (answer.error <=> command # "ok")
    \/ answer.text = <<>> /\ answer.error
=============================================================================
