----------------------------- MODULE DiffAnchor -----------------------------
(***************************************************************************)
(* May a finding be a comment on a line of the diff?  (git.go: diffAnchor) *)
(* The patch of one file is read line by line, as git and GitHub write it: *)
(* a header, then hunks of kept, removed and added lines.  at is where the *)
(* writer of the patch really is in the two files; the code only knows the *)
(* numbers of the hunk headers and counts from there.                      *)
(***************************************************************************)
EXTENDS Naturals

CONSTANT MaxLine  \* bound: lines of a file

ASSUME AnchorAssumption == MaxLine \in Nat

VARIABLES
  query,    \* the finding: [line, side]
  at,       \* the next line of the old and of the new file, as git knows
  writing,  \* "header", or in a hunk with "both" sides, of lines only "added"
            \* or only "removed"
  phase,    \* "ask", "scan", "end"
  old, newLine, inHunk,  \* the variables of diffAnchor
  result,   \* what it returns
  seen      \* the patch has shown the line that is asked for

writer     == <<at, writing>>
scanner    == <<old, newLine, inHunk>>
anchorVars == <<query, writer, phase, scanner, result, seen>>

AnchorInit ==
  /\ query = [line |-> 0, side |-> "RIGHT"] /\ phase = "ask"
  /\ at = [old |-> 1, new |-> 1] /\ writing = "header"
  /\ old = 0 /\ newLine = 0 /\ inHunk = FALSE
  /\ result = FALSE /\ seen = FALSE

\* Finding.validate: a line is at least 1.
Ask(line, side) ==
  /\ phase = "ask" /\ phase' = "scan"
  /\ query' = [line |-> line, side |-> side]
  /\ UNCHANGED <<writer, scanner, result, seen>>

\* "diff --git", "---", "+++" and the like come before the first hunk.
Header ==
  /\ phase = "scan" /\ writing = "header"
  /\ inHunk' = FALSE
  /\ UNCHANGED <<query, writer, phase, old, newLine, result, seen>>

\* A hunk begins after n lines that are left out.  The header of a side without
\* lines has the number of the line before (0 in an empty file).
Hunk(n, sides) ==
  /\ phase = "scan" /\ at.old + n <= MaxLine + 1 /\ at.new + n <= MaxLine + 1
  /\ at' = [old |-> at.old + n, new |-> at.new + n] /\ writing' = sides
  /\ old' = at'.old - (IF sides = "added" THEN 1 ELSE 0)
  /\ newLine' = at'.new - (IF sides = "removed" THEN 1 ELSE 0)
  /\ inHunk' = TRUE
  /\ UNCHANGED <<query, phase, result, seen>>

\* The finding is on line n of the old or of the new file.
Left(n)  == query = [line |-> n, side |-> "LEFT"]
Right(n) == query = [line |-> n, side |-> "RIGHT"]

\* The line is shown on the sides it is on, and the code compares, then counts.
Found(found) == result' = found /\ phase' = IF found THEN "end" ELSE "scan"

\* Mutant: a kept line counts on the right side only.
KeptOnTheRight ==
  /\ phase = "scan" /\ writing = "both" /\ at.old <= MaxLine /\ at.new <= MaxLine
  /\ at' = [old |-> at.old + 1, new |-> at.new + 1]
  /\ seen' = (seen \/ Left(at.old) \/ Right(at.new))
  /\ inHunk /\ newLine' = newLine + 1
  /\ Found(Left(old) \/ Right(newLine))
  /\ UNCHANGED <<query, writing, old, inHunk>>

Kept ==
  /\ phase = "scan" /\ writing = "both" /\ at.old <= MaxLine /\ at.new <= MaxLine
  /\ at' = [old |-> at.old + 1, new |-> at.new + 1]
  /\ seen' = (seen \/ Left(at.old) \/ Right(at.new))
  /\ inHunk /\ old' = old + 1 /\ newLine' = newLine + 1
  /\ Found(Left(old) \/ Right(newLine))
  /\ UNCHANGED <<query, writing, inHunk>>

Removed ==
  /\ phase = "scan" /\ writing \in {"both", "removed"} /\ at.old <= MaxLine
  /\ at' = [at EXCEPT !.old = @ + 1]
  /\ seen' = (seen \/ Left(at.old))
  /\ inHunk /\ old' = old + 1
  /\ Found(Left(old))
  /\ UNCHANGED <<query, writing, newLine, inHunk>>

Added ==
  /\ phase = "scan" /\ writing \in {"both", "added"} /\ at.new <= MaxLine
  /\ at' = [at EXCEPT !.new = @ + 1]
  /\ seen' = (seen \/ Right(at.new))
  /\ inHunk /\ newLine' = newLine + 1
  /\ Found(Right(newLine))
  /\ UNCHANGED <<query, writing, old, inHunk>>

\* The patch ends.  ("\ No newline at end of file" is neither of these lines
\* and counts nothing; kept lines without text at the very end of a patch never
\* reach the code, because the output of git is trimmed by osrun.Run.)
Over ==
  /\ phase = "scan" /\ phase' = "end"
  /\ UNCHANGED <<query, writer, scanner, result, seen>>

-----------------------------------------------------------------------------
AnchorNext ==
  \/ \E line \in 1..MaxLine, side \in {"LEFT", "RIGHT"} : Ask(line, side)
  \/ Header
  \/ \E n \in 0..MaxLine, sides \in {"both", "added", "removed"} : Hunk(n, sides)
  \/ Kept \/ Removed \/ Added \/ Over

AnchorSpec == AnchorInit /\ [][AnchorNext]_anchorVars

-----------------------------------------------------------------------------
Query == [line : Nat, side : {"LEFT", "RIGHT"}]

AnchorTypeOK ==
  /\ query \in Query /\ at \in [old : Nat \ {0}, new : Nat \ {0}]
  /\ writing \in {"header", "both", "added", "removed"} /\ phase \in {"ask", "scan", "end"}
  /\ old \in Nat /\ newLine \in Nat /\ {inHunk, result, seen} \subseteq BOOLEAN

\* A finding is anchored to a line of the diff exactly if the patch shows that
\* line on that side, wherever hunks begin, however many lines they leave out
\* and whichever side is empty: GitHub would refuse the whole review for one
\* comment on another line (git.go: diffAnchor).
AnchoredIsShown ==
  /\ result => seen
  /\ phase = "end" => (result <=> seen)
=============================================================================
