----------------------------- MODULE Transcript -----------------------------
(***************************************************************************)
(* What agents say, as lines: the two log handlers that join the fragments *)
(* of streamed text, the scrolling log (cmd/brv/console.go) and the        *)
(* activity list of the dashboard (cmd/brv/dashboard.go).  Records of      *)
(* several streams, and records that are no text, come in any order; each  *)
(* is handled under the handler's mutex, a text one line after the other.  *)
(*                                                                         *)
(* A line is the pieces it was made of.  That the activity list keeps the  *)
(* last 200 lines and 2000 columns of each is not here (Dashboard has it). *)
(***************************************************************************)
EXTENDS Naturals, Sequences

CONSTANTS
  Streams,    \* "source/stream_id" of text records
  Texts,      \* the texts of records, cut at their newlines
  MaxPieces   \* bound: pieces of text and other records

\* A text is pieces that end a line, and perhaps one that does not.
ASSUME TranscriptAssumption ==
  /\ "log" \notin Streams /\ MaxPieces \in Nat
  /\ Texts \subseteq Seq(BOOLEAN) /\ \A t \in Texts : \A i \in 1..(Len(t) - 1) : t[i]

VARIABLES
  told,     \* all pieces so far: [from, newline], in the order of their arrival; a
            \* piece is known by its place in told
  rest,     \* what is left of the text that is handled
  key,      \* its stream
  console,  \* consoleStream and the lines written: [key, open, lines]
  feed      \* streamKey, streamOpen and the activity: [key, open, lines]

transcriptVars == <<told, rest, key, console, feed>>

Fresh == [key |-> "", open |-> FALSE, lines |-> <<>>]

TranscriptInit == told = <<>> /\ rest = <<>> /\ key = "" /\ console = Fresh /\ feed = Fresh

NewLine(h, n) == Append(h.lines, <<n>>)

Continued(h, n) == [h.lines EXCEPT ![Len(h.lines)] = Append(@, n)]

-----------------------------------------------------------------------------
\* dashboardHandler.Handle: a fragment goes on with the last line if that is
\* the open line of the same stream.
FeedPiece(h, k, n, newline) ==
  [key |-> k, open |-> ~newline,
   lines |-> IF h.open /\ h.key = k /\ h.lines # <<>> THEN Continued(h, n) ELSE NewLine(h, n)]

FeedRecord(h, n) == [h EXCEPT !.open = FALSE, !.lines = NewLine(h, n)]

\* console.Handle: a fragment goes on with the open line, which another stream
\* has closed by then.
ConsolePiece(h, n, newline) ==
  [h EXCEPT !.open = ~newline, !.lines = IF h.open THEN Continued(h, n) ELSE NewLine(h, n)]

\* Mutant: a stream goes on with the line of another.
TurnToAnyway(h, k) == [h EXCEPT !.key = k]

TurnTo(h, k) == [h EXCEPT !.key = k, !.open = (h.open /\ h.key = k)]

ConsoleRecord(h, n) == [h EXCEPT !.open = FALSE, !.lines = NewLine(h, n)]

\* The message "agent transcript" takes the mutex.
TextRecord(k, text) ==
  /\ rest = <<>> /\ Len(told) + Len(text) <= MaxPieces
  /\ rest' = text /\ key' = k /\ console' = TurnTo(console, k)
  /\ UNCHANGED <<told, feed>>

\* The body of the loop over its text.
TextPiece ==
  /\ rest # <<>> /\ rest' = Tail(rest)
  /\ told' = Append(told, [from |-> key, newline |-> rest[1]])
  /\ console' = ConsolePiece(console, Len(told) + 1, rest[1])
  /\ feed' = FeedPiece(feed, key, Len(told) + 1, rest[1])
  /\ UNCHANGED key

\* Any other message is a line of its own.
OtherRecord ==
  /\ rest = <<>> /\ Len(told) < MaxPieces
  /\ told' = Append(told, [from |-> "log", newline |-> TRUE])
  /\ console' = ConsoleRecord(console, Len(told) + 1)
  /\ feed' = FeedRecord(feed, Len(told) + 1)
  /\ UNCHANGED <<rest, key>>

-----------------------------------------------------------------------------
TranscriptNext == TextPiece \/ OtherRecord \/ \E k \in Streams, text \in Texts : TextRecord(k, text)

TranscriptSpec == TranscriptInit /\ [][TranscriptNext]_transcriptVars

\* The variables have their types (console.go: consoleStream).
TranscriptTypeOK ==
  /\ told \in Seq([from : Streams \cup {"log"}, newline : BOOLEAN])
  /\ rest \in Seq(BOOLEAN) /\ key \in Streams \cup {""}
  /\ \A h \in {console, feed} :
       h \in [key : Streams \cup {""}, open : BOOLEAN, lines : Seq(Seq(Nat))]

\* The piece a line ends with so far.
LastOn(line) == line[Len(line)]

\* The pieces of the lines are those told, in their order.
Whole(lines, pieces) ==
  /\ \A l \in DOMAIN lines : lines[l] # <<>> /\ \A i \in DOMAIN lines[l] :
       lines[l][i] = i + IF l = 1 THEN 0 ELSE LastOn(lines[l - 1])
  /\ Len(pieces) = IF lines = <<>> THEN 0 ELSE LastOn(LastOn(lines))

\* A line is of one stream, and ends at a newline.
Pure(lines, pieces) ==
  \A l \in DOMAIN lines : \A i \in 1..(Len(lines[l]) - 1) :
    /\ pieces[lines[l][i]].from = pieces[lines[l][i + 1]].from
    /\ ~pieces[lines[l][i]].newline

Together(lines, n) == \E l \in DOMAIN lines : {n, n + 1} \subseteq {lines[l][i] : i \in DOMAIN lines[l]}

Joined(lines, pieces) ==
  \A n \in 1..(Len(pieces) - 1) : pieces[n].from = pieces[n + 1].from /\ ~pieces[n].newline => Together(lines, n)

\* However the text of several agents and other records are mixed, the pieces
\* of a line are of one stream and in its order, nothing comes after a newline,
\* and no piece is left out or told twice, before the activity list cuts what is
\* more than 200 lines or 2000 columns; the dashboard also joins what was said in
\* one go.  (The scrolling log breaks the line when a record without text
\* comes from another stream.)  (console.go, dashboard.go: Handle)
LinesAreReadable ==
  /\ Whole(console.lines, told) /\ Pure(console.lines, told)
  /\ Whole(feed.lines, told) /\ Pure(feed.lines, told) /\ Joined(feed.lines, told)
=============================================================================
