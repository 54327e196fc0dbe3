-------------------------------- MODULE Keys --------------------------------
(***************************************************************************)
(* How the bytes of a terminal become keys of the dashboard                *)
(* (cmd/brv/terminal.go: keyDecoder and the reading half of                *)
(* dashboardSession).  A key may take several bytes, a read may return     *)
(* them in any pieces, and a lone Escape is told from the start of a       *)
(* longer key only by nothing following it until the next tick.            *)
(***************************************************************************)
EXTENDS Naturals, Sequences

CONSTANTS
  Presses,     \* what the user may do: names of KeyPresses, or "paste"
  Chunk,       \* the most bytes one read returns (128 in the code)
  MaxPending,  \* the longest unfinished sequence that is kept (32), no shorter than that of a key
  SlowLink,    \* can the bytes of one press be a whole tick apart?
  MaxTyped     \* bound: presses

\* A byte is named for what it is; the digits of a parameter count as one.
KeyPresses == {"up", "appUp", "down", "pgup", "esc", "q", "ctrl+c"}

ASSUME KeysAssumption ==
  /\ Presses \subseteq KeyPresses \cup {"paste"}
  /\ Chunk \in Nat \ {0} /\ MaxPending \in Nat \ 0..2 /\ MaxTyped \in Nat
  /\ SlowLink \in BOOLEAN

VARIABLES
  typed,    \* how many presses there were
  meant,    \* the keys they stand for
  sent,     \* the bytes sent for them: [press, nth, key], byte nth of a press, and
            \* the place in meant of its key, or of the next one
  read,     \* how many of these were read
  pending,  \* keyDecoder.pending
  paste,    \* keyDecoder.paste
  feeding,  \* the loop of feed is running
  keys      \* the keys given to the dashboard

decoder  == <<pending, paste, feeding, keys>>
terminal == <<typed, meant, sent, read>>
keysVars == <<decoder, terminal>>

\* Bytes from 0x40 to 0x7e end an escape sequence; ESC and ^C do not.
Final == {"[", "O", "A", "B", "~", "q"}
Byte  == Final \cup {"ESC", "^C", "5", "200", "201"}

PasteStart == <<"ESC", "[", "200", "~">>
PasteEnd   == <<"ESC", "[", "201", "~">>

\* The sequences that are keys.
Named == {[seq |-> <<"ESC", "[", "A">>, key |-> "up"],   [seq |-> <<"ESC", "O", "A">>, key |-> "up"],
          [seq |-> <<"ESC", "[", "B">>, key |-> "down"], [seq |-> <<"ESC", "O", "B">>, key |-> "down"],
          [seq |-> <<"ESC", "[", "5", "~">>, key |-> "pgup"]}

\* What a terminal sends for a press.  The pasted text is that of two keys.
Sent(p) ==
  CASE p = "up"     -> <<"ESC", "[", "A">>
    [] p = "appUp"  -> <<"ESC", "O", "A">>
    [] p = "down"   -> <<"ESC", "[", "B">>
    [] p = "pgup"   -> <<"ESC", "[", "5", "~">>
    [] p = "esc"    -> <<"ESC">>
    [] p = "q"      -> <<"q">>
    [] p = "ctrl+c" -> <<"^C">>
    [] p = "paste"  -> <<"ESC", "[", "200", "~", "q", "^C", "ESC", "[", "201", "~">>

\* The keys a press stands for: none for a paste.
Meant(p) == IF p = "paste" THEN <<>> ELSE IF p = "appUp" THEN <<"up">> ELSE <<p>>

ByteOf(b) == Sent(b.press)[b.nth]
Ending(b) == b.nth = Len(Sent(b.press))

KeysInit ==
  /\ typed = 0 /\ meant = <<>> /\ sent = <<>> /\ read = 0
  /\ pending = <<>> /\ paste = FALSE /\ feeding = FALSE /\ keys = <<>>

-----------------------------------------------------------------------------
\* The user and the terminal.

Press(p) ==
  /\ typed < MaxTyped /\ typed' = typed + 1
  /\ meant' = meant \o Meant(p)
  /\ sent' = sent \o [i \in DOMAIN Sent(p) |-> [press |-> p, nth |-> i, key |-> Len(meant) + 1]]
  /\ UNCHANGED <<read, decoder>>

\* A tick finds n bytes to read, and gives them to feed.
Read(n) ==
  /\ ~feeding /\ read + n <= Len(sent)
  /\ pending' = pending \o [i \in 1..n |-> ByteOf(sent[read + i])]
  /\ read' = read + n /\ feeding' = TRUE
  /\ UNCHANGED <<typed, meant, sent, paste, keys>>

\* The last byte that was read is not the last of its press.
Midway == read > 0 /\ ~Ending(sent[read])

\* A tick finds nothing to read after an Escape.
Quiet ==
  /\ ~feeding /\ (SlowLink \/ ~Midway)
  /\ pending = <<"ESC">>
  /\ pending' = <<>> /\ keys' = Append(keys, "esc")
  /\ UNCHANGED <<terminal, paste, feeding>>

-----------------------------------------------------------------------------
\* The loop of feed, one action per way through its body.

Escape == pending # <<>> /\ pending[1] = "ESC"

\* A sequence has begun.
Opened == Escape /\ Len(pending) > 1 /\ pending[2] \in {"[", "O"}

Ends == {i \in 3..Len(pending) : pending[i] \in Final}

Emit(k) == keys' = IF paste THEN keys ELSE keys \o k

\* Mutant: the end of a paste is not recognised.
PastesForEver(seq) == paste \/ seq = PasteStart

Pastes(seq) == (paste \/ seq = PasteStart) /\ seq # PasteEnd

\* Nothing is left, or only an Escape that may be the start of more.
Pause ==
  /\ feeding /\ (pending = <<>> \/ pending = <<"ESC">>)
  /\ feeding' = FALSE
  /\ UNCHANGED <<terminal, pending, paste, keys>>

LoneEscape ==
  /\ feeding /\ Escape /\ Len(pending) > 1 /\ ~Opened
  /\ pending' = Tail(pending) /\ Emit(<<"esc">>)
  /\ UNCHANGED <<terminal, paste, feeding>>

\* Mutant: what is left of a sequence is not kept for the next read.
UnfinishedDropped ==
  /\ feeding /\ Opened /\ Ends = {}
  /\ feeding' = FALSE /\ pending' = <<>>
  /\ UNCHANGED <<terminal, paste, keys>>

Unfinished ==
  /\ feeding /\ Opened /\ Ends = {}
  /\ feeding' = FALSE
  /\ pending' = IF Len(pending) > MaxPending THEN <<>> ELSE pending
  /\ UNCHANGED <<terminal, paste, keys>>

Finished ==
  /\ feeding /\ Opened
  /\ \E end \in Ends :
       LET seq == SubSeq(pending, 1, end) IN
       /\ \A i \in Ends : end <= i
       /\ pending' = SubSeq(pending, end + 1, Len(pending))
       /\ paste' = Pastes(seq)
       /\ IF \E n \in Named : n.seq = seq
          THEN \E n \in Named : n.seq = seq /\ Emit(<<n.key>>)
          ELSE UNCHANGED keys
  /\ UNCHANGED <<terminal, feeding>>

Plain ==
  /\ feeding /\ pending # <<>> /\ ~Escape
  /\ pending' = Tail(pending)
  /\ Emit(IF pending[1] = "^C" THEN <<"ctrl+c">> ELSE <<pending[1]>>)
  /\ UNCHANGED <<terminal, paste, feeding>>

-----------------------------------------------------------------------------
Feed == Pause \/ LoneEscape \/ Unfinished \/ Finished \/ Plain

Tick == Quiet \/ \E n \in 1..Chunk : Read(n)

KeysNext == Feed \/ Tick \/ \E p \in Presses : Press(p)

KeysSpec == KeysInit /\ [][KeysNext]_keysVars

\* The ticker fires, and a loop without calls ends.
KeysFairness == WF_keysVars(Feed) /\ WF_keysVars(Tick)

-----------------------------------------------------------------------------
\* The variables have their types (terminal.go: keyDecoder).
KeysTypeOK ==
  /\ typed \in 0..MaxTyped /\ meant \in Seq(KeyPresses) /\ read \in 0..Len(sent)
  /\ sent \in Seq({b \in [press : Presses, nth : Nat, key : Nat] : b.nth \in DOMAIN Sent(b.press)})
  /\ pending \in Seq(Byte) /\ {paste, feeding} \subseteq BOOLEAN
  /\ keys \in Seq(Byte \cup KeyPresses)

\* However the bytes are split between reads, the dashboard gets the keys that
\* were pressed and nothing else: none is lost, split in two, made up or taken
\* from pasted text, and a press is complete once its bytes are read and a
\* tick is quiet (terminal.go: "Decode split escape sequences").
KeysAsPressed ==
  /\ Len(keys) <= Len(meant) /\ keys = SubSeq(meant, 1, Len(keys))
  /\ read = Len(sent) /\ pending = <<>> /\ ~feeding => keys = meant /\ ~paste

\* A key that asks the dashboard to stop arrives, whatever is typed or pasted
\* before it (terminal.go: the loop of dashboardSession).
StopIsHeard ==
  \A k \in {"q", "ctrl+c"} :
    (\E i \in DOMAIN meant : meant[i] = k) ~> (\E i \in DOMAIN keys : keys[i] = k)

\* terminal.go: "discard bracketed paste, so pasted text cannot accidentally
\* act as dashboard shortcuts": no key is given to the dashboard while a paste
\* is being discarded.
PasteIsDiscarded == [][paste => keys' = keys]_keysVars
=============================================================================
