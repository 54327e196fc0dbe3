---------------------------- MODULE OutputProofs ----------------------------
(***************************************************************************)
(* Proofs about CommandOutput: for every capacity and every way a command  *)
(* may cut what it writes into chunks, the end of its output is kept, and  *)
(* the caller gets all of it or an error.  And about Transcript: for any   *)
(* number of streams and any texts, both logs stay readable.               *)
(***************************************************************************)
EXTENDS CommandOutput, Transcript, SequenceTheorems, WellFoundedInduction, TLAPS

\* The last n members of a sequence.
LEMMA LastOfProperties ==
  ASSUME NEW S, NEW s \in Seq(S), NEW n \in Nat, n <= Len(s)
  PROVE  /\ LastOf(s, n) \in Seq(S) /\ Len(LastOf(s, n)) = n
         /\ \A i \in 1..n : LastOf(s, n)[i] = s[Len(s) - n + i]
<1> DEFINE m == Len(s) - n + 1
<1>1. Len(s) \in Nat /\ m \in Int /\ Len(s) - m + 1 = n /\ (m <= Len(s) <=> n # 0)
  BY LenProperties
<1>2. \A i \in m..Len(s) : s[i] \in S
  BY <1>1, ElementOfSeq
<1>3. /\ SubSeq(s, m, Len(s)) \in Seq(S)
      /\ Len(SubSeq(s, m, Len(s))) = IF m <= Len(s) THEN Len(s) - m + 1 ELSE 0
      /\ \A i \in 1..(Len(s) - m + 1) : SubSeq(s, m, Len(s))[i] = s[m + i - 1]
  <2> HIDE DEF m
  <2> QED BY <1>1, <1>2, SubSeqProperties
<1>4. \A i \in 1..n : m + i - 1 = Len(s) - n + i
  BY <1>1
<1> QED BY <1>1, <1>3, <1>4 DEF LastOf

\* What is kept of a chunk is its end, as far as it fits.
LEMMA PieceProperties ==
  ASSUME NEW p \in Seq(Bytes)
  PROVE  /\ Piece(p) \in Seq(Bytes)
         /\ Len(Piece(p)) = IF Len(p) > Capacity THEN Capacity ELSE Len(p)
         /\ \A i \in 1..Len(Piece(p)) : Piece(p)[i] = p[Len(p) - Len(Piece(p)) + i]
<1>1. Len(p) \in Nat /\ Capacity \in Nat
  BY LenProperties, TailAssumption
<1>2. CASE Len(p) > Capacity
  <2>1. Capacity <= Len(p)
    BY <1>1, <1>2
  <2>2. /\ LastOf(p, Capacity) \in Seq(Bytes) /\ Len(LastOf(p, Capacity)) = Capacity
        /\ \A i \in 1..Capacity : LastOf(p, Capacity)[i] = p[Len(p) - Capacity + i]
    BY <1>1, <2>1, LastOfProperties
  <2>3. Piece(p) = LastOf(p, Capacity)
    BY <1>2 DEF Piece
  <2> QED BY <1>2, <2>2, <2>3
<1>3. CASE ~(Len(p) > Capacity)
  BY <1>1, <1>3 DEF Piece
<1> QED BY <1>2, <1>3

\* What is kept of the bytes before is their end, as far as the piece leaves room.
LEMMA SurvivesProperties ==
  ASSUME NEW p \in Seq(Bytes), kept \in Seq(Bytes), Len(kept) <= Capacity
  PROVE  /\ Survives(p) \in Seq(Bytes)
         /\ Len(Survives(p)) = IF Excess(p) > 0 THEN Capacity - Len(Piece(p)) ELSE Len(kept)
         /\ \A i \in 1..Len(Survives(p)) : Survives(p)[i] = kept[Len(kept) - Len(Survives(p)) + i]
<1> DEFINE q == Len(Piece(p))  k == Len(kept)  e == Excess(p)
<1>1. q \in Nat /\ k \in Nat /\ Capacity \in Nat /\ q <= Capacity /\ e = k + q - Capacity
  BY LenProperties, TailAssumption, PieceProperties DEF Excess
<1>2. CASE e > 0
  <2>1. Survives(p) = LastOf(kept, k - e)
    <3>1. k - (k - e) + 1 = e + 1
      BY <1>1
    <3> QED BY <1>2, <3>1 DEF Survives, LastOf
  <2>2. k - e \in Nat /\ k - e <= k /\ k - e = Capacity - q
    BY <1>1, <1>2
  <2>3. /\ LastOf(kept, k - e) \in Seq(Bytes) /\ Len(LastOf(kept, k - e)) = k - e
        /\ \A i \in 1..(k - e) : LastOf(kept, k - e)[i] = kept[k - (k - e) + i]
    BY <2>2, LastOfProperties
  <2> QED BY <1>2, <2>1, <2>2, <2>3
<1>3. CASE ~(e > 0)
  BY <1>1, <1>3 DEF Survives
<1> QED BY <1>2, <1>3

\* KeepsTheEnd, and the answer: nothing before the command ends, and then
\* NoFragment.
TailInv == TailTypeOK /\ KeepsTheEnd /\ NoFragment

LEMMA InitTail == TailInit => TailInv
<1> SUFFICES ASSUME TailInit PROVE TailInv
  OBVIOUS
<1>1. <<>> \in Seq(Bytes) /\ Len(<<>>) = 0 /\ Capacity \in Nat /\ DOMAIN kept = 1..0
  BY EmptySeq, LenProperties, TailAssumption DEF TailInit
<1>2. TailTypeOK
  BY <1>1 DEF TailInit, TailTypeOK
<1>3. KeepsTheEnd
  BY <1>1 DEF TailInit, KeepsTheEnd
<1> QED BY <1>2, <1>3 DEF TailInit, TailInv, NoFragment

\* A write keeps the end of what is written, whatever the size of the chunk.
LEMMA WriteStep ==
  ASSUME TailInv, NEW p \in Chunks, Write(p)
  PROVE  TailInv'
<1> DEFINE n == Len(output)  k == Len(kept)  l == Len(p)  q == Len(Piece(p))  v == Len(Survives(p))
<1>1. p \in Seq(Bytes) /\ kept \in Seq(Bytes) /\ output \in Seq(Bytes) /\ Capacity \in Nat
  BY TailAssumption DEF TailInv, TailTypeOK
<1>2. n \in Nat /\ k \in Nat /\ l \in Nat /\ DOMAIN kept = 1..k
  BY <1>1, LenProperties
<1>3. /\ k = IF n <= Capacity THEN n ELSE Capacity
      /\ truncated <=> n > Capacity
  BY DEF TailInv, KeepsTheEnd
<1>4. \A i \in 1..k : kept[i] = output[n - k + i]
  BY <1>2 DEF TailInv, KeepsTheEnd
<1>5. /\ Piece(p) \in Seq(Bytes) /\ q = IF l > Capacity THEN Capacity ELSE l
      /\ \A i \in 1..q : Piece(p)[i] = p[l - q + i]
  BY <1>1, PieceProperties
<1>6. /\ Survives(p) \in Seq(Bytes) /\ v = IF k + q - Capacity > 0 THEN Capacity - q ELSE k
      /\ \A i \in 1..v : Survives(p)[i] = kept[k - v + i]
  <2>1. k <= Capacity
    BY <1>1, <1>2, <1>3
  <2> QED BY <1>1, <2>1, SurvivesProperties DEF Excess
<1>7. q \in Nat /\ v \in Nat /\ q <= l /\ v <= k
  BY <1>1, <1>2, <1>5, <1>6, LenProperties
<1>8. /\ kept' \in Seq(Bytes) /\ Len(kept') = v + q
      /\ \A i \in 1..(v + q) : kept'[i] = IF i <= v THEN Survives(p)[i] ELSE Piece(p)[i - v]
  <2>1. kept' = Survives(p) \o Piece(p)
    BY DEF Write
  <2> DEFINE s == Survives(p)  t == Piece(p)
  <2>2. s \in Seq(Bytes) /\ t \in Seq(Bytes) /\ Len(s) = v /\ Len(t) = q
    BY <1>5, <1>6
  <2> HIDE DEF s, t, v, q
  <2>3. /\ s \o t \in Seq(Bytes) /\ Len(s \o t) = v + q
        /\ \A i \in 1..(v + q) : (s \o t)[i] = IF i <= v THEN s[i] ELSE t[i - v]
    BY <2>2, ConcatProperties
  <2> QED BY <2>1, <2>3 DEF s, t
<1>9. /\ output' \in Seq(Bytes) /\ Len(output') = n + l
      /\ \A i \in 1..(n + l) : output'[i] = IF i <= n THEN output[i] ELSE p[i - n]
  BY <1>1, ConcatProperties DEF Write
<1>10. truncated' <=> n > Capacity \/ l > Capacity \/ k + q - Capacity > 0
  BY <1>3 DEF Write, Truncates, Excess
<1> HIDE DEF n, k, l, q, v
<1>11. v + q = IF n + l <= Capacity THEN n + l ELSE Capacity
  BY <1>1, <1>2, <1>3, <1>5, <1>6, <1>7
<1>12. truncated' <=> n + l > Capacity
  BY <1>1, <1>2, <1>3, <1>5, <1>7, <1>10
<1>13. ASSUME NEW i \in 1..(v + q) PROVE kept'[i] = output'[n + l - (v + q) + i]
  <2>1. n + l - (v + q) + i \in 1..(n + l)
    BY <1>2, <1>3, <1>7, <1>11
  <2>2. CASE i <= v
    <3>1. l = q
      BY <1>1, <1>2, <1>3, <1>5, <1>6, <1>7, <2>2
    <3>2. i \in 1..v /\ k - v + i \in 1..k /\ n - k + (k - v + i) = n + l - (v + q) + i
      BY <1>2, <1>7, <2>2, <3>1
    <3>3. kept'[i] = output[n - k + (k - v + i)]
      BY <1>4, <1>6, <1>8, <2>2, <3>2
    <3>4. n + l - (v + q) + i <= n
      BY <1>2, <1>7, <2>2, <3>1
    <3> QED BY <1>9, <2>1, <3>2, <3>3, <3>4
  <2>3. CASE ~(i <= v)
    <3> DEFINE j == n + l - (v + q) + i
    <3>1. i - v \in 1..q /\ l - q + (i - v) = j - n
      BY <1>2, <1>7, <2>3
    <3>2. kept'[i] = p[l - q + (i - v)]
      BY <1>5, <1>8, <2>3, <3>1
    <3>3. ~(j <= n)
      BY <1>2, <1>7, <2>3
    <3>4. j \in 1..(n + l)
      BY <2>1
    <3> HIDE DEF j
    <3>5. output'[j] = p[j - n]
      BY <1>9, <3>3, <3>4
    <3>6. kept'[i] = output'[j]
      BY <3>1, <3>2, <3>5
    <3> QED BY <3>6 DEF j
  <2> QED BY <2>2, <2>3
<1>14. command = "running" /\ UNCHANGED <<command, answer>> /\ truncated' \in BOOLEAN
  BY DEF Write, Truncates, TailInv, TailTypeOK
<1>15. TailTypeOK'
  BY <1>8, <1>9, <1>14 DEF TailInv, TailTypeOK
<1>16. KeepsTheEnd'
  <2>1. DOMAIN kept' = 1..(v + q)
    BY <1>8, LenProperties
  <2>2. Len(kept') = IF Len(output') <= Capacity THEN Len(output') ELSE Capacity
    BY <1>8, <1>9, <1>11
  <2>3. \A i \in DOMAIN kept' : kept'[i] = output'[Len(output') - Len(kept') + i]
    <3>1. Len(output') = n + l
      BY <1>9
    <3>2. Len(kept') = v + q
      BY <1>8
    <3>3. ASSUME NEW i \in DOMAIN kept'
          PROVE  kept'[i] = output'[Len(output') - Len(kept') + i]
      <4>1. i \in 1..(v + q)
        BY <2>1
      <4>2. kept'[i] = output'[n + l - (v + q) + i]
        BY <4>1, <1>13
      <4>3. Len(output') - Len(kept') + i = n + l - (v + q) + i
        BY <1>2, <1>3, <1>7, <3>1, <3>2, <4>1
      <4> QED BY <4>2, <4>3
    <3> QED BY <3>3
  <2>4. truncated' <=> Len(output') > Capacity
    BY <1>9, <1>12
  <2> QED BY <2>2, <2>3, <2>4 DEF KeepsTheEnd
<1>17. NoFragment'
  BY <1>14 DEF NoFragment
<1> QED BY <1>15, <1>16, <1>17 DEF TailInv

\* A set of numbers that is not empty has a least one.
LEMMA LeastNumber ==
  ASSUME NEW T \in SUBSET Nat, T # {}
  PROVE  \E x \in T : \A y \in T : x <= y
<1>1. \E x \in T : \A y \in T : <<y, x>> \notin OpToRel(<, Nat)
  BY WFMin, NatLessThanWellFounded
<1>2. \A x \in Nat, y \in Nat : <<y, x>> \notin OpToRel(<, Nat) => x <= y
  BY DEF OpToRel
<1> QED BY <1>1, <1>2

\* What was not cut is the whole output, and starts with a character.
LEMMA TextIsOutput ==
  ASSUME TailTypeOK, KeepsTheEnd, ~truncated, output # <<>> => output[1] \notin Middle
  PROVE  Text = output
<1>1. kept \in Seq(Bytes) /\ output \in Seq(Bytes) /\ Capacity \in Nat
  BY TailAssumption DEF TailTypeOK
<1>2. Len(kept) \in Nat /\ Len(output) \in Nat /\ DOMAIN kept = 1..Len(kept)
  BY <1>1, LenProperties
<1>3. Len(kept) = Len(output)
  BY <1>1, <1>2 DEF KeepsTheEnd
<1>4. kept = output
  <2>1. \A i \in 1..Len(kept) : Len(output) - Len(kept) + i = i
    BY <1>2, <1>3
  <2> QED BY <1>1, <1>2, <1>3, <2>1, SeqEqual DEF KeepsTheEnd
<1>5. CASE output = <<>>
  <2>1. Starts = {}
    BY <1>2, <1>4, <1>5, EmptySeq DEF Starts
  <2> QED BY <1>5, <2>1 DEF Text
<1>6. CASE output # <<>>
  <2>1. 1 \in Starts
    BY <1>1, <1>2, <1>4, <1>6, EmptySeq DEF Starts
  <2>2. \A i \in Starts : i \in Nat /\ 1 <= i
    BY <1>2 DEF Starts
  <2>3. (CHOOSE i \in Starts : \A j \in Starts : i <= j) = 1
    <3>1. \E i \in Starts : \A j \in Starts : i <= j
      BY <2>1, <2>2
    <3> DEFINE first == CHOOSE i \in Starts : \A j \in Starts : i <= j
    <3>2. first \in Starts /\ \A j \in Starts : first <= j
      BY <3>1
    <3> HIDE DEF first
    <3>3. first = 1
      BY <2>1, <2>2, <3>2
    <3> QED BY <3>3 DEF first
  <2> QED BY <1>1, <1>4, <2>1, <2>3, SubSeqFull DEF Text
<1> QED BY <1>5, <1>6

\* The end of a command.
LEMMA ExitStep ==
  ASSUME TailInv, NEW how \in {"ok", "failed"}, Exit(how)
  PROVE  TailInv'
<1>1. TailTypeOK /\ KeepsTheEnd /\ UNCHANGED <<output, kept, truncated>> /\ command' = how
  BY DEF TailInv, Exit
<1>2. answer' = [text |-> IF truncated THEN <<>> ELSE Text, error |-> (truncated \/ how # "ok")]
  BY DEF Exit
<1>3. Text \in Seq(Bytes)
  <2>1. kept \in Seq(Bytes) /\ <<>> \in Seq(Bytes) /\ DOMAIN kept = 1..Len(kept) /\ Len(kept) \in Nat
    BY <1>1, EmptySeq, LenProperties DEF TailTypeOK
  <2>2. ASSUME Starts # {}
        PROVE  LET first == CHOOSE i \in Starts : \A j \in Starts : i <= j
               IN  SubSeq(kept, first, Len(kept)) \in Seq(Bytes)
    <3> DEFINE first == CHOOSE i \in Starts : \A j \in Starts : i <= j
    <3>1. Starts \subseteq Nat
      BY <2>1 DEF Starts
    <3>2. PICK low \in Starts : \A j \in Starts : low <= j
      BY <2>2, <3>1, LeastNumber
    <3>3. first \in Starts
      BY <3>2
    <3> HIDE DEF first
    <3>4. first \in 1..Len(kept)
      BY <2>1, <3>3 DEF Starts
    <3>5. \A i \in first..Len(kept) : kept[i] \in Bytes
      BY <2>1, <3>4, ElementOfSeq
    <3> QED BY <2>1, <3>4, <3>5, SubSeqProperties DEF first
  <2> QED BY <2>1, <2>2 DEF Text
<1>4. TailTypeOK'
  <2>1. <<>> \in Seq(Bytes)
    BY EmptySeq
  <2>2. answer' \in [text : Seq(Bytes), error : BOOLEAN]
    BY <1>1, <1>2, <1>3, <2>1 DEF TailTypeOK
  <2> QED BY <1>1, <2>2 DEF TailTypeOK
<1>5. KeepsTheEnd'
  BY <1>1 DEF KeepsTheEnd
<1>6. NoFragment'
  <2>1. CASE truncated
    BY <1>2, <2>1 DEF NoFragment
  <2>2. CASE ~truncated
    BY <1>1, <1>2, <2>2, TextIsOutput DEF NoFragment
  <2> QED BY <2>1, <2>2
<1> QED BY <1>4, <1>5, <1>6 DEF TailInv

LEMMA NextTail == TailInv /\ [TailNext]_tailVars => TailInv'
<1> SUFFICES ASSUME TailInv, [TailNext]_tailVars PROVE TailInv'
  OBVIOUS
<1>1. CASE UNCHANGED tailVars
  BY <1>1 DEF tailVars, TailInv, TailTypeOK, KeepsTheEnd, NoFragment
<1>2. CASE \E p \in Chunks : Write(p)
  BY <1>2, WriteStep
<1>3. CASE \E how \in {"ok", "failed"} : Exit(how)
  BY <1>3, ExitStep
<1> QED BY <1>1, <1>2, <1>3 DEF TailNext

\* The variables of the output have their types.
THEOREM OutputTypeCorrect == TailSpec => []TailTypeOK
<1>1. TailInv => TailTypeOK
  BY DEF TailInv
<1> QED BY <1>1, InitTail, NextTail, PTL DEF TailSpec

\* The end of what a command writes is kept, and counts as cut exactly if
\* something is missing (osrun/run.go: Tail.Write).
THEOREM TheEndIsKept == TailSpec => []KeepsTheEnd
<1>1. TailInv => KeepsTheEnd
  BY DEF TailInv
<1> QED BY <1>1, InitTail, NextTail, PTL DEF TailSpec

\* A caller gets the whole output or an error (osrun/run.go: RunRaw).
THEOREM NoFragmentIsReturned == TailSpec => []NoFragment
<1>1. TailInv => NoFragment
  BY DEF TailInv
<1> QED BY <1>1, InitTail, NextTail, PTL DEF TailSpec

-----------------------------------------------------------------------------
(***************************************************************************)
(* The lines of a transcript.                                              *)
(***************************************************************************)

\* The last piece is of stream k, and its line goes on.
GoesOn(pieces, k) == Len(pieces) > 0 /\ pieces[Len(pieces)].from = k /\ ~pieces[Len(pieces)].newline

\* The lines are made of the pieces.
Within(lines, pieces) == \A l \in DOMAIN lines : \A i \in DOMAIN lines[l] : lines[l][i] \in 1..Len(pieces)

WellMade(lines, pieces) ==
  Len(pieces) \in Nat /\ lines \in Seq(Seq(Nat)) /\ Within(lines, pieces) /\ Whole(lines, pieces) /\ Pure(lines, pieces)

\* The open line is that of the last piece.
OpenLine(h) == h.open => GoesOn(told, h.key)

FeedOpen == \A k \in Streams \cup {"log"} : GoesOn(told, k) => feed.open /\ feed.key = k

TextInv == rest # <<>> => key \in Streams /\ console.key = key

TranscriptInv ==
  /\ TranscriptTypeOK /\ WellMade(console.lines, told) /\ WellMade(feed.lines, told) /\ Joined(feed.lines, told)
  /\ OpenLine(console) /\ OpenLine(feed) /\ FeedOpen /\ TextInv

\* What more has of the lines before.
Holds(more, lines) ==
  /\ Len(lines) <= Len(more)
  /\ \A l \in 1..Len(lines) : /\ Len(lines[l]) <= Len(more[l])
                              /\ \A i \in 1..Len(lines[l]) : more[l][i] = lines[l][i]

\* The pieces all are one more than pieces.
OneMore(all, pieces) == Len(all) = Len(pieces) + 1 /\ \A i \in 1..Len(pieces) : all[i] = pieces[i]

\* One piece more, on a line of its own.
Adds(more, all, lines, pieces) ==
  /\ more \in Seq(Seq(Nat)) /\ Len(more) = Len(lines) + 1 /\ OneMore(all, pieces)
  /\ \A l \in 1..Len(lines) : more[l] = lines[l]
  /\ more[Len(lines) + 1] = <<Len(pieces) + 1>>

\* One piece more, at the end of the last line.
Lengthens(more, all, lines, pieces) ==
  /\ more \in Seq(Seq(Nat)) /\ Len(more) = Len(lines) /\ Len(lines) > 0 /\ OneMore(all, pieces)
  /\ \A l \in 1..Len(lines) : l # Len(lines) => more[l] = lines[l]
  /\ more[Len(lines)] = Append(lines[Len(lines)], Len(pieces) + 1)
  /\ GoesOn(pieces, all[Len(all)].from)

\* The places of a line, and of the last piece.
LEMMA LineShape ==
  ASSUME NEW pieces, NEW lines, WellMade(lines, pieces)
  PROVE  /\ Len(pieces) \in Nat /\ Len(lines) \in Nat /\ DOMAIN lines = 1..Len(lines)
         /\ \A l \in 1..Len(lines) : /\ lines[l] \in Seq(Nat) /\ Len(lines[l]) \in Nat \ {0}
                                     /\ DOMAIN lines[l] = 1..Len(lines[l])
                                     /\ \A i \in 1..Len(lines[l]) : lines[l][i] \in 1..Len(pieces)
         /\ lines = <<>> => Len(lines) = 0 /\ Len(pieces) = 0
         /\ lines # <<>> => Len(lines) > 0 /\ lines[Len(lines)][Len(lines[Len(lines)])] = Len(pieces)
<1>1. Len(pieces) \in Nat /\ Len(lines) \in Nat /\ DOMAIN lines = 1..Len(lines)
  BY LenProperties DEF WellMade
<1>2. ASSUME NEW l \in 1..Len(lines)
      PROVE  /\ lines[l] \in Seq(Nat) /\ Len(lines[l]) \in Nat \ {0} /\ DOMAIN lines[l] = 1..Len(lines[l])
             /\ \A i \in 1..Len(lines[l]) : lines[l][i] \in 1..Len(pieces)
  <2>1. lines[l] \in Seq(Nat) /\ lines[l] # <<>>
    BY <1>1, ElementOfSeq DEF WellMade, Whole
  <2>2. Len(lines[l]) \in Nat \ {0} /\ DOMAIN lines[l] = 1..Len(lines[l])
    BY <2>1, LenProperties, EmptySeq
  <2> QED BY <1>1, <2>1, <2>2 DEF WellMade, Within
<1>3. lines = <<>> => Len(lines) = 0 /\ Len(pieces) = 0
  BY EmptySeq DEF WellMade, Whole
<1>4. lines # <<>> => Len(lines) > 0 /\ lines[Len(lines)][Len(lines[Len(lines)])] = Len(pieces)
  BY <1>1, EmptySeq DEF WellMade, Whole, LastOn
<1> QED BY <1>1, <1>2, <1>3, <1>4

LEMMA AddedWell ==
  ASSUME NEW pieces, NEW all, NEW lines, NEW more, WellMade(lines, pieces), Adds(more, all, lines, pieces)
  PROVE  WellMade(more, all)
<1>0. PICK m \in Nat, n \in Nat : m = Len(pieces) /\ n = Len(lines) /\ DOMAIN lines = 1..n
  BY LineShape
<1>1. ASSUME NEW l \in 1..n
      PROVE  /\ Len(lines[l]) \in Nat /\ Len(lines[l]) >= 1 /\ DOMAIN lines[l] = 1..Len(lines[l])
             /\ \A i \in 1..Len(lines[l]) : lines[l][i] \in 1..m
  BY <1>0, LineShape
<1>2. (n = 0 => m = 0) /\ (n # 0 => lines[n][Len(lines[n])] = m)
  BY <1>0, LineShape
<1>a. DOMAIN more = 1..(n + 1) /\ Len(more) = n + 1 /\ more # <<>>
  BY <1>0, LenProperties, EmptySeq DEF Adds
<1>b. Len(all) = m + 1 /\ \A i \in 1..m : all[i] = pieces[i]
  BY <1>0 DEF Adds, OneMore
<1>c. \A l \in 1..n : more[l] = lines[l]
  BY <1>0 DEF Adds
<1>d. more[n + 1] = <<m + 1>>
  BY <1>0 DEF Adds
<1>e. DOMAIN more[n + 1] = {1} /\ Len(more[n + 1]) = 1 /\ more[n + 1] # <<>> /\ more[n + 1][1] = m + 1
  BY <1>d
<1>3. ASSUME NEW l \in 1..(n + 1), l # n + 1
      PROVE  l \in 1..n /\ more[l] = lines[l]
  <2>1. l \in 1..n
    BY <1>3
  <2> QED BY <1>c, <2>1
<1>4. Within(more, all)
  <2> SUFFICES ASSUME NEW l \in 1..(n + 1), NEW i \in DOMAIN more[l] PROVE more[l][i] \in 1..(m + 1)
    BY <1>a, <1>b DEF Within
  <2>1. CASE l # n + 1
    <3>1. l \in 1..n /\ more[l] = lines[l]
      BY <1>3, <2>1
    <3>2. lines[l][i] \in 1..m
      BY <1>1, <3>1
    <3> QED BY <3>1, <3>2
  <2>2. CASE l = n + 1
    BY <1>e, <2>2
  <2> QED BY <2>1, <2>2
<1>5. Whole(more, all)
  <2>1. ASSUME NEW l \in 1..(n + 1)
        PROVE  more[l] # <<>> /\ \A i \in DOMAIN more[l] : more[l][i] = i + IF l = 1 THEN 0 ELSE LastOn(more[l - 1])
    <3>1. CASE l # n + 1
      <4>1. l \in 1..n /\ more[l] = lines[l]
        BY <1>3, <3>1
      <4>2. /\ lines[l] # <<>>
            /\ \A i \in DOMAIN lines[l] : lines[l][i] = i + IF l = 1 THEN 0 ELSE LastOn(lines[l - 1])
        BY <1>0, <4>1 DEF WellMade, Whole
      <4>3. l # 1 => more[l - 1] = lines[l - 1]
        <5>1. l # 1 => l - 1 \in 1..n
          BY <4>1
        <5> QED BY <1>c, <5>1
      <4> QED BY <4>1, <4>2, <4>3
    <3>2. CASE l = n + 1
      <4>1. n = 0 => m + 1 = 1 + 0 /\ l = 1
        BY <1>2, <3>2
      <4>2. n # 0 => l # 1 /\ LastOn(more[l - 1]) = m
        <5>1. n # 0 => l # 1 /\ l - 1 = n /\ n \in 1..n
          BY <3>2
        <5>2. n # 0 => more[l - 1] = lines[n]
          BY <1>c, <5>1
        <5> QED BY <1>2, <5>1, <5>2 DEF LastOn
      <4>3. PICK c : c = IF l = 1 THEN 0 ELSE LastOn(more[l - 1])
        OBVIOUS
      <4>4. c = m
        BY <1>2, <4>1, <4>2, <4>3, <3>2
      <4>5. \A i \in DOMAIN more[l] : i = 1
        BY <1>e, <3>2
      <4>6. more[l][1] = 1 + c
        BY <1>e, <3>2, <4>4
      <4> QED BY <1>e, <3>2, <4>3, <4>5, <4>6
    <3> QED BY <3>1, <3>2
  <2>2. LastOn(LastOn(more)) = m + 1
    BY <1>a, <1>e DEF LastOn
  <2> QED BY <1>a, <1>b, <2>1, <2>2 DEF Whole
<1>6. Pure(more, all)
  <2> SUFFICES ASSUME NEW l \in 1..(n + 1), NEW i \in 1..(Len(more[l]) - 1)
               PROVE  /\ all[more[l][i]].from = all[more[l][i + 1]].from
                      /\ ~all[more[l][i]].newline
    BY <1>a DEF Pure
  <2>1. l # n + 1
    <3>1. Len(more[n + 1]) - 1 = 0
      BY <1>e
    <3>2. l = n + 1 => i \in 1..0
      BY <3>1
    <3> QED BY <3>2
  <2>2. l \in 1..n /\ more[l] = lines[l]
    BY <1>3, <2>1
  <2>3. i \in 1..(Len(lines[l]) - 1) /\ i \in 1..Len(lines[l]) /\ i + 1 \in 1..Len(lines[l])
    BY <1>1, <2>2
  <2>4. lines[l][i] \in 1..m /\ lines[l][i + 1] \in 1..m
    BY <1>1, <2>2, <2>3
  <2>5. pieces[lines[l][i]].from = pieces[lines[l][i + 1]].from /\ ~pieces[lines[l][i]].newline
    BY <1>0, <2>2, <2>3 DEF WellMade, Pure
  <2> QED BY <1>b, <2>2, <2>4, <2>5
<1>7. Len(all) \in Nat /\ more \in Seq(Seq(Nat))
  BY <1>b DEF Adds
<1> QED BY <1>4, <1>5, <1>6, <1>7 DEF WellMade

\* A piece on a line of its own.
LEMMA LineAdded ==
  ASSUME NEW P, NEW pieces \in Seq(P), NEW p \in P, NEW lines, WellMade(lines, pieces),
         NEW more, more = Append(lines, <<Len(pieces) + 1>>), NEW all, all = Append(pieces, p)
  PROVE  WellMade(more, all) /\ Holds(more, lines)
<1>0. PICK m \in Nat, n \in Nat : m = Len(pieces) /\ n = Len(lines)
  BY LineShape
<1>1. /\ all \in Seq(P) /\ Len(all) = m + 1 /\ \A i \in 1..m : all[i] = pieces[i]
  BY <1>0, AppendProperties
<1>2. PICK line : line = <<m + 1>>
  OBVIOUS
<1>3. line \in Seq(Nat) /\ Len(line) = 1 /\ line[1] = m + 1 /\ line # <<>> /\ DOMAIN line = {1}
  BY <1>2
<1>4. PICK S : S = Seq(Nat)
  OBVIOUS
<1>5. lines \in Seq(S) /\ line \in S /\ more = Append(lines, line)
  BY <1>0, <1>2, <1>3, <1>4 DEF WellMade
<1>6. /\ more \in Seq(S) /\ Len(more) = n + 1
      /\ \A l \in 1..n : more[l] = lines[l]
      /\ more[n + 1] = line
  BY <1>0, <1>5, AppendProperties
<1>8. WellMade(more, all)
  <2>1. Adds(more, all, lines, pieces)
    BY <1>0, <1>1, <1>2, <1>4, <1>6 DEF Adds, OneMore
  <2> QED BY <2>1, AddedWell
<1>9. Holds(more, lines)
  <2>1. \A l \in 1..n : Len(lines[l]) \in Nat
    BY <1>0, LineShape
  <2> QED BY <1>0, <1>6, <2>1 DEF Holds
<1> QED BY <1>8, <1>9

LEMMA ContinuedWell ==
  ASSUME NEW pieces, NEW all, NEW lines, NEW more, WellMade(lines, pieces), Lengthens(more, all, lines, pieces)
  PROVE  WellMade(more, all)
<1>0. PICK m \in Nat, n \in Nat : m = Len(pieces) /\ n = Len(lines) /\ DOMAIN lines = 1..n
  BY LineShape
<1>1. ASSUME NEW l \in 1..n
      PROVE  /\ Len(lines[l]) \in Nat /\ Len(lines[l]) >= 1 /\ DOMAIN lines[l] = 1..Len(lines[l])
             /\ \A i \in 1..Len(lines[l]) : lines[l][i] \in 1..m
  BY <1>0, LineShape
<1>n. n > 0 /\ n \in 1..n
  BY <1>0 DEF Lengthens
<1>k. PICK k \in Nat : k = Len(lines[n]) /\ k >= 1 /\ DOMAIN lines[n] = 1..k /\ lines[n] \in Seq(Nat)
  BY <1>0, <1>n, LineShape
<1>2. lines[n][k] = m /\ k \in 1..k /\ m \in 1..m
  <2>1. lines[n][k] = m
    <3>1. lines # <<>> => lines[Len(lines)][Len(lines[Len(lines)])] = Len(pieces)
      BY LineShape
    <3>2. lines # <<>>
      BY <1>0, <1>n, LineShape
    <3> QED BY <1>0, <1>k, <3>1, <3>2
  <2> QED BY <1>1, <1>n, <1>k, <2>1
<1>a. DOMAIN more = 1..n /\ Len(more) = n /\ more # <<>>
  BY <1>0, <1>n, LenProperties, EmptySeq DEF Lengthens
<1>b. Len(all) = m + 1 /\ \A i \in 1..m : all[i] = pieces[i]
  BY <1>0 DEF Lengthens, OneMore
<1>c. \A l \in 1..n : l # n => more[l] = lines[l]
  BY <1>0 DEF Lengthens
<1>e. /\ DOMAIN more[n] = 1..(k + 1) /\ Len(more[n]) = k + 1 /\ more[n] # <<>>
      /\ \A i \in 1..k : more[n][i] = lines[n][i]
      /\ more[n][k + 1] = m + 1
  <2>1. PICK line : line = Append(lines[n], m + 1)
    OBVIOUS
  <2>2. /\ line \in Seq(Nat) /\ Len(line) = k + 1
        /\ \A i \in 1..k : line[i] = lines[n][i]
        /\ line[k + 1] = m + 1
    BY <1>k, <2>1, AppendProperties
  <2>3. DOMAIN line = 1..(k + 1) /\ line # <<>>
    BY <2>2, LenProperties, EmptySeq
  <2>4. more[n] = line
    BY <1>0, <2>1 DEF Lengthens
  <2> QED BY <2>2, <2>3, <2>4
<1>g. all[m].from = all[m + 1].from /\ ~all[m].newline
  <2>1. pieces[m].from = all[m + 1].from /\ ~pieces[m].newline
    BY <1>0, <1>b DEF Lengthens, GoesOn
  <2> QED BY <1>2, <1>b, <2>1
<1>3. ASSUME NEW i \in 1..(k + 1), i # k + 1
      PROVE  i \in 1..k /\ more[n][i] = lines[n][i]
  <2>1. i \in 1..k
    BY <1>3
  <2> QED BY <1>e, <2>1
<1>4. Within(more, all)
  <2> SUFFICES ASSUME NEW l \in 1..n, NEW i \in DOMAIN more[l] PROVE more[l][i] \in 1..(m + 1)
    BY <1>a, <1>b DEF Within
  <2>1. CASE l # n
    <3>1. more[l] = lines[l]
      BY <1>c, <2>1
    <3>2. lines[l][i] \in 1..m
      BY <1>1, <3>1
    <3> QED BY <3>1, <3>2
  <2>2. CASE l = n /\ i # k + 1
    <3>1. i \in 1..k /\ more[n][i] = lines[n][i]
      BY <1>3, <1>e, <2>2
    <3>2. lines[n][i] \in 1..m
      BY <1>1, <1>n, <1>k, <3>1
    <3> QED BY <2>2, <3>1, <3>2
  <2>3. CASE l = n /\ i = k + 1
    BY <1>e, <2>3
  <2> QED BY <2>1, <2>2, <2>3
<1>5. Whole(more, all)
  <2>1. ASSUME NEW l \in 1..n, NEW c, c = IF l = 1 THEN 0 ELSE LastOn(more[l - 1])
        PROVE  more[l] # <<>> /\ \A i \in DOMAIN more[l] : more[l][i] = i + c
    <3>1. l # 1 => l - 1 \in 1..n /\ l - 1 # n
      OBVIOUS
    <3>2. l # 1 => more[l - 1] = lines[l - 1]
      BY <1>c, <3>1
    <3>3. c = IF l = 1 THEN 0 ELSE LastOn(lines[l - 1])
      BY <2>1, <3>2
    <3>4. lines[l] # <<>> /\ \A i \in DOMAIN lines[l] : lines[l][i] = i + c
      BY <1>0, <3>3 DEF WellMade, Whole
    <3>5. c \in Int
      <4>1. l # 1 => Len(lines[l - 1]) \in 1..Len(lines[l - 1])
        BY <1>1, <3>1
      <4>2. l # 1 => LastOn(lines[l - 1]) \in 1..m
        BY <1>1, <3>1, <4>1 DEF LastOn
      <4> QED BY <3>3, <4>2
    <3>6. CASE l # n
      <4>1. more[l] = lines[l]
        BY <1>c, <3>6
      <4> QED BY <3>4, <4>1
    <3>7. CASE l = n
      <4>1. ASSUME NEW i \in 1..(k + 1) PROVE more[n][i] = i + c
        <5>1. CASE i # k + 1
          <6>1. i \in 1..k /\ more[n][i] = lines[n][i]
            BY <1>3, <5>1
          <6>2. i \in DOMAIN lines[n]
            BY <1>k, <6>1
          <6> QED BY <3>4, <3>7, <6>1, <6>2
        <5>2. CASE i = k + 1
          <6>1. k \in DOMAIN lines[n]
            BY <1>2, <1>k
          <6>2. m = k + c
            BY <1>2, <3>4, <3>7, <6>1
          <6>3. (k + c) + 1 = (k + 1) + c
            BY <3>5
          <6> QED BY <1>e, <5>2, <6>2, <6>3
        <5> QED BY <5>1, <5>2
      <4> QED BY <1>e, <3>7, <4>1
    <3> QED BY <3>6, <3>7
  <2>2. LastOn(LastOn(more)) = m + 1
    BY <1>a, <1>e DEF LastOn
  <2> QED BY <1>a, <1>b, <2>1, <2>2 DEF Whole
<1>6. Pure(more, all)
  <2> SUFFICES ASSUME NEW l \in 1..n, NEW i \in 1..(Len(more[l]) - 1)
               PROVE  /\ all[more[l][i]].from = all[more[l][i + 1]].from
                      /\ ~all[more[l][i]].newline
    BY <1>a DEF Pure
  <2>1. CASE l = n /\ i = k
    <3>1. more[l][i] = m /\ more[l][i + 1] = m + 1
      BY <1>2, <1>e, <2>1
    <3> QED BY <1>g, <3>1
  <2>2. CASE ~(l = n /\ i = k)
    <3>1. i \in 1..(Len(lines[l]) - 1)
      <4>1. CASE l # n
        <5>1. more[l] = lines[l]
          BY <1>c, <4>1
        <5> QED BY <5>1
      <4>2. CASE l = n
        <5>1. Len(more[l]) = k + 1 /\ Len(lines[l]) = k /\ i # k
          BY <1>e, <1>k, <2>2, <4>2
        <5> QED BY <5>1
      <4> QED BY <4>1, <4>2
    <3>2. i \in 1..Len(lines[l]) /\ i + 1 \in 1..Len(lines[l])
      BY <1>1, <3>1
    <3>3. more[l][i] = lines[l][i] /\ more[l][i + 1] = lines[l][i + 1]
      <4>1. CASE l # n
        BY <1>c, <4>1
      <4>2. CASE l = n
        BY <1>e, <1>k, <3>2, <4>2
      <4> QED BY <4>1, <4>2
    <3>4. lines[l][i] \in 1..m /\ lines[l][i + 1] \in 1..m
      BY <1>1, <3>2
    <3>5. pieces[lines[l][i]].from = pieces[lines[l][i + 1]].from /\ ~pieces[lines[l][i]].newline
      BY <1>0, <3>1 DEF WellMade, Pure
    <3> QED BY <1>b, <3>3, <3>4, <3>5
  <2> QED BY <2>1, <2>2
<1>7. Len(all) \in Nat /\ more \in Seq(Seq(Nat))
  BY <1>b DEF Lengthens
<1> QED BY <1>4, <1>5, <1>6, <1>7 DEF WellMade

\* A piece that goes on with the last line.
LEMMA LineContinued ==
  ASSUME NEW P, NEW pieces \in Seq(P), NEW p \in P, NEW lines, WellMade(lines, pieces), GoesOn(pieces, p.from),
         NEW more, more = [lines EXCEPT ![Len(lines)] = Append(@, Len(pieces) + 1)],
         NEW all, all = Append(pieces, p)
  PROVE  /\ WellMade(more, all) /\ Holds(more, lines)
         /\ Together(more, Len(pieces))
<1>0. PICK m \in Nat, n \in Nat : m = Len(pieces) /\ n = Len(lines)
  BY LineShape
<1>1. n > 0 /\ n \in 1..n /\ lines # <<>> /\ m > 0
  BY <1>0, LineShape DEF GoesOn
<1>2. PICK k \in Nat : k = Len(lines[n]) /\ k >= 1 /\ lines[n] \in Seq(Nat) /\ lines[n][k] = m
  BY <1>0, <1>1, LineShape
<1>3. PICK line : line = Append(lines[n], m + 1)
  OBVIOUS
<1>4. /\ line \in Seq(Nat) /\ Len(line) = k + 1 /\ DOMAIN line = 1..(k + 1) /\ line # <<>>
      /\ \A i \in 1..k : line[i] = lines[n][i]
      /\ line[k + 1] = m + 1
  <2>1. /\ line \in Seq(Nat) /\ Len(line) = k + 1
        /\ \A i \in 1..k : line[i] = lines[n][i]
        /\ line[k + 1] = m + 1
    BY <1>2, <1>3, AppendProperties
  <2> QED BY <2>1, LenProperties, EmptySeq
<1>5. /\ more \in Seq(Seq(Nat)) /\ Len(more) = n /\ DOMAIN more = 1..n /\ more # <<>>
      /\ \A l \in 1..n : l # n => more[l] = lines[l]
      /\ more[n] = line
  <2>0. PICK S : S = Seq(Nat)
    OBVIOUS
  <2>1. lines \in Seq(S) /\ line \in S /\ more = [lines EXCEPT ![n] = line]
    BY <1>0, <1>3, <1>4, <2>0 DEF WellMade
  <2>2. /\ more \in Seq(S) /\ Len(more) = n
        /\ \A l \in 1..n : more[l] = IF l = n THEN line ELSE lines[l]
    <3>1. n \in 1..Len(lines)
      BY <1>0, <1>1
    <3>2. /\ [lines EXCEPT ![n] = line] \in Seq(S) /\ Len([lines EXCEPT ![n] = line]) = Len(lines)
          /\ \A j \in 1..Len(lines) : [lines EXCEPT ![n] = line][j] = IF j = n THEN line ELSE lines[j]
      BY <2>1, <3>1, ExceptSeq
    <3> QED BY <1>0, <2>1, <3>2
  <2>3. DOMAIN more = 1..n /\ more # <<>>
    BY <1>1, <2>2, LenProperties, EmptySeq
  <2>4. \A l \in 1..n : l # n => more[l] = lines[l]
    BY <2>2
  <2>5. more[n] = line
    BY <1>1, <2>2
  <2> QED BY <2>0, <2>2, <2>3, <2>4, <2>5
<1>6. /\ all \in Seq(P) /\ Len(all) = m + 1 /\ all[m + 1] = p /\ \A i \in 1..m : all[i] = pieces[i]
  BY <1>0, AppendProperties
<1>8. WellMade(more, all)
  <2>1. p = all[Len(all)]
    BY <1>6
  <2>2. Lengthens(more, all, lines, pieces)
    BY <1>0, <1>1, <1>3, <1>5, <1>6, <2>1 DEF Lengthens, OneMore
  <2> QED BY <2>2, ContinuedWell
<1>9. Holds(more, lines)
  <2>1. ASSUME NEW l \in 1..n
        PROVE  Len(lines[l]) <= Len(more[l]) /\ \A i \in 1..Len(lines[l]) : more[l][i] = lines[l][i]
    <3>1. Len(lines[l]) \in Nat
      BY <1>0, LineShape
    <3> QED BY <1>2, <1>4, <1>5, <3>1
  <2> QED BY <1>0, <1>5, <2>1 DEF Holds
<1>10. Together(more, m)
  <2>1. n \in DOMAIN more
    BY <1>1, <1>5
  <2>2. k \in DOMAIN more[n] /\ k + 1 \in DOMAIN more[n] /\ more[n][k] = m /\ more[n][k + 1] = m + 1
    BY <1>2, <1>4, <1>5
  <2>3. {m, m + 1} \subseteq {more[n][i] : i \in DOMAIN more[n]}
    BY <2>2
  <2> QED BY <2>1, <2>3 DEF Together
<1> QED BY <1>0, <1>8, <1>9, <1>10

\* What was said in one go stays on its line.
LEMMA JoinedStays ==
  ASSUME NEW P, NEW pieces \in Seq(P), NEW p \in P, NEW lines, WellMade(lines, pieces), Joined(lines, pieces),
         NEW all, all = Append(pieces, p), NEW more, WellMade(more, all), Holds(more, lines),
         GoesOn(pieces, p.from) => Together(more, Len(pieces))
  PROVE  Joined(more, all)
<1>0. PICK m \in Nat : m = Len(pieces)
  BY LenProperties
<1>1. /\ all \in Seq(P) /\ Len(all) = m + 1 /\ all[m + 1] = p /\ \A i \in 1..m : all[i] = pieces[i]
  BY <1>0, AppendProperties
<1> SUFFICES ASSUME NEW n \in 1..m, all[n].from = all[n + 1].from, ~all[n].newline
             PROVE  Together(more, n)
  BY <1>1 DEF Joined
<1>2. CASE n \in 1..(m - 1)
  <2>1. pieces[n].from = pieces[n + 1].from /\ ~pieces[n].newline
    BY <1>1, <1>2
  <2>2. PICK l \in DOMAIN lines : {n, n + 1} \subseteq {lines[l][i] : i \in DOMAIN lines[l]}
    BY <1>0, <1>2, <2>1 DEF Joined, Together
  <2>3. /\ Len(lines) \in Nat /\ DOMAIN lines = 1..Len(lines) /\ Len(more) \in Nat /\ DOMAIN more = 1..Len(more)
        /\ Len(lines) <= Len(more)
    BY <1>1, LineShape DEF Holds
  <2>4. /\ l \in 1..Len(lines) /\ l \in 1..Len(more)
    BY <2>3
  <2>5. /\ Len(lines[l]) \in Nat /\ DOMAIN lines[l] = 1..Len(lines[l])
        /\ Len(more[l]) \in Nat /\ DOMAIN more[l] = 1..Len(more[l])
    BY <1>1, <2>4, LineShape
  <2>6. \A i \in DOMAIN lines[l] : i \in DOMAIN more[l] /\ more[l][i] = lines[l][i]
    BY <2>4, <2>5 DEF Holds
  <2>7. {n, n + 1} \subseteq {more[l][i] : i \in DOMAIN more[l]}
    BY <2>2, <2>6
  <2> QED BY <2>3, <2>4, <2>7 DEF Together
<1>3. CASE n = m
  <2>1. m # 0 /\ pieces[m].from = p.from /\ ~pieces[m].newline
    BY <1>1, <1>3
  <2>2. GoesOn(pieces, p.from)
    BY <1>0, <2>1 DEF GoesOn
  <2> QED BY <1>0, <1>3, <2>2
<1> QED BY <1>2, <1>3

\* What a handler does with a piece, once its stream is turned to.
LEMMA PieceAdded ==
  ASSUME NEW P, NEW pieces \in Seq(P), NEW p \in P, NEW h, WellMade(h.lines, pieces),
         NEW all, all = Append(pieces, p), NEW c \in BOOLEAN, c => GoesOn(pieces, p.from),
         NEW more, more = IF c THEN Continued(h, Len(pieces) + 1) ELSE NewLine(h, Len(pieces) + 1)
  PROVE  /\ WellMade(more, all) /\ Holds(more, h.lines)
         /\ c => Together(more, Len(pieces))
<1>1. CASE c
  <2>1. PICK lines : lines = h.lines
    OBVIOUS
  <2>2. WellMade(lines, pieces) /\ more = [lines EXCEPT ![Len(lines)] = Append(@, Len(pieces) + 1)]
    BY <1>1, <2>1 DEF Continued
  <2>3. GoesOn(pieces, p.from)
    BY <1>1
  <2>4. /\ WellMade(more, all) /\ Holds(more, lines)
        /\ Together(more, Len(pieces))
    <3> QED BY <2>2, <2>3, LineContinued
  <2> QED BY <2>1, <2>4
<1>2. CASE ~c
  <2>1. PICK lines : lines = h.lines
    OBVIOUS
  <2>2. WellMade(lines, pieces) /\ more = Append(lines, <<Len(pieces) + 1>>)
    BY <1>2, <2>1 DEF NewLine
  <2> QED BY <1>2, <2>1, <2>2, LineAdded
<1> QED BY <1>1, <1>2

\* The types of a handler.
Handler == [key : Streams \cup {""}, open : BOOLEAN, lines : Seq(Seq(Nat))]

PieceTold == [from : Streams \cup {"log"}, newline : BOOLEAN]

LEMMA TextRecordStep ==
  ASSUME TranscriptInv, NEW k \in Streams, NEW text \in Texts, TextRecord(k, text)
  PROVE  TranscriptInv'
<1>1. /\ rest' = text /\ key' = k /\ UNCHANGED <<told, feed>>
      /\ console' = [console EXCEPT !.key = k, !.open = (console.open /\ console.key = k)]
  BY DEF TextRecord, TurnTo
<1>2. console \in Handler /\ feed \in Handler /\ text \in Seq(BOOLEAN)
  BY TranscriptAssumption DEF TranscriptInv, TranscriptTypeOK, Handler
<1>3. /\ console'.key = k /\ console'.open = (console.open /\ console.key = k) /\ console'.lines = console.lines
      /\ console' \in Handler
  BY <1>1, <1>2 DEF Handler
<1>4. TranscriptTypeOK'
  BY <1>1, <1>2, <1>3 DEF TranscriptInv, TranscriptTypeOK, Handler
<1>5. WellMade(console.lines, told)' /\ WellMade(feed.lines, told)' /\ Joined(feed.lines, told)'
  BY <1>1, <1>3 DEF TranscriptInv
<1>6. OpenLine(console)' /\ OpenLine(feed)' /\ FeedOpen' /\ TextInv'
  BY <1>1, <1>3 DEF TranscriptInv, OpenLine, FeedOpen, TextInv, GoesOn
<1> QED BY <1>4, <1>5, <1>6 DEF TranscriptInv

LEMMA TextPieceStep ==
  ASSUME TranscriptInv, TextPiece
  PROVE  TranscriptInv'
<1>0. PICK p, n : p = [from |-> key, newline |-> rest[1]] /\ n = Len(told) + 1
  OBVIOUS
<1>1. /\ rest # <<>> /\ rest' = Tail(rest) /\ told' = Append(told, p) /\ key' = key
      /\ console' = ConsolePiece(console, n, rest[1])
      /\ feed' = FeedPiece(feed, key, n, rest[1])
  BY <1>0 DEF TextPiece
<1>2. /\ console \in Handler /\ feed \in Handler /\ told \in Seq(PieceTold) /\ rest \in Seq(BOOLEAN)
      /\ WellMade(console.lines, told) /\ WellMade(feed.lines, told)
  BY DEF TranscriptInv, TranscriptTypeOK, Handler, PieceTold
<1>3. key \in Streams /\ console.key = key /\ rest[1] \in BOOLEAN /\ Tail(rest) \in Seq(BOOLEAN)
  <2>1. rest[1] \in BOOLEAN /\ Tail(rest) \in Seq(BOOLEAN)
    BY <1>1, <1>2, HeadTailProperties, EmptySeq
  <2> QED BY <1>1, <2>1 DEF TranscriptInv, TextInv
<1>4. p \in PieceTold /\ p.from = key /\ p.newline = rest[1]
  BY <1>0, <1>3 DEF PieceTold
<1>5. /\ told' \in Seq(PieceTold) /\ Len(told') = n /\ told'[n] = p /\ n \in Nat /\ n > 0
  BY <1>0, <1>1, <1>2, <1>4, AppendProperties, LenProperties
<1>6. ASSUME NEW k, GoesOn(told', k) PROVE k = key /\ ~rest[1]
  BY <1>4, <1>5, <1>6 DEF GoesOn
<1>7. ~rest[1] => GoesOn(told', key)
  BY <1>4, <1>5 DEF GoesOn
<1>8. /\ WellMade(console.lines, told)'
      /\ console' = [console EXCEPT !.open = ~rest[1], !.lines = console'.lines]
  <2>1. PICK c, m : c = console.open /\ m = IF console.open THEN Continued(console, n) ELSE NewLine(console, n)
    OBVIOUS
  <2>2. console' = [console EXCEPT !.open = ~rest[1], !.lines = m] /\ console'.lines = m
    BY <1>1, <1>2, <2>1 DEF ConsolePiece, Handler
  <2>3. c \in BOOLEAN /\ (c => GoesOn(told, p.from))
    BY <1>2, <1>3, <1>4, <2>1 DEF TranscriptInv, OpenLine, Handler
  <2>4. PICK all : all = told'
    OBVIOUS
  <2>5. WellMade(m, all)
    BY <1>0, <1>1, <1>2, <1>4, <2>1, <2>3, <2>4, PieceAdded
  <2> QED BY <2>2, <2>4, <2>5
<1>9. /\ WellMade(feed.lines, told)' /\ Joined(feed.lines, told)'
      /\ feed' = [key |-> key, open |-> ~rest[1], lines |-> feed'.lines]
  <2>1. PICK c, m : c = (feed.open /\ feed.key = key /\ feed.lines # <<>>)
                    /\ m = IF feed.open /\ feed.key = key /\ feed.lines # <<>> THEN Continued(feed, n) ELSE NewLine(feed, n)
    OBVIOUS
  <2>2. feed' = [key |-> key, open |-> ~rest[1], lines |-> m] /\ feed'.lines = m
    BY <1>1, <2>1 DEF FeedPiece
  <2>3. c \in BOOLEAN /\ (c => GoesOn(told, p.from))
    BY <1>2, <1>4, <2>1 DEF TranscriptInv, OpenLine, Handler
  <2>4. PICK all : all = told'
    OBVIOUS
  <2>5. /\ WellMade(m, all) /\ Holds(m, feed.lines)
        /\ c => Together(m, Len(told))
    <3>1. m = IF c THEN Continued(feed, Len(told) + 1) ELSE NewLine(feed, Len(told) + 1)
      BY <1>0, <2>1
    <3>2. told \in Seq(PieceTold) /\ WellMade(feed.lines, told) /\ all = Append(told, p)
      BY <1>1, <1>2, <2>4
    <3> QED BY <1>4, <2>3, <3>1, <3>2, PieceAdded
  <2>6. GoesOn(told, p.from) => c
    <3>1. GoesOn(told, p.from) => feed.open /\ feed.key = key
      BY <1>3, <1>4 DEF TranscriptInv, FeedOpen
    <3>2. GoesOn(told, p.from) => feed.lines # <<>>
      <4>1. feed.lines = <<>> => Len(told) = 0
        BY <1>2, LineShape
      <4> QED BY <4>1 DEF GoesOn
    <3> QED BY <2>1, <3>1, <3>2
  <2>7. Joined(m, all)
    <3>1. Joined(feed.lines, told)
      BY DEF TranscriptInv
    <3>2. PICK lines : lines = feed.lines
      OBVIOUS
    <3> QED BY <1>1, <1>2, <1>4, <2>4, <2>5, <2>6, <3>1, <3>2, JoinedStays
  <2> QED BY <2>2, <2>4, <2>5, <2>7
<1>10. console'.lines \in Seq(Seq(Nat)) /\ feed'.lines \in Seq(Seq(Nat))
  BY <1>8, <1>9 DEF WellMade
<1>11. /\ console' \in Handler /\ console'.key = key /\ console'.open = ~rest[1]
       /\ feed' \in Handler /\ feed'.key = key /\ feed'.open = ~rest[1]
  <2>1. console' \in Handler /\ console'.key = key /\ console'.open = ~rest[1]
    <3>1. PICK m : m = console'.lines
      OBVIOUS
    <3>2. console' = [console EXCEPT !.open = ~rest[1], !.lines = m] /\ m \in Seq(Seq(Nat))
      BY <1>8, <1>10, <3>1
    <3> QED BY <1>2, <1>3, <3>2 DEF Handler
  <2>2. feed' \in Handler /\ feed'.key = key /\ feed'.open = ~rest[1]
    <3>1. PICK m : m = feed'.lines
      OBVIOUS
    <3>2. feed' = [key |-> key, open |-> ~rest[1], lines |-> m] /\ m \in Seq(Seq(Nat))
      BY <1>9, <1>10, <3>1
    <3> QED BY <1>3, <3>2 DEF Handler
  <2> QED BY <2>1, <2>2
<1>12. TranscriptTypeOK'
  BY <1>1, <1>3, <1>5, <1>11 DEF TranscriptTypeOK, Handler, PieceTold
<1>13. OpenLine(console)' /\ OpenLine(feed)'
  BY <1>7, <1>11 DEF OpenLine
<1>14. FeedOpen'
  <2>1. ASSUME NEW k \in Streams \cup {"log"}, GoesOn(told', k) PROVE feed'.open /\ feed'.key = k
    BY <1>6, <1>11, <2>1
  <2> QED BY <2>1 DEF FeedOpen
<1>15. TextInv'
  BY <1>1, <1>3, <1>11 DEF TextInv
<1> QED BY <1>8, <1>9, <1>12, <1>13, <1>14, <1>15 DEF TranscriptInv

LEMMA OtherRecordStep ==
  ASSUME TranscriptInv, OtherRecord
  PROVE  TranscriptInv'
<1>0. PICK p, n : p = [from |-> "log", newline |-> TRUE] /\ n = Len(told) + 1
  OBVIOUS
<1>1. /\ rest = <<>> /\ told' = Append(told, p) /\ UNCHANGED <<rest, key>>
      /\ console' = [console EXCEPT !.open = FALSE, !.lines = NewLine(console, n)]
      /\ feed' = [feed EXCEPT !.open = FALSE, !.lines = NewLine(feed, n)]
  BY <1>0 DEF OtherRecord, ConsoleRecord, FeedRecord
<1>2. /\ console \in Handler /\ feed \in Handler /\ told \in Seq(PieceTold)
      /\ WellMade(console.lines, told) /\ WellMade(feed.lines, told) /\ Joined(feed.lines, told)
  BY DEF TranscriptInv, TranscriptTypeOK, Handler, PieceTold
<1>3. p \in PieceTold /\ p.from = "log" /\ p.newline
  BY <1>0 DEF PieceTold
<1>4. /\ told' \in Seq(PieceTold) /\ Len(told') = n /\ told'[n] = p /\ n \in Nat /\ n > 0
  BY <1>0, <1>1, <1>2, <1>3, AppendProperties, LenProperties
<1>5. ~GoesOn(told, "log")
  <2>1. feed.key # "log"
    BY <1>2, TranscriptAssumption DEF Handler
  <2> QED BY <2>1 DEF TranscriptInv, FeedOpen
<1>6. PICK c : c = FALSE
  OBVIOUS
<1>7. PICK all : all = told'
  OBVIOUS
<1>8. /\ console'.open = FALSE /\ console'.lines = NewLine(console, n) /\ console'.key = console.key
      /\ feed'.open = FALSE /\ feed'.lines = NewLine(feed, n) /\ feed'.key = feed.key
  BY <1>1, <1>2 DEF Handler
<1>9. WellMade(console'.lines, all)
  <2>1. PICK m : m = IF c THEN Continued(console, n) ELSE NewLine(console, n)
    OBVIOUS
  <2>2. WellMade(m, all)
    BY <1>0, <1>1, <1>2, <1>3, <1>6, <1>7, <2>1, PieceAdded
  <2> QED BY <1>6, <1>8, <2>1, <2>2
<1>10. WellMade(feed'.lines, all) /\ Joined(feed'.lines, all)
  <2>1. PICK m : m = IF c THEN Continued(feed, n) ELSE NewLine(feed, n)
    OBVIOUS
  <2>2. WellMade(m, all) /\ Holds(m, feed.lines)
    BY <1>0, <1>1, <1>2, <1>3, <1>6, <1>7, <2>1, PieceAdded
  <2>3. PICK lines : lines = feed.lines
    OBVIOUS
  <2>4. Joined(m, all)
    BY <1>1, <1>2, <1>3, <1>5, <1>7, <2>2, <2>3, JoinedStays
  <2> QED BY <1>6, <1>8, <2>1, <2>2, <2>4
<1>11. console' \in Handler /\ feed' \in Handler
  <2>1. console'.lines \in Seq(Seq(Nat)) /\ feed'.lines \in Seq(Seq(Nat))
    BY <1>9, <1>10 DEF WellMade
  <2>2. /\ console' = [console EXCEPT !.open = FALSE, !.lines = console'.lines]
        /\ feed' = [feed EXCEPT !.open = FALSE, !.lines = feed'.lines]
    BY <1>1, <1>8
  <2> QED BY <1>2, <2>1, <2>2 DEF Handler
<1>12. TranscriptTypeOK'
  BY <1>1, <1>4, <1>11 DEF TranscriptInv, TranscriptTypeOK, Handler, PieceTold
<1>13. OpenLine(console)' /\ OpenLine(feed)' /\ TextInv'
  BY <1>1, <1>8 DEF OpenLine, TextInv
<1>14. FeedOpen'
  <2>1. ASSUME NEW k PROVE ~GoesOn(told', k)
    BY <1>3, <1>4 DEF GoesOn
  <2> QED BY <2>1 DEF FeedOpen
<1> QED BY <1>7, <1>9, <1>10, <1>12, <1>13, <1>14 DEF TranscriptInv

LEMMA TranscriptInvariance == TranscriptSpec => []TranscriptInv
<1>1. TranscriptInit => TranscriptInv
  <2> SUFFICES ASSUME TranscriptInit PROVE TranscriptInv
    OBVIOUS
  <2>1. told = <<>> /\ rest = <<>> /\ key = "" /\ console = Fresh /\ feed = Fresh
    BY DEF TranscriptInit
  <2>2. /\ console.lines = <<>> /\ ~console.open /\ feed.lines = <<>> /\ ~feed.open
        /\ console \in Handler /\ feed \in Handler
    <3>1. <<>> \in Seq(Seq(Nat))
      BY EmptySeq
    <3> QED BY <2>1, <3>1 DEF Fresh, Handler
  <2>3. TranscriptTypeOK
    BY <2>1, <2>2, EmptySeq DEF TranscriptTypeOK, Handler
  <2>4. WellMade(<<>>, <<>>) /\ Joined(<<>>, <<>>)
    <3>1. Len(<<>>) = 0 /\ DOMAIN <<>> = {} /\ <<>> \in Seq(Seq(Nat))
      BY EmptySeq
    <3> QED BY <3>1 DEF WellMade, Within, Whole, Pure, Joined
  <2>5. OpenLine(console) /\ OpenLine(feed) /\ FeedOpen /\ TextInv
    <3>0. Len(told) = 0
      BY <2>1, EmptySeq
    <3>1. \A k : ~GoesOn(told, k)
      BY <3>0 DEF GoesOn
    <3> QED BY <2>1, <2>2, <3>1 DEF OpenLine, FeedOpen, TextInv
  <2> QED BY <2>1, <2>2, <2>3, <2>4, <2>5 DEF TranscriptInv
<1>2. TranscriptInv /\ [TranscriptNext]_transcriptVars => TranscriptInv'
  <2> SUFFICES ASSUME TranscriptInv, [TranscriptNext]_transcriptVars PROVE TranscriptInv'
    OBVIOUS
  <2>1. CASE UNCHANGED transcriptVars
    <3>1. told' = told /\ rest' = rest /\ key' = key /\ console' = console /\ feed' = feed
      BY <2>1 DEF transcriptVars
    <3>2. TranscriptTypeOK' /\ TextInv'
      BY <3>1 DEF TranscriptInv, TranscriptTypeOK, TextInv
    <3>3. WellMade(console.lines, told)' /\ WellMade(feed.lines, told)' /\ Joined(feed.lines, told)'
      BY <3>1 DEF TranscriptInv
    <3>4. OpenLine(console)' /\ OpenLine(feed)' /\ FeedOpen'
      BY <3>1 DEF TranscriptInv, OpenLine, FeedOpen
    <3> QED BY <3>2, <3>3, <3>4 DEF TranscriptInv
  <2> QED BY <2>1, TextRecordStep, TextPieceStep, OtherRecordStep DEF TranscriptNext
<1> QED BY <1>1, <1>2, PTL DEF TranscriptSpec

\* The variables of the log handlers have their types.
THEOREM TranscriptTypeCorrect == TranscriptSpec => []TranscriptTypeOK
<1>1. TranscriptInv => TranscriptTypeOK
  BY DEF TranscriptInv
<1> QED BY <1>1, TranscriptInvariance, PTL

\* However the texts of any number of streams and other records are mixed,
\* both logs stay readable: a line is of one stream and ends at a newline, and
\* every piece is told once, in order (console.go, dashboard.go: Handle).
THEOREM LinesStayReadable == TranscriptSpec => []LinesAreReadable
<1>1. TranscriptInv => LinesAreReadable
  BY DEF TranscriptInv, WellMade, LinesAreReadable
<1> QED BY <1>1, TranscriptInvariance, PTL
=============================================================================
