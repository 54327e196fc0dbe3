---------------------------- MODULE AttemptProofs ----------------------------
(***************************************************************************)
(* Proofs about what an attempt does, for any number of findings and       *)
(* comments, patches of every length, pages and listings of every size and *)
(* any number of edits at any time: sessions and verdicts (Attempt), the   *)
(* lines of a diff (DiffAnchor), and paged listings (Listing).             *)
(***************************************************************************)
EXTENDS Attempt, DiffAnchor, Listing, FiniteSetTheorems, SequenceTheorems, TLAPS

\* A session has a place in the attempt.
SessionHasStage == session # "none" => stage \in {"investigate", "verify"}

\* How many findings have been judged at a stage.
Judged ==
  /\ stage \in {"investigate", "findings"} => candidates = <<>>
  /\ stage \in {"anchor", "verify", "verdict"} => Len(candidates) < total
  /\ stage \in {"compose", "done"} => Len(candidates) = total

\* The payload has the confirmed findings at all times.
PayloadMatches ==
  /\ comments \cup summaryFindings = Confirmed
  /\ comments \cap summaryFindings = {}

\* What the i-th finding was to be compared with.
ComparisonOf(i) == history \cup {Candidate(k) : k \in {k \in 1..(i - 1) : candidates[k].verdict = "confirmed"}}

Compared ==
  \A i \in DOMAIN candidates :
    /\ candidates[i].checked = ComparisonOf(i)
    /\ candidates[i].verdict = "duplicate" => candidates[i].duplicate \in ComparisonOf(i)

AttemptInv ==
  /\ AttemptTypeOK /\ SessionHasStage /\ SessionsCleanUp /\ EvidenceUntampered
  /\ Judged /\ PayloadMatches /\ Compared

-----------------------------------------------------------------------------
\* Every ID exactly once: parseVerification's count and its test for
\* repetitions leave no ID out.
LEMMA ValidIsComplete ==
  ASSUME AttemptTypeOK, NEW n \in Nat, NEW checked \in [1..n -> Ids], ValidChecked(checked)
  PROVE  {checked[k] : k \in DOMAIN checked} = Comparison
<1>1. /\ Len(candidates) \in Nat /\ DOMAIN candidates = 1..Len(candidates)
      /\ history \subseteq Discussion
  BY LenProperties DEF AttemptTypeOK
<1>2. IsFiniteSet(Comparison)
  <2>1. IsFiniteSet(history)
    BY <1>1, AttemptAssumption, FS_Subset
  <2>2. IsFiniteSet(Confirmed)
    <3>1. IsFiniteSet(1..Len(candidates))
      BY <1>1, FS_Interval
    <3> QED BY <1>1, <3>1, FS_Subset DEF Confirmed
  <2>3. IsFiniteSet({Candidate(i) : i \in Confirmed})
    <3> DEFINE T == {Candidate(i) : i \in Confirmed}
               f == [i \in Confirmed |-> Candidate(i)]
    <3>1. f \in Surjection(Confirmed, T)
      BY DEF Surjection
    <3> HIDE DEF f, T
    <3>2. IsFiniteSet(T)
      BY <2>2, <3>1, FS_Surjection
    <3> QED BY <3>2 DEF T
  <2> QED BY <2>1, <2>3, FS_Union DEF Comparison
<1>3. DOMAIN checked = 1..n /\ checked \in Seq(Ids) /\ Len(checked) = n
  <2>1. checked \in Seq(Ids)
    OBVIOUS
  <2> QED BY <2>1, LenProperties
<1>4. checked \in Injection(1..n, Comparison)
  BY <1>3 DEF ValidChecked, Injection, IsInjective
<1>5. Cardinality(1..n) = Cardinality(Comparison)
  <2>1. Cardinality(1..n) = n
    BY FS_Interval
  <2> QED BY <1>3, <2>1 DEF ValidChecked
<1>6. checked \in Surjection(1..n, Comparison)
  BY <1>2, <1>4, <1>5, FS_Injection
<1> QED BY <1>3, <1>4, <1>6 DEF Surjection, Injection

\* The confirmed findings before the next one are those there are.
LEMMA NextComparison ==
  ASSUME AttemptTypeOK
  PROVE  Comparison = ComparisonOf(Len(candidates) + 1)
<1>1. Len(candidates) \in Nat /\ DOMAIN candidates = 1..Len(candidates)
  BY LenProperties DEF AttemptTypeOK
<1>2. 1..(Len(candidates) + 1 - 1) = DOMAIN candidates
  BY <1>1
<1> QED BY <1>2 DEF Comparison, ComparisonOf, Confirmed

-----------------------------------------------------------------------------
LEMMA InitAttempt == AttemptInit => AttemptInv
<1> SUFFICES ASSUME AttemptInit PROVE AttemptInv
  OBVIOUS
<1>1. candidates \in Seq(Judgement) /\ DOMAIN candidates = {} /\ Len(candidates) = 0
  <2>1. 1..0 = {}
    OBVIOUS
  <2> QED BY <2>1, EmptySeq, LenProperties DEF AttemptInit
<1>2. AttemptTypeOK
  <2>1. {error, tampered, local} \subseteq BOOLEAN
    BY Zenon DEF AttemptInit
  <2>2. comments \cup summaryFindings \subseteq DOMAIN candidates
    BY DEF AttemptInit
  <2>3. attempts \in 0..MaxAttempts /\ total \in 0..MaxFindings
    BY AttemptAssumption DEF AttemptInit
  <2> QED BY <1>1, <2>1, <2>2, <2>3 DEF AttemptInit, AttemptTypeOK, Ended
<1>3. SessionHasStage /\ SessionsCleanUp /\ EvidenceUntampered /\ Judged
  BY DEF AttemptInit, SessionHasStage, SessionsCleanUp, EvidenceUntampered, Judged
<1>4. PayloadMatches /\ Compared
  BY <1>1 DEF AttemptInit, PayloadMatches, Confirmed, Compared
<1> QED BY <1>2, <1>3, <1>4 DEF AttemptInv

\* A step that leaves the findings alone keeps what is said about them.
LEMMA FindingsKept ==
  ASSUME AttemptInv, UNCHANGED findings
  PROVE  PayloadMatches' /\ Compared'
<1>1. UNCHANGED <<history, total, local, candidates, comments, summaryFindings>>
  BY DEF findings, payload
<1>2. PayloadMatches'
  BY <1>1 DEF AttemptInv, PayloadMatches, Confirmed
<1>3. Compared'
  <2>1. \A i : ComparisonOf(i)' = ComparisonOf(i)
    BY <1>1 DEF ComparisonOf
  <2> QED BY <1>1, <2>1 DEF AttemptInv, Compared
<1> QED BY <1>2, <1>3

LEMMA BeginAttemptStep ==
  ASSUME AttemptInv, NEW discussion \in SUBSET Discussion, Begin(discussion)
  PROVE  AttemptInv'
<1>1. candidates' = <<>> /\ candidates' \in Seq(Judgement) /\ DOMAIN candidates' = {}
  <2>1. 1..0 = {}
    OBVIOUS
  <2> QED BY <2>1, EmptySeq, LenProperties DEF Begin, FirstCandidates
<1>2. UNCHANGED <<session, error, worktrees, dir, tampered, abandoned>>
  BY DEF Begin, sessionVars
<1>3. AttemptTypeOK'
  <2>1. {error', tampered', local'} \subseteq BOOLEAN
    <3>1. local' = FALSE /\ error' \in BOOLEAN /\ tampered' \in BOOLEAN
      BY <1>2 DEF AttemptInv, AttemptTypeOK, Begin
    <3> QED BY Zenon, <3>1
  <2>2. comments' \cup summaryFindings' \subseteq DOMAIN candidates'
    BY DEF Begin
  <2>3. attempts' \in 0..MaxAttempts /\ total' \in 0..MaxFindings
    BY AttemptAssumption DEF AttemptInv, AttemptTypeOK, Begin
  <2> QED BY <1>1, <1>2, <2>1, <2>2, <2>3 DEF AttemptInv, AttemptTypeOK, Begin, Ended
<1>4. SessionHasStage' /\ SessionsCleanUp' /\ EvidenceUntampered'
  BY <1>2 DEF AttemptInv, Begin, Ended, SessionHasStage, SessionsCleanUp, EvidenceUntampered
<1>5. Judged' /\ PayloadMatches' /\ Compared'
  BY <1>1 DEF Begin, Judged, PayloadMatches, Confirmed, Compared
<1> QED BY <1>3, <1>4, <1>5 DEF AttemptInv

\* The steps of a session.
LEMMA SessionStep ==
  ASSUME AttemptInv, Session
  PROVE  AttemptInv'
<1> USE DEF AttemptInv, SessionHasStage, SessionsCleanUp, EvidenceUntampered, Ended
<1>1. UNCHANGED findings /\ UNCHANGED attempts
  BY DEF Session, AddWorktree, AddFails, Execute, Command, CheckTree, SessionFails, Cleanup, CleanupFails
<1>2. PayloadMatches' /\ Compared' /\ UNCHANGED <<history, total, local, candidates, comments, summaryFindings>>
  BY <1>1, FindingsKept DEF findings, payload
<1>3. ASSUME stage' \in Ended \cup {"investigate", "findings", "anchor", "verify", "verdict", "compose"},
             session' \in {"none", "agent", "check", "command", "recheck", "cleanup"},
             error' \in BOOLEAN, tampered' \in BOOLEAN,
             worktrees' \subseteq Dirs, abandoned' \subseteq worktrees', session' # "none" => dir' \in Dirs
      PROVE  AttemptTypeOK'
  BY <1>1, <1>2, <1>3 DEF AttemptTypeOK
<1>4. ASSUME NEW d \in Dirs, AddWorktree(d) PROVE AttemptInv'
  <2>1. AttemptTypeOK'
    BY <1>3, <1>4 DEF AddWorktree, NewDirs, AttemptTypeOK
  <2> QED BY <1>2, <1>4, <2>1 DEF AddWorktree, AtWork, NewDirs, Judged, AttemptTypeOK
<1>5. ASSUME NEW left \in {{}} \cup {{d} : d \in Dirs}, AddFails(left) PROVE AttemptInv'
  <2>1. AttemptTypeOK'
    BY <1>3, <1>5 DEF AddFails, AtWork, NewDirs, AttemptTypeOK
  <2> QED BY <1>2, <1>5, <2>1 DEF AddFails, AtWork, NewDirs, Judged, AttemptTypeOK
<1>6. ASSUME NEW damage \in BOOLEAN, Execute(damage) PROVE AttemptInv'
  <2>1. AttemptTypeOK'
    BY <1>3, <1>6 DEF Execute, AttemptTypeOK
  <2> QED BY <1>2, <1>6, <2>1 DEF Execute, Judged
<1>7. ASSUME NEW damage \in BOOLEAN, Command(damage) PROVE AttemptInv'
  <2>1. AttemptTypeOK'
    BY <1>3, <1>7 DEF Command, AttemptTypeOK
  <2> QED BY <1>2, <1>7, <2>1 DEF Command, Judged
<1>8. CASE CheckTree
  <2>1. AttemptTypeOK'
    BY <1>3, <1>8 DEF CheckTree, AttemptTypeOK
  <2> QED BY <1>2, <1>8, <2>1 DEF CheckTree, Judged
<1>9. CASE SessionFails
  <2>1. AttemptTypeOK'
    BY <1>3, <1>9 DEF SessionFails, AttemptTypeOK
  <2> QED BY <1>2, <1>9, <2>1 DEF SessionFails, Judged
<1>10. CASE Cleanup
  <2>1. AttemptTypeOK'
    BY <1>3, <1>10 DEF Cleanup, SessionResult, AttemptTypeOK
  <2> QED BY <1>2, <1>10, <2>1 DEF Cleanup, SessionResult, Judged, AttemptTypeOK
<1>11. CASE CleanupFails
  <2>1. AttemptTypeOK'
    BY <1>3, <1>11 DEF CleanupFails, AttemptTypeOK
  <2> QED BY <1>2, <1>11, <2>1 DEF CleanupFails, Judged
<1> QED BY <1>4, <1>5, <1>6, <1>7, <1>8, <1>9, <1>10, <1>11 DEF Session

\* The steps between sessions that judge nothing.
LEMMA OtherStep ==
  ASSUME AttemptInv,
         \/ \E n \in 0..MaxFindings : ParseResult(n)
         \/ \E shown \in BOOLEAN : Anchor(shown)
         \/ Compose \/ StepFails \/ Crash
  PROVE  AttemptInv'
<1> USE DEF AttemptInv, SessionHasStage, SessionsCleanUp, EvidenceUntampered, Ended
<1>1. UNCHANGED <<attempts, history, candidates, comments, summaryFindings>>
  BY DEF ParseResult, Anchor, Compose, StepFails, Crash, findings, payload
<1>2. PayloadMatches'
  BY <1>1 DEF PayloadMatches, Confirmed
<1>3. Compared'
  <2>1. \A i : ComparisonOf(i)' = ComparisonOf(i)
    BY <1>1 DEF ComparisonOf
  <2> QED BY <1>1, <2>1 DEF Compared
<1>4. ASSUME NEW n \in 0..MaxFindings, ParseResult(n) PROVE AttemptInv'
  <2>1. UNCHANGED <<session, error, worktrees, dir, tampered, abandoned, local>> /\ total' = n
        /\ stage = "findings" /\ stage' = IF n = 0 THEN "compose" ELSE "anchor"
    BY <1>4 DEF ParseResult, sessionVars
  <2>2. AttemptTypeOK'
    BY <1>1, <2>1, AttemptAssumption DEF AttemptTypeOK
  <2>3. Judged'
    <3>1. candidates' = <<>> /\ Len(<<>>) = 0
      BY <1>1, <2>1, EmptySeq DEF Judged
    <3> QED BY <2>1, <3>1 DEF Judged
  <2> QED BY <1>2, <1>3, <2>1, <2>2, <2>3
<1>5. ASSUME NEW shown \in BOOLEAN, Anchor(shown) PROVE AttemptInv'
  <2>1. AttemptTypeOK'
    BY <1>1, <1>5 DEF Anchor, sessionVars, AttemptTypeOK
  <2> QED BY <1>1, <1>2, <1>3, <1>5, <2>1 DEF Anchor, sessionVars, Judged
<1>6. CASE Compose \/ StepFails
  <2>1. AttemptTypeOK'
    BY <1>1, <1>6 DEF Compose, StepFails, sessionVars, findings, AttemptTypeOK
  <2> QED BY <1>1, <1>2, <1>3, <1>6, <2>1 DEF Compose, StepFails, sessionVars, findings, Judged
<1>7. CASE Crash
  <2>1. AttemptTypeOK'
    BY <1>1, <1>7 DEF Crash, findings, AttemptTypeOK
  <2> QED BY <1>1, <1>2, <1>3, <1>7, <2>1 DEF Crash, Judged, AttemptTypeOK
<1> QED BY <1>4, <1>5, <1>6, <1>7

LEMMA VerdictStep ==
  ASSUME AttemptInv, NEW n \in Nat, NEW checked \in [1..n -> Ids], NEW verdict \in Verdicts,
         NEW duplicate \in Ids \cup {<<>>}, NEW shown \in BOOLEAN,
         Verdict(verdict, duplicate, checked, shown)
  PROVE  AttemptInv'
<1> DEFINE l == Len(candidates)
           j == [verdict |-> verdict, duplicate |-> duplicate, checked |-> Comparison]
<1>1. AttemptTypeOK /\ candidates \in Seq(Judgement) /\ l \in Nat /\ DOMAIN candidates = 1..l
  BY LenProperties DEF AttemptInv, AttemptTypeOK
<1>2. /\ stage = "verdict" /\ stage' \in {"failed", IF l + 1 < total THEN "anchor" ELSE "compose"}
      /\ UNCHANGED <<attempts, session, error, worktrees, dir, tampered, abandoned, history, total, local>>
      /\ ValidVerdict(verdict, duplicate)
  BY DEF Verdict, sessionVars
<1>3. candidates' = Append(candidates, j)
  <2>1. ValidChecked(checked)
    BY DEF Verdict
  <2>2. {checked[k] : k \in DOMAIN checked} = Comparison
    BY <1>1, <2>1, ValidIsComplete
  <2> QED BY <2>2 DEF Verdict
<1>4. l < total /\ total \in 0..MaxFindings /\ MaxFindings \in Nat
  BY <1>2, AttemptAssumption DEF AttemptInv, Judged, AttemptTypeOK
<1>5. Comparison \subseteq AllIds
  BY <1>1, <1>4 DEF Comparison, Confirmed, AllIds, AttemptTypeOK
<1>6. j \in Judgement
  BY <1>2, <1>5 DEF ValidVerdict, Judgement
<1>7. /\ candidates' \in Seq(Judgement) /\ Len(candidates') = l + 1
      /\ DOMAIN candidates' = 1..(l + 1)
      /\ candidates'[l + 1] = j /\ \A i \in 1..l : candidates'[i] = candidates[i]
  <2> HIDE DEF j
  <2> QED BY <1>1, <1>3, <1>6, AppendProperties, LenProperties
<1>8. Confirmed' = IF verdict = "confirmed" THEN Confirmed \cup {l + 1} ELSE Confirmed
  <2>1. candidates'[l + 1].verdict = verdict
    BY <1>7
  <2> HIDE DEF j, l
  <2> QED BY <1>1, <1>7, <2>1 DEF Confirmed
<1>9. /\ comments' \cup summaryFindings' = IF verdict = "confirmed"
                                           THEN comments \cup summaryFindings \cup {l + 1}
                                           ELSE comments \cup summaryFindings
      /\ comments' \cap summaryFindings' \subseteq
           (comments \cap summaryFindings) \cup ({l + 1} \cap (comments \cup summaryFindings))
  <2>1. CASE verdict # "confirmed"
    <3>1. comments' = comments /\ summaryFindings' = summaryFindings
      BY <2>1 DEF Verdict, payload
    <3> QED BY <2>1, <3>1
  <2>2. CASE verdict = "confirmed" /\ local /\ shown
    <3>1. comments' = comments \cup {l + 1} /\ summaryFindings' = summaryFindings
      BY <2>2 DEF Verdict
    <3> QED BY <2>2, <3>1
  <2>3. CASE verdict = "confirmed" /\ ~(local /\ shown)
    <3>1. summaryFindings' = summaryFindings \cup {l + 1} /\ comments' = comments
      BY <2>3 DEF Verdict
    <3> QED BY <2>3, <3>1
  <2> QED BY <2>1, <2>2, <2>3
<1>10. PayloadMatches'
  <2>1. l + 1 \notin Confirmed
    BY <1>1 DEF Confirmed
  <2> QED BY <1>8, <1>9, <2>1 DEF AttemptInv, PayloadMatches
<1>11. AttemptTypeOK'
  <2>1. comments' \cup summaryFindings' \subseteq DOMAIN candidates'
    BY <1>7, <1>10 DEF PayloadMatches, Confirmed
  <2> QED BY <1>1, <1>2, <1>7, <2>1 DEF AttemptTypeOK, Ended
<1>12. SessionHasStage' /\ SessionsCleanUp' /\ EvidenceUntampered'
  BY <1>2 DEF AttemptInv, SessionHasStage, SessionsCleanUp, EvidenceUntampered
<1>13. Judged'
  BY <1>1, <1>2, <1>4, <1>7 DEF Judged
<1>14. Compared'
  <2>1. ASSUME NEW i \in 1..(l + 1) PROVE ComparisonOf(i)' = ComparisonOf(i)
    <3>1. \A k \in 1..(i - 1) : candidates'[k] = candidates[k]
      BY <1>1, <1>7
    <3> QED BY <1>2, <3>1 DEF ComparisonOf
  <2>2. ASSUME NEW i \in 1..l
        PROVE  /\ candidates'[i].checked = ComparisonOf(i)'
               /\ candidates'[i].verdict = "duplicate" => candidates'[i].duplicate \in ComparisonOf(i)'
    <3>1. i \in 1..(l + 1) /\ candidates'[i] = candidates[i] /\ i \in DOMAIN candidates
      BY <1>1, <1>7
    <3> QED BY <2>1, <3>1 DEF AttemptInv, Compared
  <2>3. ASSUME NEW i \in 1..(l + 1), i = l + 1
        PROVE  /\ candidates'[i].checked = ComparisonOf(i)'
               /\ candidates'[i].verdict = "duplicate" => candidates'[i].duplicate \in ComparisonOf(i)'
    <3>1. ComparisonOf(i)' = Comparison
      BY <1>1, <2>1, <2>3, NextComparison
    <3>2. candidates'[i] = j
      BY <1>7, <2>3
    <3> QED BY <1>2, <3>1, <3>2 DEF ValidVerdict
  <2>4. \A i \in 1..(l + 1) : i \in 1..l \/ i = l + 1
    BY <1>1
  <2> HIDE DEF l, j
  <2> QED BY <1>7, <2>2, <2>3, <2>4 DEF Compared
<1> QED BY <1>10, <1>11, <1>12, <1>13, <1>14 DEF AttemptInv

LEMMA NextAttempt == AttemptInv /\ [AttemptNext]_attemptVars => AttemptInv'
<1> SUFFICES ASSUME AttemptInv, [AttemptNext]_attemptVars PROVE AttemptInv'
  OBVIOUS
<1>1. CASE UNCHANGED attemptVars
  <2>1. UNCHANGED findings
    BY <1>1 DEF attemptVars
  <2>2. UNCHANGED <<stage, attempts, session, error, worktrees, dir, tampered, abandoned,
                    history, total, local, candidates, comments, summaryFindings>>
    BY <1>1 DEF attemptVars, sessionVars, findings, payload
  <2>3. AttemptTypeOK'
    BY <2>2 DEF AttemptInv, AttemptTypeOK
  <2> QED BY <2>1, <2>2, <2>3, FindingsKept
          DEF AttemptInv, SessionHasStage, SessionsCleanUp, EvidenceUntampered, Judged
<1>2. CASE \E d \in SUBSET Discussion : Begin(d)
  BY <1>2, BeginAttemptStep
<1>3. CASE Session
  BY <1>3, SessionStep
<1>4. CASE Finding
  <2>1. CASE \E n \in 0..Cardinality(Ids) : \E checked \in [1..n -> Ids] :
               /\ stage = "verdict" /\ ValidChecked(checked)
               /\ \E verdict \in Verdicts, duplicate \in Ids \cup {<<>>}, shown \in BOOLEAN :
                    Verdict(verdict, duplicate, checked, shown)
    <3>1. \A n \in 0..Cardinality(Ids) : n \in Nat
      OBVIOUS
    <3> QED BY <2>1, <3>1, VerdictStep
  <2> QED BY <1>4, <2>1, OtherStep DEF Finding
<1>5. CASE Crash
  BY <1>5, OtherStep
<1> QED BY <1>1, <1>2, <1>3, <1>4, <1>5 DEF AttemptNext

-----------------------------------------------------------------------------
LEMMA AttemptInvariant == AttemptSpec => []AttemptInv
  BY InitAttempt, NextAttempt, PTL DEF AttemptSpec

\* The variables of an attempt have their types.
THEOREM AttemptTypeCorrect == AttemptSpec => []AttemptTypeOK
<1>1. AttemptInv => AttemptTypeOK
  BY DEF AttemptInv
<1> QED BY <1>1, AttemptInvariant, PTL

\* Findings of a review are compared with each other and with every comment,
\* and a duplicate repeats something that is there (prompt.go:
\* parseVerification).
THEOREM AllAreCompared == AttemptSpec => []ComparedWithAll
<1>1. AttemptInv => ComparedWithAll
  <2> SUFFICES ASSUME AttemptInv, stage = "done", NEW i \in DOMAIN candidates
      PROVE  LET posted == {Candidate(k) : k \in comments \cup summaryFindings} IN
             /\ history \subseteq candidates[i].checked
             /\ \A k \in 1..(i - 1) : Candidate(k) \in posted => Candidate(k) \in candidates[i].checked
             /\ candidates[i].verdict = "duplicate" => candidates[i].duplicate \in history \cup posted
    BY DEF ComparedWithAll
  <2>1. DOMAIN candidates = 1..Len(candidates) /\ Len(candidates) \in Nat
    BY LenProperties DEF AttemptInv, AttemptTypeOK
  <2>2. comments \cup summaryFindings = {k \in DOMAIN candidates : candidates[k].verdict = "confirmed"}
    BY DEF AttemptInv, PayloadMatches, Confirmed
  <2>3. \A k \in 1..(i - 1) : k \in DOMAIN candidates
    BY <2>1
  <2>4. \A k, m : Candidate(k) = Candidate(m) => k = m
    BY DEF Candidate
  <2>5. /\ candidates[i].checked = ComparisonOf(i)
        /\ candidates[i].verdict = "duplicate" => candidates[i].duplicate \in ComparisonOf(i)
    BY DEF AttemptInv, Compared
  <2> QED BY <2>2, <2>3, <2>4, <2>5 DEF ComparisonOf
<1> QED BY <1>1, AttemptInvariant, PTL

\* The payload has the confirmed candidates of the same attempt, once each
\* (run.go: review).
THEOREM EvidenceIsPayload == AttemptSpec => []PayloadIsEvidence
<1>1. AttemptInv => PayloadIsEvidence
  BY DEF AttemptInv, PayloadIsEvidence, Judged, PayloadMatches
<1> QED BY <1>1, AttemptInvariant, PTL

\* Worktrees are removed, and none is used twice (git.go: worktree).
THEOREM WorktreesAreRemoved == AttemptSpec => []SessionsCleanUp
<1>1. AttemptInv => SessionsCleanUp
  BY DEF AttemptInv
<1> QED BY <1>1, AttemptInvariant, PTL

\* No answer from a changed worktree is used (run.go: session).
THEOREM EvidenceIsUntampered == AttemptSpec => []EvidenceUntampered
<1>1. AttemptInv => EvidenceUntampered
  BY DEF AttemptInv
<1> QED BY <1>1, AttemptInvariant, PTL

-----------------------------------------------------------------------------
(***************************************************************************)
(* diffAnchor finds exactly the lines that a patch shows.                  *)
(***************************************************************************)

\* In a hunk the code counts as the writer does, except for a side without
\* lines, which it never asks about.
Counts ==
  writing # "header" =>
    /\ inHunk
    /\ old = at.old - (IF writing = "added" THEN 1 ELSE 0)
    /\ newLine = at.new - (IF writing = "removed" THEN 1 ELSE 0)

\* The scan goes on until the line is found.
ScanGoesOn == phase # "end" => ~result /\ ~seen

AnchorInv == AnchorTypeOK /\ Counts /\ ScanGoesOn /\ AnchoredIsShown

LEMMA InitAnchor == AnchorInit => AnchorInv
<1> SUFFICES ASSUME AnchorInit PROVE AnchorInv
  OBVIOUS
<1>1. AnchorTypeOK
  <2>1. query \in Query
    BY DEF AnchorInit, Query
  <2>2. at \in [old : Nat \ {0}, new : Nat \ {0}]
    BY DEF AnchorInit
  <2>3. {inHunk, result, seen} \subseteq BOOLEAN
    BY Zenon DEF AnchorInit
  <2> QED BY <2>1, <2>2, <2>3 DEF AnchorInit, AnchorTypeOK
<1>2. Counts /\ ScanGoesOn
  BY DEF AnchorInit, Counts, ScanGoesOn
<1>3. AnchoredIsShown
  BY DEF AnchorInit, AnchoredIsShown
<1> QED BY <1>1, <1>2, <1>3 DEF AnchorInv

LEMMA NextAnchor == AnchorInv /\ [AnchorNext]_anchorVars => AnchorInv'
<1> SUFFICES ASSUME AnchorInv, [AnchorNext]_anchorVars PROVE AnchorInv'
  OBVIOUS
<1> USE DEF AnchorInv, AnchorTypeOK, Query
<1>0. MaxLine \in Nat
  BY AnchorAssumption
<1>1. CASE UNCHANGED anchorVars
  BY <1>1 DEF anchorVars, writer, scanner, Counts, ScanGoesOn, AnchoredIsShown
<1>2. ASSUME NEW line \in 1..MaxLine, NEW side \in {"LEFT", "RIGHT"}, Ask(line, side)
      PROVE  AnchorInv'
  BY <1>0, <1>2 DEF Ask, writer, scanner, Counts, ScanGoesOn, AnchoredIsShown
<1>3. CASE Header
  BY <1>3 DEF Header, writer, Counts, ScanGoesOn, AnchoredIsShown
<1>4. ASSUME NEW n \in 0..MaxLine, NEW sides \in {"both", "added", "removed"}, Hunk(n, sides)
      PROVE  AnchorInv'
  <2>1. /\ at' = [old |-> at.old + n, new |-> at.new + n] /\ writing' = sides
        /\ old' = at'.old - (IF sides = "added" THEN 1 ELSE 0)
        /\ newLine' = at'.new - (IF sides = "removed" THEN 1 ELSE 0)
        /\ inHunk' = TRUE /\ UNCHANGED <<query, phase, result, seen>>
    BY <1>4 DEF Hunk
  <2>2. at'.old \in Nat \ {0} /\ at'.new \in Nat \ {0}
    BY <1>0, <2>1
  <2>3. AnchorTypeOK'
    BY <2>1, <2>2
  <2> QED BY <2>1, <2>3 DEF Counts, ScanGoesOn, AnchoredIsShown
<1>5. CASE Kept
  <2>1. /\ phase = "scan" /\ writing = "both"
        /\ at' = [old |-> at.old + 1, new |-> at.new + 1]
        /\ old' = old + 1 /\ newLine' = newLine + 1
        /\ UNCHANGED <<query, writing, inHunk>>
    BY <1>5 DEF Kept
  <2>2. old = at.old /\ newLine = at.new /\ inHunk /\ ~seen /\ ~result
    BY <2>1 DEF Counts, ScanGoesOn
  <2>3. seen' = result' /\ result' \in BOOLEAN /\ phase' = IF result' THEN "end" ELSE "scan"
    BY <1>5, <2>2 DEF Kept, Found
  <2>4. AnchorTypeOK' /\ Counts'
    BY <2>1, <2>2, <2>3 DEF Counts
  <2> QED BY <2>3, <2>4 DEF ScanGoesOn, AnchoredIsShown
<1>6. CASE Removed
  <2>1. /\ phase = "scan" /\ writing \in {"both", "removed"}
        /\ at' = [at EXCEPT !.old = @ + 1] /\ old' = old + 1
        /\ UNCHANGED <<query, writing, newLine, inHunk>>
    BY <1>6 DEF Removed
  <2>2. old = at.old /\ inHunk /\ ~seen /\ ~result
    BY <2>1 DEF Counts, ScanGoesOn
  <2>3. seen' = result' /\ result' \in BOOLEAN /\ phase' = IF result' THEN "end" ELSE "scan"
    BY <1>6, <2>2 DEF Removed, Found, Left
  <2>4. AnchorTypeOK' /\ Counts'
    BY <2>1, <2>2, <2>3 DEF Counts
  <2> QED BY <2>3, <2>4 DEF ScanGoesOn, AnchoredIsShown
<1>7. CASE Added
  <2>1. /\ phase = "scan" /\ writing \in {"both", "added"}
        /\ at' = [at EXCEPT !.new = @ + 1] /\ newLine' = newLine + 1
        /\ UNCHANGED <<query, writing, old, inHunk>>
    BY <1>7 DEF Added
  <2>2. newLine = at.new /\ inHunk /\ ~seen /\ ~result
    BY <2>1 DEF Counts, ScanGoesOn
  <2>3. seen' = result' /\ result' \in BOOLEAN /\ phase' = IF result' THEN "end" ELSE "scan"
    BY <1>7, <2>2 DEF Added, Found, Right
  <2>4. AnchorTypeOK' /\ Counts'
    BY <2>1, <2>2, <2>3 DEF Counts
  <2> QED BY <2>3, <2>4 DEF ScanGoesOn, AnchoredIsShown
<1>8. CASE Over
  BY <1>8 DEF Over, writer, scanner, Counts, ScanGoesOn, AnchoredIsShown
<1> QED BY <1>1, <1>2, <1>3, <1>4, <1>5, <1>6, <1>7, <1>8 DEF AnchorNext

\* The variables of the scan have their types.
THEOREM AnchorTypeCorrect == AnchorSpec => []AnchorTypeOK
<1>1. AnchorInv => AnchorTypeOK
  BY DEF AnchorInv
<1> QED BY <1>1, InitAnchor, NextAnchor, PTL DEF AnchorSpec

\* A finding is anchored to a line of the diff exactly if the patch shows that
\* line on that side (git.go: diffAnchor).
THEOREM AnchorIsShown == AnchorSpec => []AnchoredIsShown
<1>1. AnchorInv => AnchoredIsShown
  BY DEF AnchorInv
<1> QED BY <1>1, InitAnchor, NextAnchor, PTL DEF AnchorSpec
-----------------------------------------------------------------------------
\* Listings.  Why two equal readings of a discussion are complete: what both
\* have was there when the first one ended, because nothing comes back; the
\* first one has at least as many items as there were then, because its full
\* pages reach as far as the listing does; so it has them all.

\* A reading has as many items as full pages hold.
FullPages ==
  /\ reading = "idle" => page = 1 /\ got = <<>>
  /\ InReading => Len(got) = (page - 1) * PerPage /\ page <= MaxPages

\* Only a discussion is read again.
ReadTwice == reading \in {"work", "second"} => kind = "discussion"

\* The first reading is at least as long as the listing was at its end.
FirstIsLong ==
  reading \in {"work", "second"} =>
    IsFiniteSet(instant) /\ Cardinality(instant) <= Len(firstReading) /\ Distinct(firstReading)

\* Nothing comes back.
StillThere ==
  reading \in {"work", "second"} => Items(firstReading) \cap Items(remote) \subseteq instant

FoundAgain ==
  reading = "second" => Items(firstReading) \cap Items(got) \subseteq instant

ListingInv ==
  /\ ListingTypeOK /\ FullPages /\ ReadTwice /\ FirstIsLong /\ StillThere /\ FoundAgain
  /\ HistoryIsComplete /\ FilesAreComplete

-----------------------------------------------------------------------------
\* A sequence has no more items than its length, and without repetitions as many.
LEMMA ItemsCount ==
  ASSUME NEW S, NEW s \in Seq(S)
  PROVE  /\ IsFiniteSet(Items(s)) /\ Cardinality(Items(s)) <= Len(s)
         /\ Distinct(s) => Cardinality(Items(s)) = Len(s)
<1>1. Len(s) \in Nat /\ DOMAIN s = 1..Len(s) /\ s \in [1..Len(s) -> S]
  BY LenProperties
<1>2. s \in Surjection(1..Len(s), Items(s))
  BY <1>1 DEF Surjection, Items
<1>3. IsFiniteSet(1..Len(s)) /\ Cardinality(1..Len(s)) = Len(s)
  BY <1>1, FS_Interval
<1>4. /\ IsFiniteSet(Items(s)) /\ Cardinality(Items(s)) <= Len(s)
      /\ Cardinality(Items(s)) = Len(s) <=> s \in Injection(1..Len(s), Items(s))
  BY <1>2, <1>3, FS_Surjection
<1>5. Distinct(s) => s \in Injection(1..Len(s), Items(s))
  BY <1>1, <1>2 DEF Distinct, Injection, IsInjective, Surjection
<1> QED BY <1>4, <1>5

\* Items of two sequences are the items of both.
LEMMA ItemsConcat ==
  ASSUME NEW S, NEW s \in Seq(S), NEW t \in Seq(S)
  PROVE  Items(s \o t) \subseteq Items(s) \cup Items(t)
<1>1. /\ Len(s) \in Nat /\ Len(t) \in Nat /\ DOMAIN s = 1..Len(s) /\ DOMAIN t = 1..Len(t)
  BY LenProperties
<1>2. /\ s \o t \in Seq(S) /\ Len(s \o t) = Len(s) + Len(t)
      /\ \A i \in 1..(Len(s) + Len(t)) : (s \o t)[i] = IF i <= Len(s) THEN s[i] ELSE t[i - Len(s)]
  BY ConcatProperties
<1>3. DOMAIN (s \o t) = 1..(Len(s) + Len(t))
  BY <1>2, LenProperties
<1>4. ASSUME NEW i \in 1..(Len(s) + Len(t)) PROVE (s \o t)[i] \in Items(s) \cup Items(t)
  <2>1. CASE i <= Len(s)
    BY <1>1, <1>2, <2>1 DEF Items
  <2>2. CASE ~(i <= Len(s))
    <3>1. i - Len(s) \in 1..Len(t)
      BY <1>1, <2>2
    <3> QED BY <1>1, <1>2, <2>2, <3>1 DEF Items
  <2> QED BY <2>1, <2>2
<1> QED BY <1>3, <1>4 DEF Items

\* The end of a page that begins after m items, in a listing of n.
LEMMA PageEnd ==
  ASSUME NEW m \in Nat, NEW size \in Nat \ {0}, NEW n \in Nat, NEW last,
         last = IF m + size < n THEN m + size ELSE n
  PROVE  /\ last \in Nat /\ last <= n
         /\ \A i \in (m + 1)..last : i \in 1..n
         /\ \A len \in Nat : len = (IF m + 1 <= last THEN last - m ELSE 0) =>
              (len < size => m + len >= n)
<1>1. last \in Nat /\ last <= n
  OBVIOUS
<1>2. \A i \in (m + 1)..last : i \in 1..n
  BY <1>1
<1>3. ASSUME NEW len \in Nat, len = (IF m + 1 <= last THEN last - m ELSE 0), len < size
      PROVE  m + len >= n
  <2>1. CASE m + size < n
    BY <2>1, <1>3
  <2>2. CASE ~(m + size < n)
    BY <2>2, <1>3
  <2> QED BY <2>1, <2>2
<1> QED BY <1>1, <1>2, <1>3

\* A page has items of the listing, at most PerPage of them, and as many as
\* there are from its beginning.
LEMMA PageProperties ==
  ASSUME ListingTypeOK
  PROVE  /\ PageItems \in Seq(1..created) /\ Items(PageItems) \subseteq Items(remote)
         /\ Len(PageItems) < PerPage => (page - 1) * PerPage + Len(PageItems) >= Len(remote)
<1> DEFINE m == (page - 1) * PerPage  last == Smaller(page * PerPage, Len(remote))
<1>1. /\ PerPage \in Nat \ {0} /\ page \in Nat \ {0} /\ remote \in Seq(1..created)
  BY ListingAssumption DEF ListingTypeOK
<1>2. Len(remote) \in Nat /\ DOMAIN remote = 1..Len(remote)
  BY <1>1, LenProperties
<1>3. m \in Nat /\ page * PerPage = m + PerPage
  BY <1>1
<1>4. /\ last \in Nat /\ last <= Len(remote)
      /\ \A i \in (m + 1)..last : i \in 1..Len(remote)
      /\ \A len \in Nat : len = (IF m + 1 <= last THEN last - m ELSE 0) =>
           (len < PerPage => m + len >= Len(remote))
  <2>1. last = IF m + PerPage < Len(remote) THEN m + PerPage ELSE Len(remote)
    BY <1>3 DEF Smaller
  <2> HIDE DEF m, last
  <2>2. m \in Nat /\ PerPage \in Nat \ {0} /\ Len(remote) \in Nat
    BY <1>1, <1>2, <1>3
  <2> QED BY <2>1, <2>2, PageEnd, Zenon
<1>5. PageItems = SubSeq(remote, m + 1, last)
  BY DEF PageItems
<1> HIDE DEF m, last
<1>6. \A i \in (m + 1)..last : i \in 1..Len(remote) /\ remote[i] \in 1..created
  <2>1. \A i \in 1..Len(remote) : remote[i] \in 1..created
    BY <1>1, ElementOfSeq
  <2> QED BY <1>4, <2>1
<1>7. /\ PageItems \in Seq(1..created)
      /\ Len(PageItems) = IF m + 1 <= last THEN last - (m + 1) + 1 ELSE 0
      /\ \A i \in 1..(last - (m + 1) + 1) : PageItems[i] = remote[m + 1 + i - 1]
  BY <1>3, <1>4, <1>5, <1>6, SubSeqProperties
<1>8. Items(PageItems) \subseteq Items(remote)
  <2> SUFFICES ASSUME NEW i \in DOMAIN PageItems PROVE PageItems[i] \in Items(remote)
    BY DEF Items
  <2>1. i \in 1..Len(PageItems)
    BY <1>7, LenProperties
  <2>2. i \in 1..(last - (m + 1) + 1) /\ m + 1 + i - 1 \in (m + 1)..last
    BY <1>3, <1>4, <1>7, <2>1
  <2> QED BY <1>2, <1>6, <1>7, <2>2 DEF Items
<1>9. Len(PageItems) < PerPage => m + Len(PageItems) >= Len(remote)
  <2>1. Len(PageItems) = IF m + 1 <= last THEN last - m ELSE 0
    BY <1>3, <1>4, <1>7
  <2>2. Len(PageItems) \in Nat
    BY <1>7, LenProperties
  <2> QED BY <1>4, <2>1, <2>2
<1> QED BY <1>7, <1>8, <1>9 DEF m

-----------------------------------------------------------------------------
LEMMA InitListing == ListingInit => ListingInv
<1> SUFFICES ASSUME ListingInit PROVE ListingInv
  OBVIOUS
<1>1. AtStart \in Nat /\ MaxEdits \in Nat /\ MaxPages \in Nat
  BY ListingAssumption
<1>2. remote \in Seq(1..AtStart) /\ Distinct(remote)
  <2>1. remote \in [1..AtStart -> 1..AtStart]
    BY DEF ListingInit
  <2>2. remote \in Seq(1..AtStart)
    BY <1>1, <2>1
  <2> QED BY <2>2 DEF ListingInit, Distinct
<1>3. \A S : <<>> \in Seq(S)
  BY EmptySeq
<1>4. ListingTypeOK
  BY <1>1, <1>2, <1>3 DEF ListingInit, ListingTypeOK
<1> QED BY <1>4 DEF ListingInit, ListingInv, FullPages, InReading, ReadTwice, FirstIsLong, StillThere,
                    FoundAgain, HistoryIsComplete, FilesAreComplete

\* Edits: nothing comes back.
LEMMA EditStep ==
  ASSUME ListingInv,
         UNCHANGED <<kind, reading, page, got, firstReading, instant, changes>>,
         edits < MaxEdits, edits' = edits + 1, created' \in {created, created + 1},
         remote' \in Seq(1..created'), Distinct(remote'),
         Items(remote') \cap 1..created \subseteq Items(remote)
  PROVE  ListingInv'
<1>1. created \in Nat /\ 1..created \subseteq 1..created' /\ created' \in Nat
  BY DEF ListingInv, ListingTypeOK
<1>2. got \in Seq(1..created) /\ firstReading \in Seq(1..created)
  BY DEF ListingInv, ListingTypeOK
<1>3. got' \in Seq(1..created') /\ firstReading' \in Seq(1..created')
  BY <1>1, <1>2, SeqMonotonic
<1>4. ListingTypeOK'
  BY <1>1, <1>3, ListingAssumption DEF ListingInv, ListingTypeOK
<1>5. Items(firstReading) \subseteq 1..created
  BY <1>2, ElementOfSeq, LenProperties DEF Items
<1>6. StillThere'
  BY <1>5 DEF ListingInv, StillThere, Items
<1> QED BY <1>4, <1>6 DEF ListingInv, FullPages, InReading, ReadTwice, FirstIsLong,
                          FoundAgain, HistoryIsComplete, FilesAreComplete, Items, Distinct

LEMMA AppearStep ==
  ASSUME ListingInv, NEW k \in 1..(Len(remote) + 1), Appear(k)
  PROVE  ListingInv'
<1>1. /\ remote \in Seq(1..created) /\ created \in Nat /\ Distinct(remote)
      /\ Len(remote) \in Nat /\ DOMAIN remote = 1..Len(remote)
  BY LenProperties DEF ListingInv, ListingTypeOK
<1> DEFINE n == Len(remote)
<1>2. \A i \in 1..n : remote[i] \in 1..created
  BY <1>1, ElementOfSeq
<1>3. /\ remote' = [i \in 1..(n + 1) |-> IF i < k THEN remote[i] ELSE IF i = k THEN created + 1 ELSE remote[i - 1]]
      /\ created' = created + 1
  BY DEF Appear
<1> HIDE DEF n
<1>4. /\ DOMAIN remote' = 1..(n + 1)
      /\ \A i \in 1..(n + 1) :
           remote'[i] = IF i < k THEN remote[i] ELSE IF i = k THEN created + 1 ELSE remote[i - 1]
  BY <1>3
<1>5. n \in Nat /\ k \in 1..(n + 1)
  BY <1>1 DEF n
<1>6. \A i \in 1..(n + 1) : (i < k => i \in 1..n) /\ (~(i < k) /\ i # k => i - 1 \in 1..n)
  BY <1>5
<1>7. remote' \in Seq(1..created')
  <2>1. \A i \in 1..(n + 1) : remote'[i] \in 1..(created + 1)
    BY <1>1, <1>2, <1>4, <1>6
  <2>2. remote' \in [1..(n + 1) -> 1..(created + 1)]
    BY <1>3, <2>1
  <2>3. n + 1 \in Nat
    BY <1>5
  <2>4. remote' \in Seq(1..(created + 1))
    BY <2>2, <2>3, SeqDef
  <2> QED BY <1>3, <2>4
<1>8. Distinct(remote')
  <2> SUFFICES ASSUME NEW i \in 1..(n + 1), NEW j \in 1..(n + 1), remote'[i] = remote'[j]
               PROVE  i = j
    BY <1>4 DEF Distinct
  <2>1. \A a, b \in 1..n : remote[a] = remote[b] => a = b
    BY <1>1 DEF Distinct, n
  <2>2. \A a \in 1..n : remote[a] # created + 1
    BY <1>1, <1>2
  <2> DEFINE place(a) == IF a < k THEN a ELSE a - 1
  <2>3. \A a \in 1..(n + 1) : a # k => place(a) \in 1..n /\ remote'[a] = remote[place(a)]
    BY <1>4, <1>5, <1>6
  <2>4. remote'[k] = created + 1
    BY <1>4, <1>5
  <2>5. CASE i = k \/ j = k
    <3> HIDE DEF place
    <3> QED BY <2>2, <2>3, <2>4, <2>5
  <2>6. CASE i # k /\ j # k
    <3>1. place(i) = place(j)
      <4> HIDE DEF place
      <4> QED BY <2>1, <2>3, <2>6
    <3> QED BY <1>5, <2>6, <3>1
  <2> QED BY <2>5, <2>6
<1>9. Items(remote') \cap 1..created \subseteq Items(remote)
  <2> SUFFICES ASSUME NEW i \in 1..(n + 1), remote'[i] \in 1..created PROVE remote'[i] \in Items(remote)
    BY <1>4 DEF Items
  <2>1. i # k
    BY <1>1, <1>4
  <2>2. \E a \in 1..n : remote'[i] = remote[a]
    BY <1>4, <1>6, <2>1
  <2> QED BY <1>1, <2>2 DEF Items, n
<1> QED BY <1>3, <1>7, <1>8, <1>9, EditStep DEF Appear, Edit

LEMMA VanishStep ==
  ASSUME ListingInv, NEW k \in DOMAIN remote, Vanish(k)
  PROVE  ListingInv'
<1>1. /\ remote \in Seq(1..created) /\ created \in Nat /\ Distinct(remote)
      /\ Len(remote) \in Nat /\ DOMAIN remote = 1..Len(remote)
  BY LenProperties DEF ListingInv, ListingTypeOK
<1> DEFINE n == Len(remote)
<1>2. \A i \in 1..n : remote[i] \in 1..created
  BY <1>1, ElementOfSeq
<1>3. remote' = [i \in 1..(n - 1) |-> IF i < k THEN remote[i] ELSE remote[i + 1]] /\ created' = created
  BY DEF Vanish
<1>4. n \in Nat /\ k \in 1..n /\ DOMAIN remote = 1..n
  BY <1>1
<1>5. \A a, b \in 1..n : remote[a] = remote[b] => a = b
  BY <1>1 DEF Distinct
<1> HIDE DEF n
<1>6. /\ DOMAIN remote' = 1..(n - 1)
      /\ \A i \in 1..(n - 1) : remote'[i] = IF i < k THEN remote[i] ELSE remote[i + 1]
  BY <1>3
<1>7. n - 1 \in Nat /\ \A i \in 1..(n - 1) : i \in 1..n /\ i + 1 \in 1..n
  BY <1>4
<1>8. remote' \in Seq(1..created')
  <2>1. \A i \in 1..(n - 1) : remote'[i] \in 1..created
    BY <1>2, <1>6, <1>7 DEF n
  <2>2. remote' \in [1..(n - 1) -> 1..created]
    BY <1>3, <2>1
  <2>3. remote' \in Seq(1..created)
    BY <1>7, <2>2, SeqDef
  <2> QED BY <1>3, <2>3
<1>9. Distinct(remote')
  <2> SUFFICES ASSUME NEW i \in 1..(n - 1), NEW j \in 1..(n - 1), remote'[i] = remote'[j]
               PROVE  i = j
    BY <1>6 DEF Distinct
  <2> QED BY <1>4, <1>5, <1>6, <1>7
<1>10. Items(remote') \cap 1..created \subseteq Items(remote)
  <2> SUFFICES ASSUME NEW i \in 1..(n - 1) PROVE remote'[i] \in Items(remote)
    BY <1>6 DEF Items
  <2>1. \E a \in 1..n : remote'[i] = remote[a]
    BY <1>6, <1>7
  <2> QED BY <1>4, <2>1 DEF Items
<1> QED BY <1>3, <1>8, <1>9, <1>10, EditStep DEF Vanish, Edit

-----------------------------------------------------------------------------
LEMMA BeginStep ==
  ASSUME ListingInv, NEW k \in {"discussion", "files"}, BeginListing(k)
  PROVE  ListingInv'
<1>1. /\ reading = "idle" /\ reading' = "first" /\ kind' = k /\ changes' = Items(remote)
      /\ UNCHANGED <<remote, created, edits, page, got, firstReading, instant>>
  BY DEF BeginListing
<1>2. Items(remote) \subseteq 1..created
  BY ElementOfSeq, LenProperties DEF ListingInv, ListingTypeOK, Items
<1>3. ListingTypeOK'
  BY <1>1, <1>2 DEF ListingInv, ListingTypeOK
<1>4. FullPages'
  <2>1. page = 1 /\ got = <<>> /\ Len(<<>>) = 0 /\ PerPage \in Nat /\ MaxPages \in Nat \ {0}
    BY <1>1, EmptySeq, ListingAssumption DEF ListingInv, FullPages
  <2> QED BY <1>1, <2>1 DEF FullPages, InReading
<1> QED BY <1>1, <1>3, <1>4 DEF ListingInv, ReadTwice, FirstIsLong, StillThere, FoundAgain,
                                HistoryIsComplete, FilesAreComplete

LEMMA ReadAgainStep ==
  ASSUME ListingInv, ReadAgain
  PROVE  ListingInv'
<1>1. /\ reading = "work" /\ reading' = "second" /\ page' = 1 /\ got' = <<>>
      /\ UNCHANGED <<remote, created, edits, kind, firstReading, instant, changes>>
  BY DEF ReadAgain
<1>2. /\ <<>> \in Seq(1..created) /\ Len(<<>>) = 0 /\ PerPage \in Nat /\ MaxPages \in Nat \ {0}
      /\ Items(<<>>) = {}
  BY EmptySeq, ListingAssumption DEF Items
<1>3. ListingTypeOK'
  BY <1>1, <1>2 DEF ListingInv, ListingTypeOK
<1>4. FullPages' /\ FoundAgain'
  BY <1>1, <1>2 DEF FullPages, InReading, FoundAgain
<1>5. FirstIsLong' /\ StillThere' /\ ReadTwice'
  BY <1>1 DEF ListingInv, FirstIsLong, StillThere, ReadTwice
<1> QED BY <1>1, <1>3, <1>4, <1>5 DEF ListingInv, HistoryIsComplete, FilesAreComplete

\* What a page adds to the second reading was there all the time.
LEMMA FoundOnPage ==
  ASSUME ListingInv, reading = "second"
  PROVE  Items(firstReading) \cap Items(got \o PageItems) \subseteq instant
<1>1. got \in Seq(1..created) /\ PageItems \in Seq(1..created) /\ Items(PageItems) \subseteq Items(remote)
  BY PageProperties DEF ListingInv, ListingTypeOK
<1>2. Items(got \o PageItems) \subseteq Items(got) \cup Items(PageItems)
  BY <1>1, ItemsConcat
<1> QED BY <1>1, <1>2 DEF ListingInv, StillThere, FoundAgain

LEMMA FullPageStep ==
  ASSUME ListingInv, FullPage
  PROVE  ListingInv'
<1>1. /\ InReading /\ Len(PageItems) = PerPage /\ got' = got \o PageItems /\ page' = page + 1
      /\ reading' = IF page < MaxPages THEN reading ELSE "error"
      /\ UNCHANGED <<remote, created, edits, kind, firstReading, instant, changes>>
  BY DEF FullPage
<1>2. /\ got \in Seq(1..created) /\ PageItems \in Seq(1..created)
      /\ page \in Nat \ {0} /\ page <= MaxPages /\ PerPage \in Nat /\ MaxPages \in Nat
      /\ Len(got) = (page - 1) * PerPage
  BY <1>1, PageProperties, ListingAssumption DEF ListingInv, ListingTypeOK, FullPages
<1>3. got' \in Seq(1..created) /\ Len(got') = (page' - 1) * PerPage
  <2>1. got' \in Seq(1..created) /\ Len(got') = Len(got) + PerPage
    BY <1>1, <1>2, ConcatProperties
  <2>2. (page - 1) * PerPage + PerPage = (page + 1 - 1) * PerPage
    BY <1>2
  <2> QED BY <1>1, <1>2, <2>1, <2>2
<1>4. ListingTypeOK'
  BY <1>1, <1>2, <1>3 DEF ListingInv, ListingTypeOK
<1>5. FullPages'
  BY <1>1, <1>2, <1>3 DEF FullPages, InReading
<1>6. FoundAgain'
  BY <1>1, FoundOnPage DEF FoundAgain, Items
<1> QED BY <1>1, <1>4, <1>5, <1>6
        DEF ListingInv, InReading, ReadTwice, FirstIsLong, StillThere, HistoryIsComplete, FilesAreComplete

LEMMA LastPageStep ==
  ASSUME ListingInv, LastPage
  PROVE  ListingInv'
<1> DEFINE list == got \o PageItems
<1>1. /\ InReading /\ Len(PageItems) < PerPage /\ got' = list
      /\ UNCHANGED <<remote, created, edits, kind, page, changes>>
  BY DEF LastPage
<1>2. /\ got \in Seq(1..created) /\ PageItems \in Seq(1..created) /\ remote \in Seq(1..created)
      /\ Distinct(remote) /\ PerPage \in Nat /\ page \in Nat
  BY PageProperties, ListingAssumption DEF ListingInv, ListingTypeOK
<1>3. list \in Seq(1..created) /\ Len(list) = Len(got) + Len(PageItems) /\ Len(list) \in Nat
  BY <1>2, ConcatProperties, LenProperties
<1>4. Len(list) >= Len(remote)
  BY <1>1, <1>3, PageProperties DEF ListingInv, FullPages
<1> HIDE DEF list
<1>5. CASE Unstable(list)
  <2>1. reading' = "error" /\ UNCHANGED <<firstReading, instant>>
    BY <1>5 DEF LastPage, list
  <2>2. ListingTypeOK'
    BY <1>1, <1>3, <2>1 DEF ListingInv, ListingTypeOK
  <2> QED BY <2>1, <2>2 DEF ListingInv, FullPages, InReading, ReadTwice, FirstIsLong, StillThere, FoundAgain,
                            HistoryIsComplete, FilesAreComplete
<1>6. CASE ~Unstable(list) /\ kind = "files"
  <2>1. reading' = (IF Matches(list) THEN "accepted" ELSE "error") /\ UNCHANGED <<firstReading, instant>>
    BY <1>6 DEF LastPage, list
  <2>2. ListingTypeOK'
    BY <1>1, <1>3, <2>1 DEF ListingInv, ListingTypeOK
  <2>3. FilesAreComplete'
    <3>1. ASSUME Matches(list) PROVE Items(list) = changes
      <4>1. IsFiniteSet(Items(list)) /\ Cardinality(Items(list)) <= Len(list)
        BY <1>3, ItemsCount
      <4>2. Len(list) = Cardinality(changes) /\ changes \in SUBSET Items(list)
        BY <3>1 DEF Matches
      <4>3. Cardinality(changes) <= Cardinality(Items(list))
        BY <4>1, <4>2, FS_Subset
      <4>4. Cardinality(Items(list)) \in Nat /\ Cardinality(Items(list)) = Cardinality(changes)
        BY <1>3, <4>1, <4>2, <4>3, FS_CardinalityType
      <4> QED BY <4>1, <4>2, <4>4, FS_Subset
    <3> QED BY <1>1, <2>1, <3>1 DEF FilesAreComplete, Items
  <2> QED BY <1>1, <1>6, <2>1, <2>2, <2>3
          DEF ListingInv, FullPages, InReading, ReadTwice, FirstIsLong, StillThere, FoundAgain, HistoryIsComplete
<1>7. CASE ~Unstable(list) /\ kind = "discussion" /\ reading = "first"
  <2>1. reading' = "work" /\ firstReading' = list /\ instant' = Items(remote)
    BY <1>7 DEF LastPage, list
  <2>2. Items(remote) \subseteq 1..created
    BY <1>2, ElementOfSeq, LenProperties DEF Items
  <2>3. ListingTypeOK'
    BY <1>1, <1>3, <2>1, <2>2 DEF ListingInv, ListingTypeOK
  <2>4. FirstIsLong'
    <3>1. IsFiniteSet(Items(remote)) /\ Cardinality(Items(remote)) = Len(remote)
      BY <1>2, ItemsCount
    <3>2. Distinct(list)
      BY <1>7 DEF Unstable
    <3>3. Cardinality(Items(remote)) <= Len(list)
      BY <1>2, <1>3, <1>4, <3>1, LenProperties
    <3> QED BY <2>1, <3>1, <3>2, <3>3 DEF FirstIsLong, Distinct
  <2>5. StillThere'
    BY <1>1, <2>1 DEF StillThere, Items
  <2> QED BY <1>1, <1>7, <2>1, <2>3, <2>4, <2>5
          DEF ListingInv, FullPages, InReading, ReadTwice, FoundAgain, HistoryIsComplete, FilesAreComplete
<1>8. CASE ~Unstable(list) /\ kind = "discussion" /\ reading = "second"
  <2>1. reading' = (IF Agrees(list) THEN "accepted" ELSE "error") /\ UNCHANGED <<firstReading, instant>>
    BY <1>8 DEF LastPage, list
  <2>2. ListingTypeOK'
    BY <1>1, <1>3, <2>1 DEF ListingInv, ListingTypeOK
  <2>3. HistoryIsComplete'
    <3>1. ASSUME Agrees(list) PROVE Items(firstReading) = instant
      <4>1. Items(firstReading) \in SUBSET instant
        BY <1>8, <3>1, FoundOnPage DEF Agrees, list
      <4>2. IsFiniteSet(instant) /\ Cardinality(instant) <= Len(firstReading) /\ Distinct(firstReading)
        BY <1>8 DEF ListingInv, FirstIsLong
      <4>3. firstReading \in Seq(1..created)
        BY DEF ListingInv, ListingTypeOK
      <4>4. Cardinality(Items(firstReading)) = Len(firstReading) /\ Len(firstReading) \in Nat
        BY <4>2, <4>3, ItemsCount, LenProperties
      <4>5. Cardinality(Items(firstReading)) <= Cardinality(instant) /\ Cardinality(instant) \in Nat
        BY <4>1, <4>2, FS_Subset, FS_CardinalityType
      <4>6. Cardinality(instant) = Cardinality(Items(firstReading))
        BY <4>2, <4>4, <4>5
      <4> QED BY <4>1, <4>2, <4>6, FS_Subset
    <3> QED BY <2>1, <3>1 DEF HistoryIsComplete, Items
  <2> QED BY <1>1, <1>8, <2>1, <2>2, <2>3
          DEF ListingInv, FullPages, InReading, ReadTwice, FirstIsLong, StillThere, FoundAgain, FilesAreComplete
<1> QED BY <1>1, <1>5, <1>6, <1>7, <1>8 DEF ListingInv, ListingTypeOK, InReading

LEMMA NextListing == ListingInv /\ [ListingNext]_listingVars => ListingInv'
<1> SUFFICES ASSUME ListingInv, [ListingNext]_listingVars PROVE ListingInv'
  OBVIOUS
<1>1. CASE UNCHANGED listingVars
  <2>1. UNCHANGED <<remote, created, edits, kind, reading, page, got, firstReading, instant, changes>>
    BY <1>1 DEF listingVars
  <2>2. ListingTypeOK'
    BY <2>1 DEF ListingInv, ListingTypeOK, Distinct
  <2>3. FullPages' /\ ReadTwice' /\ FirstIsLong'
    BY <2>1 DEF ListingInv, FullPages, InReading, ReadTwice, FirstIsLong, Distinct
  <2>4. StillThere' /\ FoundAgain' /\ HistoryIsComplete' /\ FilesAreComplete'
    BY <2>1 DEF ListingInv, StillThere, FoundAgain, HistoryIsComplete, FilesAreComplete, Items
  <2> QED BY <2>2, <2>3, <2>4 DEF ListingInv
<1> QED BY <1>1, AppearStep, VanishStep, BeginStep, ReadAgainStep, FullPageStep, LastPageStep DEF ListingNext

LEMMA ListingInvariant == ListingSpec => []ListingInv
  BY InitListing, NextListing, PTL DEF ListingSpec

\* The variables of the readings have their types.
THEOREM ListingTypeCorrect == ListingSpec => []ListingTypeOK
<1>1. ListingInv => ListingTypeOK
  BY DEF ListingInv
<1> QED BY <1>1, ListingInvariant, PTL

\* A discussion that two readings agree about was complete when the first of
\* them ended (run.go: review; github.go: discussion).
THEOREM DiscussionIsComplete == ListingSpec => []HistoryIsComplete
<1>1. ListingInv => HistoryIsComplete
  BY DEF ListingInv
<1> QED BY <1>1, ListingInvariant, PTL

\* The files that are accepted are those of the revision (run.go: review).
THEOREM AllFilesAreListed == ListingSpec => []FilesAreComplete
<1>1. ListingInv => FilesAreComplete
  BY DEF ListingInv
<1> QED BY <1>1, ListingInvariant, PTL
=============================================================================
