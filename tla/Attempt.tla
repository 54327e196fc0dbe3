------------------------------- MODULE Attempt -------------------------------
(***************************************************************************)
(* What one attempt does between the discussion it reads and the payload   *)
(* it writes (run.go: review, session; git.go: worktree, verifyWorktree,   *)
(* anchor; prompt.go: parseResult, parseVerification).  ReviewEngine has   *)
(* the outcome of this as one step per remote call; here are the sessions  *)
(* with agents, each in a worktree of its own, the candidates they verify  *)
(* one by one, and what each is compared with.                             *)
(***************************************************************************)
EXTENDS Naturals, Sequences, FiniteSets

CONSTANTS
  Discussion,    \* IDs of comments and reviews
  Dirs,          \* names os.MkdirTemp may choose
  Verify,        \* is a verification command configured?
  MaxFindings,   \* max_findings
  MaxAttempts    \* bound: attempts

\* The ID of an accepted finding in the discussion of the next one.
Candidate(i) == <<"candidate", i>>

ASSUME AttemptAssumption ==
  /\ IsFiniteSet(Discussion) /\ Verify \in BOOLEAN /\ MaxFindings \in Nat /\ MaxAttempts \in Nat
  /\ \A n \in 1..(MaxFindings + 1) : Candidate(n) \notin Discussion

VARIABLES
  stage,       \* "idle", "investigate", "findings", "anchor", "verify", "verdict",
               \* "compose", "done", "failed", "crashed"
  attempts,
  session,     \* "none", "agent", "check", "command", "recheck", "cleanup"
  error,       \* the session has an error to return
  worktrees,   \* the directories that exist
  dir,         \* the worktree of the session
  tampered,    \* its commit or a tracked file is changed
  abandoned,   \* worktrees left by a crash, or by git failing to add or remove one
  history,     \* IDs of the discussion
  total,       \* findings of the investigation
  local,       \* git's diff shows the line of the present finding
  candidates,  \* Job.Candidates, with the answer: [verdict, duplicate, checked]
  comments, summaryFindings  \* numbers of the findings in the payload

sessionVars == <<session, error, worktrees, dir, tampered, abandoned>>
payload     == <<comments, summaryFindings>>
findings    == <<history, total, local, candidates, payload>>
attemptVars == <<stage, attempts, sessionVars, findings>>

Ended == {"idle", "done", "failed", "crashed"}

AttemptInit ==
  /\ stage = "idle" /\ attempts = 0
  /\ session = "none" /\ error = FALSE /\ tampered = FALSE
  /\ worktrees = {} /\ abandoned = {} /\ dir = "none"
  /\ history = {} /\ total = 0 /\ local = FALSE
  /\ candidates = <<>> /\ comments = {} /\ summaryFindings = {}

\* Mutant: the candidates of the last attempt stay.
KeptCandidates == candidates

FirstCandidates == <<>>

\* step clears the job before it calls review, which reads the discussion.
Begin(discussion) ==
  /\ stage \in Ended /\ attempts < MaxAttempts /\ attempts' = attempts + 1
  /\ stage' = "investigate" /\ history' = discussion
  /\ candidates' = FirstCandidates /\ comments' = {} /\ summaryFindings' = {}
  /\ total' = 0 /\ local' = FALSE
  /\ UNCHANGED sessionVars

-----------------------------------------------------------------------------
\* A session: an agent in a fresh worktree, for an investigation or a verdict.

AtWork == stage \in {"investigate", "verify"} /\ session = "none"

\* os.MkdirTemp returns a name that is not taken.
NewDirs == Dirs \ worktrees

AddWorktree(d) ==
  /\ AtWork /\ d \in NewDirs
  /\ dir' = d /\ worktrees' = worktrees \cup {d}
  /\ tampered' = FALSE /\ error' = FALSE /\ session' = "agent"
  /\ UNCHANGED <<stage, attempts, abandoned, findings>>

\* git fails, or is killed with half a worktree: there is no cleanup yet.
AddFails(left) ==
  /\ AtWork /\ left \subseteq NewDirs
  /\ worktrees' = worktrees \cup left /\ abandoned' = abandoned \cup left
  /\ stage' = "failed"
  /\ UNCHANGED <<attempts, session, error, dir, tampered, findings>>

\* The agent runs tests and may do what it was told not to.
Execute(changes) ==
  /\ session = "agent" /\ session' = "check" /\ tampered' = changes
  /\ UNCHANGED <<stage, attempts, error, worktrees, dir, abandoned, findings>>

\* verifyWorktree, before and after the configured command.
CheckTree ==
  /\ session \in {"check", "recheck"}
  /\ error' = tampered
  /\ session' = IF ~tampered /\ session = "check" /\ Verify THEN "command" ELSE "cleanup"
  /\ UNCHANGED <<stage, attempts, worktrees, dir, tampered, abandoned, findings>>

\* Mutant: the worktree is not looked at after the command.
CommandUnchecked(changes) ==
  /\ session = "command" /\ session' = "cleanup" /\ tampered' = changes
  /\ UNCHANGED <<stage, attempts, error, worktrees, dir, abandoned, findings>>

\* The command may change tracked files, too.
Command(changes) ==
  /\ session = "command" /\ session' = "recheck" /\ tampered' = changes
  /\ UNCHANGED <<stage, attempts, error, worktrees, dir, abandoned, findings>>

\* The agent or the command fails, or the context of the attempt is closed.
SessionFails ==
  /\ session \in {"agent", "check", "command", "recheck"}
  /\ session' = "cleanup" /\ error' = TRUE
  /\ UNCHANGED <<stage, attempts, worktrees, dir, tampered, abandoned, findings>>

\* The answer of the agent counts if the session has no error.
SessionResult ==
  stage' = IF error THEN "failed" ELSE IF stage = "investigate" THEN "findings" ELSE "verdict"

\* Mutant: only a session that went well removes its worktree.
CleanupIfWell ==
  /\ session = "cleanup" /\ session' = "none"
  /\ worktrees' = IF error THEN worktrees ELSE worktrees \ {dir}
  /\ SessionResult
  /\ UNCHANGED <<attempts, error, dir, tampered, abandoned, findings>>

\* cleanup has a context of its own and runs on every path.
Cleanup ==
  /\ session = "cleanup" /\ session' = "none"
  /\ worktrees' = worktrees \ {dir}
  /\ SessionResult
  /\ UNCHANGED <<attempts, error, dir, tampered, abandoned, findings>>

\* Its error is an error of the session, whatever the agent has answered.
CleanupFails ==
  /\ session = "cleanup" /\ session' = "none"
  /\ abandoned' = abandoned \cup {dir} /\ stage' = "failed"
  /\ UNCHANGED <<attempts, error, worktrees, dir, tampered, findings>>

-----------------------------------------------------------------------------
\* The findings.

\* parseResult accepts n findings, and GitHub's files are those of the snapshot.
ParseResult(n) ==
  /\ stage = "findings" /\ n <= MaxFindings /\ total' = n
  /\ stage' = IF n = 0 THEN "compose" ELSE "anchor"
  /\ UNCHANGED <<attempts, sessionVars, history, local, candidates, payload>>

\* The finding is in a file of the diff; is its line in the diff, too?
Anchor(shown) ==
  /\ stage = "anchor" /\ local' = shown /\ stage' = "verify"
  /\ UNCHANGED <<attempts, sessionVars, history, total, candidates, payload>>

Confirmed == {i \in DOMAIN candidates : candidates[i].verdict = "confirmed"}

\* The discussion, and the findings accepted before.
Comparison == history \cup {Candidate(i) : i \in Confirmed}

\* Mutant: an ID may be repeated.
ValidIfLong(checked) ==
  /\ Len(checked) = Cardinality(Comparison)
  /\ \A i \in DOMAIN checked : checked[i] \in Comparison

\* parseVerification: every ID exactly once.
ValidChecked(checked) ==
  /\ Len(checked) = Cardinality(Comparison)
  /\ \A i \in DOMAIN checked : checked[i] \in Comparison
  /\ \A i, j \in DOMAIN checked : checked[i] = checked[j] => i = j

\* A duplicate names what it repeats, no other verdict does.
ValidVerdict(verdict, duplicate) ==
  IF verdict = "duplicate" THEN duplicate \in Comparison ELSE duplicate = <<>>

\* A valid answer: the candidate is recorded, and if it is confirmed it goes
\* into the payload, inline if GitHub's patch shows the line as well.
Verdict(verdict, duplicate, checked, shown) ==
  LET i == Len(candidates) + 1 IN
  /\ stage = "verdict" /\ ValidChecked(checked) /\ ValidVerdict(verdict, duplicate)
  /\ candidates' = Append(candidates, [verdict |-> verdict, duplicate |-> duplicate,
                                       checked |-> {checked[k] : k \in DOMAIN checked}])
  /\ comments' = IF verdict = "confirmed" /\ local /\ shown THEN comments \cup {i} ELSE comments
  /\ summaryFindings' = IF verdict = "confirmed" /\ ~(local /\ shown)
                        THEN summaryFindings \cup {i} ELSE summaryFindings
  /\ stage' \in {"failed", IF i < total THEN "anchor" ELSE "compose"}  \* save may fail
  /\ UNCHANGED <<attempts, sessionVars, history, total, local>>

\* The payload is within GitHub's budget.
Compose ==
  /\ stage = "compose" /\ stage' = "done"
  /\ UNCHANGED <<attempts, sessionVars, findings>>

\* A call fails, an answer is malformed, the budget is exceeded, time is up.
StepFails ==
  /\ stage \in {"findings", "anchor", "verdict", "compose"} /\ stage' = "failed"
  /\ UNCHANGED <<attempts, sessionVars, findings>>

\* The process dies; nothing is removed.
Crash ==
  /\ stage \notin Ended /\ stage' = "crashed" /\ session' = "none"
  /\ abandoned' = IF session = "none" THEN abandoned ELSE abandoned \cup {dir}
  /\ UNCHANGED <<attempts, error, worktrees, dir, tampered, findings>>

-----------------------------------------------------------------------------
Verdicts == {"confirmed", "duplicate", "invalid", "uncertain"}

\* An ID that was not supplied: the finding itself.
Ids == Comparison \cup {Candidate(Len(candidates) + 1)}

Session ==
  \/ (\E d \in Dirs : AddWorktree(d)) \/ (\E left \in {{}} \cup {{d} : d \in Dirs} : AddFails(left))
  \/ (\E changes \in BOOLEAN : Execute(changes) \/ Command(changes))
  \/ CheckTree \/ SessionFails \/ Cleanup \/ CleanupFails

Finding ==
  \/ (\E n \in 0..MaxFindings : ParseResult(n)) \/ (\E shown \in BOOLEAN : Anchor(shown))
  \/ \E n \in 0..Cardinality(Ids) : \E checked \in [1..n -> Ids] :
       /\ stage = "verdict" /\ ValidChecked(checked)
       /\ \E verdict \in Verdicts, duplicate \in Ids \cup {<<>>}, shown \in BOOLEAN :
            Verdict(verdict, duplicate, checked, shown)
  \/ Compose \/ StepFails

AttemptNext == (\E d \in SUBSET Discussion : Begin(d)) \/ Session \/ Finding \/ Crash

AttemptSpec == AttemptInit /\ [][AttemptNext]_attemptVars

-----------------------------------------------------------------------------
AllIds == Discussion \cup {Candidate(i) : i \in 1..MaxFindings}

Judgement == [verdict : Verdicts, duplicate : AllIds \cup {<<>>}, checked : SUBSET AllIds]

\* The variables have their types.
AttemptTypeOK ==
  /\ stage \in Ended \cup {"investigate", "findings", "anchor", "verify", "verdict", "compose"}
  /\ session \in {"none", "agent", "check", "command", "recheck", "cleanup"}
  /\ attempts \in 0..MaxAttempts /\ {error, tampered, local} \subseteq BOOLEAN
  /\ worktrees \subseteq Dirs /\ abandoned \subseteq worktrees
  /\ session # "none" => dir \in Dirs
  /\ history \subseteq Discussion /\ total \in 0..MaxFindings
  /\ candidates \in Seq(Judgement) /\ comments \cup summaryFindings \subseteq DOMAIN candidates

\* Two findings of a review have been compared with each other, and each with
\* every comment; and what is left out as a duplicate repeats a comment or a
\* finding that the review has, so no defect drops out because of a candidate
\* that was itself rejected (prompt.go: verificationPrompt, parseVerification).
ComparedWithAll ==
  stage = "done" => \A i \in DOMAIN candidates :
    LET posted == {Candidate(k) : k \in comments \cup summaryFindings} IN
    /\ history \subseteq candidates[i].checked
    /\ \A k \in 1..(i - 1) : Candidate(k) \in posted => Candidate(k) \in candidates[i].checked
    /\ candidates[i].verdict = "duplicate" => candidates[i].duplicate \in history \cup posted

\* The review that is posted and the candidates that the state file, the status
\* and the dashboard show are of the same attempt: all findings have a verdict,
\* and the confirmed ones are in the payload, once each (run.go: review).
PayloadIsEvidence ==
  stage = "done" =>
    /\ Len(candidates) = total
    /\ comments \cup summaryFindings = Confirmed /\ comments \cap summaryFindings = {}

\* No session leaves its worktree, except for a crash or a git that fails, and
\* none works where another has left something (README.md: "Each verification
\* gets a fresh worktree"; git.go: worktree).
SessionsCleanUp ==
  IF session = "none" THEN worktrees = abandoned
  ELSE worktrees = abandoned \cup {dir} /\ dir \notin abandoned

\* An answer is used only if the agent and the command have left the commit and
\* the tracked files as they were (README.md: "Tracked-source or commit changes
\* invalidate the evidence").
EvidenceUntampered == session = "cleanup" /\ tampered => error
=============================================================================
