---------------------------- MODULE ReviewEngine ----------------------------
(***************************************************************************)
(* The review loop of the daemon (run.go), the state file it keeps         *)
(* (state.go) and the part of GitHub it talks to (github.go).              *)
(*                                                                         *)
(* One process polls the open pull requests, queues the revisions that     *)
(* need a review, lets agents find and verify defects in each, and posts   *)
(* one review per revision.  Between any two of its steps the process may  *)
(* be killed, a call may fail, and the pull request may change.  POST      *)
(* requests travel on their own: GitHub may act on one after the process   *)
(* that sent it is gone.                                                   *)
(*                                                                         *)
(* An action is one remote call, or one local step that ends in a save,    *)
(* with everything the code does before the next one.                      *)
(***************************************************************************)
EXTENDS Naturals, Sequences, FiniteSets

CONSTANTS
  PRs,          \* pull requests
  Bases,        \* commits the target branch can be at
  Heads,        \* commits a pull request can be at
  Findings,     \* defects the investigating agent can report
  Accounts,     \* GitHub accounts the operator can log in with
  Attempts,     \* config.Attempts: attempts before a revision needs `retry'
  MaxEdits,     \* bound: changes people make to the pull requests
  MaxFaults,    \* bound: failures of calls, saves and processes
  Modes,        \* the dry_run settings the operator starts the daemon with
  StorageFails, \* TRUE when a save may fail
  StateLoss,    \* TRUE when the state directory may be lost
  ListingLags,  \* TRUE when a review listing may omit a posted review
  None          \* no value

ASSUME NoneAssumption ==
  /\ None \notin PRs /\ None \notin Accounts
  /\ \A s \in SUBSET Findings : s # None
ASSUME BoundAssumption == Attempts \in Nat /\ MaxEdits \in Nat /\ MaxFaults \in Nat
ASSUME SwitchAssumption ==
  /\ Modes \subseteq BOOLEAN
  /\ StorageFails \in BOOLEAN /\ StateLoss \in BOOLEAN /\ ListingLags \in BOOLEAN

Rev == [base : Bases, head : Heads]

\* revisionKey names the pull request and its revision; a job is found by key
\* and dry_run together.
JobId == [pr : PRs, rev : Rev, dry : BOOLEAN]

Status == {"none", "pending", "failed", "posting", "submitted", "dry_run", "stale"}

Job == [status  : Status,                    \* "none": the job is not in the list
        tries   : 0..Attempts,
        wait    : BOOLEAN,                   \* RetryAt lies in the future
        body    : {None} \cup Nat,           \* PR.Body as captured by the scan
        cand    : SUBSET Findings,           \* Candidates
        payload : {None} \cup SUBSET Findings, \* the findings in Payload
        actor   : {None} \cup Accounts]

NoJob == [status |-> "none", tries |-> 0, wait |-> FALSE, body |-> None,
          cand |-> {}, payload |-> None, actor |-> None]

Review == [by : Accounts, found : SUBSET Findings]

PullRequest == [rev : Rev, eligible : BOOLEAN, body : Nat, disc : Nat]

VARIABLES
  \* GitHub
  pr,         \* pr[p]: the pull request as the API would report it now
  posted,     \* posted[k]: reviews on GitHub whose body has the marker of k
  wire,       \* wire[k]: POST requests for k that GitHub has not answered
  \* the process and its state file
  jobs,       \* State.Jobs in memory
  disk,       \* state.json
  pc,         \* where the process is; "off" when there is none
  dry,        \* config.DryRun
  account,    \* engine.actor
  unsettled,  \* posting jobs the reconcile loop has yet to look up
  listed,     \* pull requests the scan loop has yet to fetch
  queue,      \* jobs the step has yet to attempt
  cur,        \* the job under review
  hist,       \* the discussion the attempt was started with
  todo,       \* findings the attempt has yet to verify
  confirmed,  \* findings the attempt has verified
  reply,      \* GitHub's answer to the request the process waits for
  \* bounds and observation
  edits, faults,
  missed      \* the context of cur changed while its agents worked

github == <<pr, posted, wire>>
store  == <<jobs, disk>>
loop   == <<dry, account, unsettled, listed, queue>>
work   == <<cur, hist, todo, confirmed, reply>>
vars   == <<github, store, pc, loop, work, edits, faults, missed>>

Locations == {"off", "reconcile", "scan", "next", "review", "snapshot",
              "investigate", "verify", "recheck", "rediscuss", "lastpull",
              "create", "await", "stale", "setup", "error", "idle", "exiting"}

\* Where an attempt is under way, from its first save to its last.
Reviewing == {"review", "snapshot", "investigate", "verify", "recheck",
              "rediscuss", "lastpull", "create", "await", "stale", "setup", "error"}

GitHubTypes ==
  /\ pr \in [PRs -> PullRequest]
  /\ posted \in [JobId -> Seq(Review)]
  /\ wire \in [JobId -> Seq(Review)]

StoreTypes ==
  /\ jobs \in [JobId -> Job]
  /\ disk \in [JobId -> Job]

LoopTypes ==
  /\ pc \in Locations
  /\ dry \in BOOLEAN
  /\ account \in {None} \cup Accounts
  /\ unsettled \subseteq JobId
  /\ listed \subseteq PRs
  /\ queue \subseteq JobId

WorkTypes ==
  /\ cur \in {None} \cup JobId
  /\ hist \in {None} \cup Nat
  /\ todo \subseteq Findings
  /\ confirmed \subseteq Findings
  /\ reply \in {"none", "accepted", "rejected"}

BudgetTypes == edits \in 0..MaxEdits /\ faults \in 0..MaxFaults /\ missed \in BOOLEAN

\* Every variable keeps its type: among others, no job is attempted more often
\* than config.Attempts (run.go: the test of Tries in step).
TypeOK == GitHubTypes /\ StoreTypes /\ LoopTypes /\ WorkTypes /\ BudgetTypes

-----------------------------------------------------------------------------
\* Failures.  Each one draws on the same budget, so that they come to an end.

Fault == faults > 0 /\ faults' = faults - 1
NoFault == UNCHANGED faults

\* writeState renames a synced temporary file over state.json and then syncs
\* the directory: a failure leaves either the old file or the new one.
Saves(j) == jobs' = j /\ disk' = j /\ NoFault
SaveFails(j) == StorageFails /\ Fault /\ jobs' = j /\ disk' \in {disk, j}

\* ReadState refuses a posting or submitted job without its intent.
Loadable(j) ==
  \A k \in JobId :
    j[k].status \in {"posting", "submitted"} =>
      ~k.dry /\ j[k].actor # None /\ j[k].payload # None

\* existing: the reviews of k by the account that (would have) posted it.
Owner(k) == IF jobs[k].actor = None THEN account ELSE jobs[k].actor
Mine(k) == {i \in DOMAIN posted[k] : posted[k][i].by = Owner(k)}

-----------------------------------------------------------------------------
\* What people and GitHub do to a pull request, and the process to a job.

Discussed(p) == [p EXCEPT !.disc = @ + 1]

Described(p) == [p EXCEPT !.body = @ + 1]

Toggled(p) == [p EXCEPT !.eligible = ~@]

With(j, s) == [j EXCEPT !.status = s]

Adopted(j, found) == [j EXCEPT !.payload = found, !.actor = account]

Attempted(j) == [j EXCEPT !.tries = @ + 1, !.status = "pending", !.payload = None, !.cand = {}]

Reset(j) == [j EXCEPT !.status = "pending", !.tries = 0, !.wait = FALSE]

Judged(j, f) == [j EXCEPT !.cand = @ \cup {f}]

Delayed(j) == [j EXCEPT !.status = "failed", !.wait = TRUE]

-----------------------------------------------------------------------------
\* The process starts, ends, and begins a step.

Init ==
  /\ \E rev \in [PRs -> Rev] :
       pr = [p \in PRs |-> [rev |-> rev[p], eligible |-> TRUE, body |-> 0, disc |-> 0]]
  /\ posted = [k \in JobId |-> <<>>]
  /\ wire = [k \in JobId |-> <<>>]
  /\ jobs = [k \in JobId |-> NoJob]
  /\ disk = [k \in JobId |-> NoJob]
  /\ pc = "off" /\ dry = FALSE /\ account = None
  /\ unsettled = {} /\ listed = {} /\ queue = {}
  /\ cur = None /\ hist = None /\ todo = {} /\ confirmed = {} /\ reply = "none"
  /\ edits = MaxEdits /\ faults = MaxFaults /\ missed = FALSE

\* Mutant: the DryRun test is missing.
ToReconcileInDryRuns(d) ==
  /\ pc' = "reconcile"
  /\ unsettled' = {k \in JobId : jobs[k].status = "posting"}
  /\ UNCHANGED <<github, store, listed, queue, work, edits, faults, missed>>

\* Mutant: only pull requests that are still eligible are reconciled.
ToReconcileEligible(d) ==
  /\ pc' = "reconcile"
  /\ unsettled' = {k \in JobId : jobs[k].status = "posting" /\ ~d /\ pr[k.pr].eligible}
  /\ UNCHANGED <<github, store, listed, queue, work, edits, faults, missed>>

\* The first loop of step looks up every posting job, in a live run only.
ToReconcile(d) ==
  /\ pc' = "reconcile"
  /\ unsettled' = {k \in JobId : jobs[k].status = "posting" /\ ~d}
  /\ UNCHANGED <<github, store, listed, queue, work, edits, faults, missed>>

Start(d, a) ==
  /\ pc = "off" /\ Loadable(disk)
  /\ dry' = d
  /\ account' = IF d THEN None ELSE a
  /\ ToReconcile(d)

Poll == pc = "idle" /\ ToReconcile(dry) /\ UNCHANGED <<dry, account>>

\* What the locals of an attempt are worth once it is over.
Leave == cur' = None /\ hist' = None /\ todo' = {} /\ confirmed' = {} /\ reply' = "none"

\* The process is gone; what it had in memory is what it will read back.
Halt ==
  /\ pc' = "off" /\ jobs' = disk
  /\ dry' = FALSE /\ account' = None
  /\ unsettled' = {} /\ listed' = {} /\ queue' = {}
  /\ Leave /\ missed' = FALSE
  /\ UNCHANGED <<github, disk, edits>>

\* A run that was asked for one step, or met a setup error, ends; a signal is
\* noticed between the loops of a step and between two jobs of the queue.
Exit ==
  /\ \/ pc \in {"idle", "exiting"} /\ NoFault
     \/ pc = "reconcile" /\ unsettled = {} /\ Fault
     \/ pc = "next" /\ queue # {} /\ Fault
  /\ Halt

Crash == pc # "off" /\ Fault /\ Halt

-----------------------------------------------------------------------------
\* step: reconcile what was being posted, then decide what to review.

\* Mutant: a review that does not appear is taken for one that was never made.
ReconcileGivesUp(k) ==
  /\ pc = "reconcile" /\ k \in unsettled
  /\ unsettled' = unsettled \ {k}
  /\ \E s \in {"submitted", "failed"} :
       /\ s = "submitted" <=> Mine(k) # {}
       /\ Saves([jobs EXCEPT ![k] = With(@, s)])
  /\ UNCHANGED <<github, pc, dry, account, listed, queue, work, edits, missed>>

\* A listing that fails or lags leaves the job as it is, like one in which
\* the review does not appear; a failed save does not end the loop.
Reconcile(k) ==
  /\ pc = "reconcile" /\ k \in unsettled
  /\ unsettled' = unsettled \ {k}
  /\ \/ Fault /\ UNCHANGED store
     \/ \E i \in Mine(k) :
          /\ Mine(k) = {i} /\ posted[k][i].found = jobs[k].payload
          /\ LET settled == [jobs EXCEPT ![k] = With(@, "submitted")]
             IN  Saves(settled) \/ SaveFails(settled)
     \/ /\ ~\E i \in Mine(k) : Mine(k) = {i} /\ posted[k][i].found = jobs[k].payload
        /\ NoFault /\ UNCHANGED store
  /\ UNCHANGED <<github, pc, dry, account, listed, queue, work, edits, missed>>

\* The listing holds every open pull request; each is fetched again.
ListPulls ==
  /\ pc = "reconcile" /\ unsettled = {}
  /\ \/ /\ pc' = "scan" /\ NoFault
        /\ \E s \in SUBSET PRs : {p \in PRs : pr[p].eligible} \subseteq s /\ listed' = s
     \/ pc' = "idle" /\ Fault /\ UNCHANGED listed
  /\ UNCHANGED <<github, store, dry, account, unsettled, queue, work, edits, missed>>

\* Unfinished work on another revision of p is no longer wanted.
Superseded(p, rev) ==
  [k \in JobId |->
     IF k.pr = p /\ k.rev # rev /\ jobs[k].status \in {"pending", "failed"}
       THEN With(jobs[k], "stale")
       ELSE jobs[k]]

\* Mutant: only an uncertain review of the present revision counts.
UncertainHere(p) ==
  \E k \in JobId : k.pr = p /\ ~k.dry /\ k.rev = pr[p].rev /\ jobs[k].status = "posting"

Uncertain(p) == \E k \in JobId : k.pr = p /\ ~k.dry /\ jobs[k].status = "posting"

\* The job of a revision the scan has met: new, revived, or as it was.
Opened(k) ==
  CASE jobs[k].status = "none"  -> [With(NoJob, "pending") EXCEPT !.body = pr[k.pr].body]
    [] jobs[k].status = "stale" -> [With(jobs[k], "pending") EXCEPT !.tries = 0]
    [] OTHER -> jobs[k]

\* Mutant: the limit on attempts is not enforced.
ReadyAgain(j) == j.status \notin {"submitted", "dry_run"} /\ ~j.wait

\* Mutant: a failed job waits for the operator.
ReadyUnlessFailed(j) ==
  j.status \notin {"submitted", "dry_run", "failed"} /\ ~j.wait /\ j.tries < Attempts

Ready(j) == j.status \notin {"submitted", "dry_run"} /\ ~j.wait /\ j.tries < Attempts

Scan(p) ==
  LET k == [pr |-> p, rev |-> pr[p].rev, dry |-> dry]
      j == Opened(k)
  IN
  /\ pc = "scan" /\ p \in listed
  /\ listed' = listed \ {p}
  /\ \/ Fault /\ UNCHANGED <<jobs, queue>>
     \/ ~pr[p].eligible /\ NoFault /\ UNCHANGED <<jobs, queue>>
     \/ /\ pr[p].eligible /\ Uncertain(p) /\ NoFault
        /\ jobs' = Superseded(p, k.rev) /\ UNCHANGED queue
     \/ /\ pr[p].eligible /\ ~Uncertain(p) /\ NoFault
        /\ jobs' = [Superseded(p, k.rev) EXCEPT
                      ![k] = IF Ready(j) THEN [j EXCEPT !.body = pr[p].body] ELSE j]
        /\ queue' = IF Ready(j) THEN queue \cup {k} ELSE queue
  /\ UNCHANGED <<github, disk, pc, dry, account, unsettled, work, edits, missed>>

EndScan ==
  /\ pc = "scan" /\ listed = {}
  /\ \/ Saves(jobs) /\ pc' = "next" /\ UNCHANGED queue
     \/ SaveFails(jobs) /\ pc' = "idle" /\ queue' = {}
  /\ UNCHANGED <<github, dry, account, unsettled, listed, work, edits, missed>>

-----------------------------------------------------------------------------
\* step: the queue.  Live jobs first look for a review already posted.

EndQueue ==
  /\ pc = "next" /\ queue = {} /\ pc' = "idle"
  /\ UNCHANGED <<github, store, loop, work, edits, faults, missed>>

Take(k) == pc = "next" /\ k \in queue

\* The listing fails, or several reviews carry the marker: try the next job.
LookupFails(k) ==
  /\ Take(k) /\ ~dry
  /\ Fault \/ (Cardinality(Mine(k)) > 1 /\ NoFault)
  /\ queue' = queue \ {k}
  /\ UNCHANGED <<github, store, pc, dry, account, unsettled, listed, work, edits, missed>>

\* Mutant: the adopted review is not made into an intent.
RecoverBare(k) ==
  /\ Take(k) /\ ~dry /\ Cardinality(Mine(k)) = 1
  /\ Saves([jobs EXCEPT ![k] = With(@, "submitted")])
  /\ queue' = queue \ {k}
  /\ UNCHANGED <<github, pc, dry, account, unsettled, listed, work, edits, missed>>

\* The review is there already, e.g. because state.json was lost: adopt it,
\* unless it is another account's than the one the process now has.
Recover(k) ==
  /\ Take(k) /\ ~dry
  /\ \E i \in Mine(k) :
       /\ Mine(k) = {i}
       /\ LET adopted == Adopted(jobs[k], posted[k][i].found)
              matched == [jobs EXCEPT ![k] = With(adopted, "submitted")]
          IN  \/ /\ posted[k][i].by = account
                 /\ \/ Saves(matched) /\ pc' = "next" /\ queue' = queue \ {k}
                    \/ SaveFails(matched) /\ pc' = "idle" /\ queue' = {}
              \/ /\ posted[k][i].by # account
                 /\ jobs' = [jobs EXCEPT ![k] = adopted]
                 /\ UNCHANGED <<disk, pc>> /\ NoFault /\ queue' = queue \ {k}
  /\ UNCHANGED <<github, dry, account, unsettled, listed, work, edits, missed>>

\* Mutant: the lookup is only worth doing before the first attempt.
BeginAttemptBlindly(k) ==
  /\ Take(k) /\ (dry \/ Mine(k) = {} \/ jobs[k].tries > 0)
  /\ Saves([jobs EXCEPT ![k] = Attempted(@)])
  /\ pc' = "review" /\ cur' = k /\ queue' = queue \ {k} /\ missed' = FALSE
  /\ UNCHANGED <<github, dry, account, unsettled, listed, hist, todo, confirmed, reply, edits>>

BeginAttempt(k) ==
  LET j == [jobs EXCEPT ![k] = Attempted(@)] IN
  /\ Take(k)
  /\ \/ /\ dry \/ Mine(k) = {}
        /\ \/ Saves(j) /\ pc' = "review" /\ cur' = k /\ queue' = queue \ {k}
           \/ SaveFails(j) /\ pc' = "idle" /\ queue' = {} /\ UNCHANGED cur
     \/ /\ ~dry /\ Mine(k) # {} /\ ListingLags /\ Fault
        /\ jobs' = j /\ disk' = j
        /\ pc' = "review" /\ cur' = k /\ queue' = queue \ {k}
  /\ missed' = FALSE
  /\ UNCHANGED <<github, dry, account, unsettled, listed, hist, todo, confirmed, reply, edits>>

-----------------------------------------------------------------------------
\* review: one attempt, up to its publication.

PR == pr[cur.pr]
Current == PR.eligible /\ PR.rev = cur.rev

ReadDiscussion ==
  /\ pc = "review" /\ pc' = "snapshot"
  /\ hist' = PR.disc
  /\ UNCHANGED <<github, store, loop, cur, todo, confirmed, reply, edits, faults, missed>>

\* The fetched pull ref must still be the reported head.
Snapshot ==
  /\ pc = "snapshot"
  /\ pc' = IF PR.rev.head = cur.rev.head THEN "investigate" ELSE "stale"
  /\ UNCHANGED <<github, store, loop, work, edits, faults, missed>>

Investigate ==
  /\ pc = "investigate" /\ pc' = "verify"
  /\ todo' \in SUBSET Findings
  /\ UNCHANGED <<github, store, loop, cur, hist, confirmed, reply, edits, faults, missed>>

\* A second session judges each finding; every candidate is saved.
Verify(f) ==
  LET j == [jobs EXCEPT ![cur] = Judged(@, f)] IN
  /\ pc = "verify" /\ f \in todo
  /\ todo' = todo \ {f}
  /\ confirmed' \in {confirmed, confirmed \cup {f}}
  /\ \/ Saves(j) /\ UNCHANGED pc
     \/ SaveFails(j) /\ pc' = "error"
  /\ UNCHANGED <<github, loop, cur, hist, reply, edits, missed>>

Compose ==
  /\ pc = "verify" /\ todo = {} /\ pc' = "recheck"
  /\ jobs' = [jobs EXCEPT ![cur] = [@ EXCEPT !.payload = confirmed]]
  /\ UNCHANGED <<github, disk, loop, work, edits, faults, missed>>

Recheck ==
  /\ pc = "recheck"
  /\ pc' = CASE ~Current -> "stale"
             [] Current /\ PR.body # jobs[cur].body -> "error"
             [] OTHER -> "rediscuss"
  /\ UNCHANGED <<github, store, loop, work, edits, faults, missed>>

\* Mutant: the discussion is not compared.
RediscussBriefly ==
  LET j == [jobs EXCEPT ![cur] = With(@, "dry_run")] IN
  /\ pc = "rediscuss"
  /\ \/ ~dry /\ pc' = "lastpull" /\ UNCHANGED <<store, faults, work>>
     \/ dry /\ Saves(j) /\ pc' = "next" /\ Leave
     \/ dry /\ SaveFails(j) /\ pc' = "error" /\ UNCHANGED work
  /\ UNCHANGED <<github, loop, edits, missed>>

\* The discussion must be the one the agents were given.  A dry run ends here.
Rediscuss ==
  LET j == [jobs EXCEPT ![cur] = With(@, "dry_run")] IN
  /\ pc = "rediscuss"
  /\ \/ PR.disc # hist /\ pc' = "error" /\ UNCHANGED <<store, faults, work>>
     \/ PR.disc = hist /\ ~dry /\ pc' = "lastpull" /\ UNCHANGED <<store, faults, work>>
     \/ PR.disc = hist /\ dry /\ Saves(j) /\ pc' = "next" /\ Leave
     \/ PR.disc = hist /\ dry /\ SaveFails(j) /\ pc' = "error" /\ UNCHANGED work
  /\ UNCHANGED <<github, loop, edits, missed>>

\* Mutant: the intent is left to the next save.
LastPullUnsaved ==
  /\ pc = "lastpull"
  /\ \/ ~Current /\ pc' = "stale" /\ UNCHANGED jobs
     \/ /\ Current /\ pc' = "create"
        /\ jobs' = [jobs EXCEPT ![cur] = [With(@, "posting") EXCEPT !.actor = account]]
  /\ UNCHANGED <<github, disk, loop, work, edits, faults, missed>>

\* Mutant: the pull request is not read again before the intent.
LastPullOmitted ==
  LET j == [jobs EXCEPT ![cur] = [With(@, "posting") EXCEPT !.actor = account]] IN
  /\ pc = "lastpull"
  /\ \/ Saves(j) /\ pc' = "create"
     \/ SaveFails(j) /\ pc' = "error"
  /\ UNCHANGED <<github, loop, work, edits, missed>>

\* The last metadata read is followed by the durable publication intent.
LastPull ==
  LET j == [jobs EXCEPT ![cur] = [With(@, "posting") EXCEPT !.actor = account]] IN
  /\ pc = "lastpull"
  /\ \/ ~Current /\ pc' = "stale" /\ UNCHANGED <<store, faults>>
     \/ Current /\ Saves(j) /\ pc' = "create"
     \/ Current /\ SaveFails(j) /\ pc' = "error"
  /\ UNCHANGED <<github, loop, work, edits, missed>>

\* create writes the request to a temporary file before it sends it; when that
\* fails nothing was sent and the job counts as rejected.
Create ==
  /\ pc = "create"
  /\ \/ /\ pc' = "await" /\ NoFault /\ UNCHANGED jobs
        /\ wire' = [wire EXCEPT ![cur] = Append(@, [by |-> account, found |-> jobs[cur].payload])]
     \/ /\ pc' = "error" /\ StorageFails /\ Fault /\ UNCHANGED wire
        /\ jobs' = [jobs EXCEPT ![cur] = With(@, "failed")]
  /\ UNCHANGED <<pr, posted, disk, loop, work, edits, missed>>

Answer ==
  LET created == [jobs EXCEPT ![cur] = With(@, "submitted")]
      refused == [jobs EXCEPT ![cur] = With(@, "failed")]
  IN
  /\ pc = "await"
  /\ \/ reply = "accepted" /\ Saves(created) /\ pc' = "next" /\ Leave
     \/ reply = "accepted" /\ SaveFails(created) /\ pc' = "error" /\ UNCHANGED work
     \/ /\ reply = "rejected" /\ jobs' = refused /\ pc' = "error"
        /\ NoFault /\ UNCHANGED <<disk, work>>
  /\ UNCHANGED <<github, loop, edits, missed>>

\* The connection breaks, the answer cannot be read, or the attempt times out.
GiveUp ==
  /\ pc = "await" /\ pc' = "error"
  /\ Fault \/ (reply = "none" /\ wire[cur] = <<>> /\ NoFault)
  /\ UNCHANGED <<github, store, loop, work, edits, missed>>

\* A call to GitHub, git or an agent fails, its result is refused, or the
\* attempt runs out of time.
ReviewFails ==
  /\ pc \in {"review", "snapshot", "investigate", "verify", "recheck", "rediscuss", "lastpull"}
  /\ Fault /\ pc' = "error"
  /\ UNCHANGED <<github, store, loop, work, edits, missed>>

\* The agent cannot be run at all: the attempt will not count.
SetupFails ==
  /\ pc \in {"investigate", "verify"} /\ Fault /\ pc' = "setup"
  /\ UNCHANGED <<github, store, loop, work, edits, missed>>

\* Mutant: an uncertain publication fails like anything else.
FailedForgetsIntent(j) ==
  CASE pc = "stale" -> With(j, "stale")
    [] pc = "setup" -> [Delayed(j) EXCEPT !.tries = @ - 1]
    [] OTHER -> Delayed(j)

\* What step does with the error of an attempt.
Failed(j) ==
  CASE pc = "stale" -> With(j, "stale")
    [] pc = "setup" -> [Delayed(j) EXCEPT !.tries = @ - 1]
    [] pc = "error" /\ j.status = "posting" -> j
    [] OTHER -> Delayed(j)

HandleError ==
  LET j == [jobs EXCEPT ![cur] = Failed(jobs[cur])] IN
  /\ pc \in {"stale", "setup", "error"}
  /\ \/ Saves(j) /\ pc' = (IF pc = "setup" THEN "exiting" ELSE "next")
     \/ SaveFails(j) /\ pc' = (IF pc = "setup" THEN "exiting" ELSE "idle")
  /\ queue' = IF pc' = "next" THEN queue ELSE {}
  /\ Leave
  /\ UNCHANGED <<github, dry, account, unsettled, listed, edits, missed>>

-----------------------------------------------------------------------------
\* Time, the operator and the file system.

RetryElapses(k) ==
  /\ jobs[k].wait \/ disk[k].wait
  /\ jobs' = [jobs EXCEPT ![k] = [@ EXCEPT !.wait = FALSE]]
  /\ disk' = [disk EXCEPT ![k] = [@ EXCEPT !.wait = FALSE]]
  /\ UNCHANGED <<github, pc, loop, work, edits, faults, missed>>

\* Mutant: `retry' also clears an uncertain publication.
RetryAnyway(scope, d) ==
  LET again == [k \in JobId |->
                  IF k.pr \in scope /\ k.dry = d /\ disk[k].status \in {"failed", "posting"}
                    THEN Reset(disk[k])
                    ELSE disk[k]]
  IN
  /\ pc = "off" /\ Loadable(disk) /\ again # disk
  /\ Saves(again)
  /\ UNCHANGED <<github, pc, loop, work, edits, missed>>

\* `retry' resets failed jobs, of one pull request or of all, while the lock
\* keeps the daemon out; one uncertain publication among them stops it.  (When
\* its write fails the file holds either disk or again: no step, or this one.)
Retry(scope, d) ==
  LET chosen == {k \in JobId : k.pr \in scope /\ k.dry = d}
      again == [k \in JobId |->
                  IF k \in chosen /\ disk[k].status = "failed"
                    THEN Reset(disk[k])
                    ELSE disk[k]]
  IN
  /\ pc = "off" /\ Loadable(disk)
  /\ \A k \in chosen : disk[k].status # "posting"
  /\ again # disk
  /\ Saves(again)
  /\ UNCHANGED <<github, pc, loop, work, edits, missed>>

\* The state directory disappears between two runs, with nothing in flight.
LoseState ==
  /\ StateLoss /\ pc = "off" /\ Fault
  /\ \A k \in JobId : wire[k] = <<>>
  /\ disk # [k \in JobId |-> NoJob]
  /\ disk' = [k \in JobId |-> NoJob] /\ jobs' = disk'
  /\ UNCHANGED <<github, pc, loop, work, edits, missed>>

-----------------------------------------------------------------------------
\* GitHub and the people who use it.

Answers(k, r) ==
  reply' = IF pc = "await" /\ cur = k /\ Len(wire[k]) = 1 THEN r ELSE reply

\* A posted review is part of the discussion from then on.
Accept(k) ==
  /\ wire[k] # <<>>
  /\ posted' = [posted EXCEPT ![k] = Append(@, Head(wire[k]))]
  /\ pr' = [pr EXCEPT ![k.pr] = Discussed(@)]
  /\ wire' = [wire EXCEPT ![k] = Tail(@)]
  /\ Answers(k, "accepted")
  /\ UNCHANGED <<store, pc, loop, cur, hist, todo, confirmed, edits, faults, missed>>

Reject(k) ==
  /\ wire[k] # <<>> /\ Fault
  /\ wire' = [wire EXCEPT ![k] = Tail(@)]
  /\ Answers(k, "rejected")
  /\ UNCHANGED <<pr, posted, store, pc, loop, cur, hist, todo, confirmed, edits, missed>>

Drop(k) ==
  /\ wire[k] # <<>> /\ Fault
  /\ wire' = [wire EXCEPT ![k] = Tail(@)]
  /\ UNCHANGED <<pr, posted, store, pc, loop, work, edits, missed>>

Edit == edits > 0 /\ edits' = edits - 1

Push(p, r) ==
  /\ Edit /\ pr[p].rev # r
  /\ pr' = [pr EXCEPT ![p] = [@ EXCEPT !.rev = r]]
  /\ UNCHANGED <<posted, wire, store, pc, loop, work, faults, missed>>

\* Draft, closed, locked, relabelled, retargeted, or back again.
Toggle(p) ==
  /\ Edit
  /\ pr' = [pr EXCEPT ![p] = Toggled(@)]
  /\ UNCHANGED <<posted, wire, store, pc, loop, work, faults, missed>>

\* The agents have been given p's description and discussion and still work.
AtWorkOn(p) == cur # None /\ cur.pr = p /\ pc \in {"snapshot", "investigate", "verify"}

Describe(p) ==
  /\ Edit
  /\ pr' = [pr EXCEPT ![p] = Described(@)]
  /\ missed' = (missed \/ AtWorkOn(p))
  /\ UNCHANGED <<posted, wire, store, pc, loop, work, faults>>

Comment(p) ==
  /\ Edit
  /\ pr' = [pr EXCEPT ![p] = Discussed(@)]
  /\ missed' = (missed \/ AtWorkOn(p))
  /\ UNCHANGED <<posted, wire, store, pc, loop, work, faults>>

-----------------------------------------------------------------------------
Daemon ==
  \/ \E d \in Modes, a \in Accounts : Start(d, a)
  \/ Poll \/ ListPulls \/ EndScan \/ EndQueue
  \/ \E k \in JobId : Reconcile(k) \/ LookupFails(k) \/ Recover(k) \/ BeginAttempt(k)
  \/ \E p \in PRs : Scan(p)
  \/ ReadDiscussion \/ Snapshot \/ Investigate \/ Compose
  \/ \E f \in Findings : Verify(f)
  \/ Recheck \/ Rediscuss \/ LastPull \/ Create \/ Answer
  \/ GiveUp \/ ReviewFails \/ SetupFails \/ HandleError \/ Exit

Operator ==
  \/ Crash \/ LoseState
  \/ \E scope \in {PRs} \cup {{p} : p \in PRs}, d \in Modes : Retry(scope, d)

GitHub == \E k \in JobId : Accept(k) \/ Reject(k) \/ Drop(k)

People == \E p \in PRs : Toggle(p) \/ Describe(p) \/ Comment(p) \/ \E r \in Rev : Push(p, r)

Next == Daemon \/ Operator \/ GitHub \/ People \/ \E k \in JobId : RetryElapses(k)

Spec == Init /\ [][Next]_vars

\* The process runs and is started again, requests are answered, time passes.
Fairness ==
  /\ WF_vars(Daemon)
  /\ \A k \in JobId : WF_vars(Accept(k)) /\ WF_vars(RetryElapses(k))

FairSpec == Spec /\ Fairness

-----------------------------------------------------------------------------
(***************************************************************************)
(* Safety.                                                                 *)
(***************************************************************************)

\* A revision gets at most one review, counting requests GitHub may still act
\* on, whatever crashes, is lost, or comes late; a dry run posts nothing
\* (run.go: the posting status, existing, reconcile).
AtMostOnce == \A k \in JobId : Len(posted[k]) + Len(wire[k]) <= (IF k.dry THEN 0 ELSE 1)

\* While a request may be acted on, state.json holds the intent it came from:
\* a restarted process knows what to look for (run.go: LastPull's save).
DurableIntent ==
  \A k \in JobId : wire[k] # <<>> =>
    /\ disk[k].status = "posting"
    /\ disk[k].payload = Head(wire[k]).found /\ disk[k].actor = Head(wire[k]).by

\* Whatever interrupts the process, the file it leaves is one that ReadState
\* accepts (state.go: ReadState's check of saved publication intents).
SavedStateLoads == Loadable(disk)

\* No attempt runs on a pull request while the outcome of another revision's
\* review of it is unknown (run.go: blocked), in dry runs either.
NoWorkWhileUncertain ==
  pc \in Reviewing =>
    \A k \in JobId \ {cur} : k.pr = cur.pr /\ ~k.dry => jobs[k].status # "posting"

\* An attempt goes on to post its review only if nothing was said and no
\* description changed while the agents that wrote it were at work, and the pull
\* request is still wanted, and at the reviewed revision, when it is read last:
\* whatever people do between the reads (run.go: the two comparisons and the
\* last read, which precede the publication intent).
NothingMissedIsPosted ==
  [][pc # "create" /\ pc' = "create" => ~missed /\ Current]_vars

\* What state.json says of a publication stands: a submitted review stays
\* submitted, and an intent is given up only for a review that exists or for
\* a request that GitHub refused.
PublicationsStand ==
  [][\A k \in JobId :
       /\ disk[k].status = "submitted" => disk'[k].status = "submitted"
       /\ disk[k].status = "posting" /\ disk'[k].status # "posting" =>
            \/ disk'[k].status = "submitted" /\ posted[k] # <<>>
            \/ disk'[k].status = "failed" /\ posted[k] = <<>> /\ wire[k] = <<>>]_vars

\* A dry run leaves the live jobs in the file it shares with them alone, except
\* that it retires those of superseded revisions (run.go: step's DryRun tests).
DryRunLeavesLive ==
  [][dry => \A k \in JobId : ~k.dry =>
       disk'[k] \in {disk[k], [disk[k] EXCEPT !.status = "stale"],
                     [disk[k] EXCEPT !.wait = FALSE]}]_vars

(***************************************************************************)
(* Liveness, once edits and failures have come to an end.                  *)
(***************************************************************************)

\* A review that GitHub created is eventually recorded as submitted, "even if
\* a PR closed, advanced, or exhausted its attempts" (run.go, step).
PublicationRecorded ==
  \A k \in JobId : posted[k] # <<>> ~> disk[k].status = "submitted"

\* Every eligible pull request ends up with a review of its revision, unless
\* its attempts ran out or an uncertain publication holds it up.
Settled(p) ==
  LET k == [pr |-> p, rev |-> pr[p].rev, dry |-> FALSE] IN
  pr[p].eligible =>
    jobs[k].status = "submitted" \/ jobs[k].tries = Attempts \/ Uncertain(p)
Settles == <>[](\A p \in PRs : Settled(p))

(***************************************************************************)
(* The promise it implements.                                              *)
(***************************************************************************)
Live == {k \in JobId : ~k.dry}

Publication == INSTANCE PublishOnce WITH
  Jobs   <- Live,
  phase  <- [k \in Live |-> CASE disk[k].status = "posting"   -> "intent"
                              [] disk[k].status = "submitted" -> "done"
                              [] OTHER                        -> "open"],
  remote <- [k \in Live |-> IF posted[k] # <<>> THEN "published"
                            ELSE IF wire[k] # <<>> THEN "sent" ELSE "none"]

\* Every step of the engine on the saved state and on GitHub is a step of
\* PublishOnce, for each job on its own (run.go: step, review, reconcile).
PublishesOnce == Publication!Spec

(***************************************************************************)
(* Statements of the documentation and of messages that the code refutes.  *)
(***************************************************************************)

\* run.go, step: "exhausted its review attempts; use retry" is told of a job
\* that `retry' resets.
ExhaustedIsRetriable ==
  pc = "off" =>
    \A k \in JobId :
      disk[k].status \in {"pending", "failed"} /\ disk[k].tries = Attempts =>
        disk[k].status = "failed"

\* cmd/brv/worker.go certifies the review of a submitted job with the findings
\* among its candidates: those of the review on GitHub are among them.
CertifiedFindings ==
  \A k \in JobId : disk[k].status = "submitted" =>
    \A i \in DOMAIN posted[k] : posted[k][i].found \subseteq disk[k].cand
=============================================================================
