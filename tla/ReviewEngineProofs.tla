------------------------- MODULE ReviewEngineProofs -------------------------
(***************************************************************************)
(* Proofs about ReviewEngine, for every value of its constants.            *)
(***************************************************************************)
EXTENDS ReviewEngine, TLAPS, SequenceTheorems

\* Where the process is and what it works on.
Placed ==
  /\ pc \in Reviewing => cur \in JobId /\ cur.dry = dry /\ cur \notin queue
  /\ \A k \in queue : k.dry = dry
  /\ pc # "reconcile" => unsettled = {}
  /\ queue # {} => pc \in Reviewing \cup {"scan", "next"}
  /\ pc \notin {"await", "error"} => reply = "none"
  /\ pc # "off" /\ ~dry => account \in Accounts
  /\ pc \in {"lastpull", "create", "await"} => ~dry

\* What the jobs it works on look like there.
Held ==
  /\ pc \in Reviewing => jobs[cur].tries > 0
  /\ \A k \in queue : jobs[k].status \notin {"posting", "submitted"} /\ jobs[k].tries < Attempts
  /\ \A k \in unsettled : jobs[k].status = "posting"
  /\ pc \in {"recheck", "rediscuss", "lastpull", "create"} => jobs[cur].payload \in SUBSET Findings

\* A job of a dry run is never a publication.
Published(j, k) == j[k].status \in {"posting", "submitted"}
QuietIn(j) == \A k \in JobId : k.dry => ~Published(j, k)
Quiet == QuietIn(jobs) /\ QuietIn(disk)

Located == Placed /\ Held /\ Quiet

-----------------------------------------------------------------------------
(***************************************************************************)
(* Jobs.                                                                   *)
(***************************************************************************)

LEMMA WithType ==
  ASSUME NEW j \in Job, NEW s \in Status
  PROVE  With(j, s) \in Job /\ With(j, s) = [j EXCEPT !.status = s]
  BY DEF With, Job

LEMMA WithFields ==
  ASSUME NEW j \in Job, NEW s \in Status
  PROVE  /\ With(j, s).status = s
         /\ With(j, s).tries = j.tries /\ With(j, s).payload = j.payload
         /\ With(j, s).actor = j.actor
  BY DEF With, Job

\* What each action writes is a job again.
LEMMA FieldTypes ==
  ASSUME NEW j \in Job
  PROVE  /\ \A n \in 0..Attempts :
              /\ [j EXCEPT !.tries = n] \in Job /\ [j EXCEPT !.tries = n].tries = n
              /\ [j EXCEPT !.tries = n].status = j.status
         /\ \A b \in Nat :
              /\ [j EXCEPT !.body = b] \in Job
              /\ [j EXCEPT !.body = b].status = j.status /\ [j EXCEPT !.body = b].tries = j.tries
         /\ \A a \in Accounts :
              /\ [j EXCEPT !.actor = a] \in Job /\ [j EXCEPT !.actor = a].actor = a
              /\ [j EXCEPT !.actor = a].status = j.status /\ [j EXCEPT !.actor = a].tries = j.tries
              /\ [j EXCEPT !.actor = a].payload = j.payload
         /\ \A s \in SUBSET Findings :
              /\ [j EXCEPT !.payload = s] \in Job /\ [j EXCEPT !.payload = s].payload = s
              /\ [j EXCEPT !.payload = s].status = j.status /\ [j EXCEPT !.payload = s].tries = j.tries
         /\ \A f \in Findings :
              /\ Judged(j, f) \in Job
              /\ Judged(j, f).status = j.status
              /\ Judged(j, f).tries = j.tries
         /\ /\ [j EXCEPT !.wait = FALSE] \in Job
            /\ [j EXCEPT !.wait = FALSE].status = j.status /\ [j EXCEPT !.wait = FALSE].tries = j.tries
            /\ [j EXCEPT !.wait = FALSE].payload = j.payload /\ [j EXCEPT !.wait = FALSE].actor = j.actor
  BY DEF Job, Judged

LEMMA AttemptedType ==
  ASSUME NEW j \in Job, j.tries < Attempts
  PROVE  Attempted(j) \in Job /\ Attempted(j).tries > 0 /\ Attempted(j).status = "pending"
  <1> DEFINE j1 == [j EXCEPT !.tries = @ + 1]
             j2 == [j1 EXCEPT !.status = "pending"]
             j3 == [j2 EXCEPT !.payload = None]
             j4 == [j3 EXCEPT !.cand = {}]
  <1>0. j.tries + 1 \in 0..Attempts /\ j.tries + 1 > 0
    BY BoundAssumption DEF Job
  <1>1. j1 \in Job /\ j1.tries > 0
    BY <1>0, FieldTypes
  <1>2. j2 \in Job /\ j2.tries > 0 /\ j2.status = "pending"
    BY <1>1 DEF Job, Status
  <1>3. j3 \in Job /\ j3.tries > 0 /\ j3.status = "pending"
    BY <1>2 DEF Job
  <1>4. j4 \in Job /\ j4.tries > 0 /\ j4.status = "pending"
    BY <1>3 DEF Job
  <1>5. Attempted(j) = j4
    BY DEF Attempted
  <1> QED BY <1>4, <1>5

LEMMA ResetType ==
  ASSUME NEW j \in Job
  PROVE  Reset(j) \in Job /\ Reset(j).status = "pending"
  <1> DEFINE j1 == [j EXCEPT !.status = "pending"]
             j2 == [j1 EXCEPT !.tries = 0]
             j3 == [j2 EXCEPT !.wait = FALSE]
  <1>1. j1 \in Job /\ j1.status = "pending"
    BY DEF Job, Status
  <1>2. j2 \in Job /\ j2.status = "pending"
    <2>1. 0 \in 0..Attempts
      BY BoundAssumption
    <2> QED BY <1>1, <2>1, FieldTypes
  <1>3. j3 \in Job /\ j3.status = "pending"
    BY <1>2 DEF Job
  <1>4. Reset(j) = j3
    BY DEF Reset
  <1> QED BY <1>3, <1>4

LEMMA DelayedType ==
  ASSUME NEW j \in Job
  PROVE  Delayed(j) \in Job /\ Delayed(j).status = "failed" /\ Delayed(j).tries = j.tries
  BY DEF Delayed, Job, Status

LEMMA NoJobType == NoJob \in Job /\ NoJob.tries = 0 /\ NoJob.status = "none"
  BY BoundAssumption DEF NoJob, Job, Status

LEMMA FailedType ==
  ASSUME NEW j \in Job, j.tries > 0
  PROVE  /\ Failed(j) \in Job
         /\ Failed(j).status \in {"stale", "failed", "posting"}
  <1>1. CASE pc = "stale"
    BY <1>1, WithType, WithFields DEF Failed, Status
  <1>2. CASE pc = "setup"
    <2> DEFINE d == Delayed(j)
    <2>1. d \in Job /\ d.status = "failed" /\ d.tries - 1 \in 0..Attempts
      BY DelayedType, BoundAssumption DEF Job
    <2>2. [d EXCEPT !.tries = d.tries - 1] \in Job /\ [d EXCEPT !.tries = d.tries - 1].status = "failed"
      BY <2>1, FieldTypes
    <2> QED BY <1>2, <2>2 DEF Failed
  <1>3. CASE pc = "error" /\ j.status = "posting"
    BY <1>3 DEF Failed
  <1>4. CASE pc \notin {"stale", "setup"} /\ ~(pc = "error" /\ j.status = "posting")
    BY <1>4, DelayedType DEF Failed
  <1> QED BY <1>1, <1>2, <1>3, <1>4

-----------------------------------------------------------------------------
(***************************************************************************)
(* Type correctness.                                                       *)
(***************************************************************************)

LEMMA TypeInit == Init => TypeOK
  <1> SUFFICES ASSUME Init PROVE TypeOK
    OBVIOUS
  <1>1. pr \in [PRs -> PullRequest]
    BY DEF Init, PullRequest
  <1>2. NoJob \in Job
    BY NoJobType
  <1>3. jobs \in [JobId -> Job] /\ disk \in [JobId -> Job]
    BY <1>2 DEF Init
  <1>4. GitHubTypes /\ StoreTypes
    BY <1>1, <1>3 DEF Init, GitHubTypes, StoreTypes
  <1>5. LoopTypes /\ WorkTypes
    BY DEF Init, LoopTypes, Locations, WorkTypes
  <1>6. BudgetTypes
    <2>1. edits = MaxEdits /\ faults = MaxFaults /\ missed = FALSE
      BY DEF Init
    <2>2. MaxEdits \in 0..MaxEdits /\ MaxFaults \in 0..MaxFaults
      BY BoundAssumption
    <2> QED BY <2>1, <2>2, Zenon DEF BudgetTypes
  <1> QED BY <1>4, <1>5, <1>6 DEF TypeOK

LEMMA LocatedInit == Init => Located
  BY DEF Init, Located, Placed, Held, Quiet, QuietIn, Published, NoJob, Reviewing

LEMMA SaveTypes ==
  ASSUME StoreTypes, NEW j \in [JobId -> Job], Saves(j) \/ SaveFails(j)
  PROVE  StoreTypes'
  BY DEF StoreTypes, Saves, SaveFails

\* The budgets only shrink.
LEMMA BudgetStep == TypeOK /\ [Next]_vars => BudgetTypes'
  <1> SUFFICES ASSUME TypeOK, [Next]_vars PROVE BudgetTypes'
    OBVIOUS
  <1>1. UNCHANGED edits \/ Edit
    BY DEF vars, Next, Daemon, Start, Poll, ToReconcile, ListPulls, EndScan, EndQueue, Reconcile,
       LookupFails, Recover, BeginAttempt, Scan, ReadDiscussion, Snapshot, Investigate,
       Compose, Verify, Recheck, Rediscuss, LastPull, Create, Answer, GiveUp, ReviewFails,
       SetupFails, HandleError, Exit, Halt, Operator, GitHub, RetryElapses, Crash, LoseState,
       Retry, Accept, Reject, Drop, People, Toggle, Describe, Comment, Push
  <1>2. UNCHANGED faults \/ Fault
    BY DEF vars, Next, Daemon, Start, Poll, ToReconcile, ListPulls, EndScan, EndQueue, Reconcile,
       LookupFails, Recover, BeginAttempt, Scan, ReadDiscussion, Snapshot, Investigate,
       Compose, Verify, Recheck, Rediscuss, LastPull, Create, Answer, GiveUp, ReviewFails,
       SetupFails, HandleError, Exit, Halt, Operator, GitHub, RetryElapses, Crash, LoseState,
       Retry, Accept, Reject, Drop, People, Toggle, Describe, Comment, Push,
       Saves, SaveFails, NoFault
  <1>3. missed' \in {missed, TRUE, FALSE}
    BY DEF vars, Next, Daemon, Start, Poll, ToReconcile, ListPulls, EndScan, EndQueue, Reconcile,
       LookupFails, Recover, BeginAttempt, Scan, ReadDiscussion, Snapshot, Investigate,
       Compose, Verify, Recheck, Rediscuss, LastPull, Create, Answer, GiveUp, ReviewFails,
       SetupFails, HandleError, Exit, Halt, Operator, GitHub, RetryElapses, Crash, LoseState,
       Retry, Accept, Reject, Drop, People, Toggle, Describe, Comment, Push, AtWorkOn,
       TypeOK, BudgetTypes
  <1>4. edits' \in 0..MaxEdits
    BY <1>1, BoundAssumption DEF Edit, TypeOK, BudgetTypes
  <1>5. faults' \in 0..MaxFaults
    BY <1>2, BoundAssumption DEF Fault, TypeOK, BudgetTypes
  <1> QED BY <1>3, <1>4, <1>5 DEF TypeOK, BudgetTypes

LEMMA PullRequestEdits ==
  ASSUME NEW p \in PullRequest
  PROVE  /\ Discussed(p) \in PullRequest
         /\ Described(p) \in PullRequest
         /\ Toggled(p) \in PullRequest
         /\ \A r \in Rev : [p EXCEPT !.rev = r] \in PullRequest
  <1>1. p.disc + 1 \in Nat /\ p.body + 1 \in Nat
    BY DEF PullRequest
  <1>2. \A n \in Nat : [p EXCEPT !.disc = n] \in PullRequest /\ [p EXCEPT !.body = n] \in PullRequest
    BY DEF PullRequest
  <1>3. Toggled(p) \in PullRequest
    BY DEF PullRequest, Toggled
  <1>4. \A r \in Rev : [p EXCEPT !.rev = r] \in PullRequest
    BY DEF PullRequest
  <1> QED BY <1>1, <1>2, <1>3, <1>4 DEF Discussed, Described

\* A request carries what the job of the attempt holds.
LEMMA RequestType ==
  ASSUME TypeOK, Located, pc = "create"
  PROVE  [by |-> account, found |-> jobs[cur].payload] \in Review
  BY DEF TypeOK, Located, Placed, Held, Review, Reviewing

LEMMA GitHubTypesStep == TypeOK /\ Located /\ [Next]_vars => GitHubTypes'
  <1> SUFFICES ASSUME TypeOK, Located, [Next]_vars PROVE GitHubTypes'
    OBVIOUS
  <1> USE DEF TypeOK, GitHubTypes
  <1>1. CASE UNCHANGED github
    BY <1>1 DEF github
  <1>2. CASE Create
    <2>1. cur \in JobId
      BY <1>2 DEF Create, Located, Placed, Held, Reviewing
    <2>2. Append(wire[cur], [by |-> account, found |-> jobs[cur].payload]) \in Seq(Review)
      BY <1>2, <2>1, RequestType DEF Create
    <2>3. wire' \in [JobId -> Seq(Review)]
      BY <1>2, <2>1, <2>2 DEF Create
    <2> QED BY <1>2, <2>3 DEF Create
  <1>3. CASE GitHub
    <2> SUFFICES ASSUME NEW k \in JobId, Accept(k) \/ Reject(k) \/ Drop(k) PROVE GitHubTypes'
      BY <1>3 DEF GitHub
    <2>1. /\ k.pr \in PRs /\ wire[k] \in Seq(Review) /\ posted[k] \in Seq(Review)
          /\ wire[k] # <<>>
      BY DEF JobId, Accept, Reject, Drop
    <2>2. Tail(wire[k]) \in Seq(Review) /\ Append(posted[k], Head(wire[k])) \in Seq(Review)
      BY <2>1
    <2>3. Discussed(pr[k.pr]) \in PullRequest
      BY <2>1, PullRequestEdits
    <2>4. pr' \in [PRs -> PullRequest]
      BY <2>1, <2>3 DEF Accept, Reject, Drop
    <2>5. posted' \in [JobId -> Seq(Review)]
      BY <2>2 DEF Accept, Reject, Drop
    <2>6. wire' \in [JobId -> Seq(Review)]
      BY <2>2 DEF Accept, Reject, Drop
    <2> QED BY <2>4, <2>5, <2>6
  <1>4. CASE People
    <2> SUFFICES ASSUME NEW p \in PRs,
                        Toggle(p) \/ Describe(p) \/ Comment(p) \/ \E r \in Rev : Push(p, r)
                 PROVE  GitHubTypes'
      BY <1>4 DEF People
    <2>2. \E q \in PullRequest : pr' = [pr EXCEPT ![p] = q]
      BY PullRequestEdits DEF Toggle, Describe, Comment, Push
    <2>3. pr' \in [PRs -> PullRequest]
      BY <2>2
    <2> QED BY <2>3 DEF Toggle, Describe, Comment, Push
  <1>5. Next => UNCHANGED github \/ Create \/ GitHub \/ People
    BY DEF Next, Daemon, Start, Poll, ToReconcile, ListPulls, EndScan, EndQueue, Reconcile,
       LookupFails, Recover, BeginAttempt, Scan, ReadDiscussion, Snapshot, Investigate,
       Compose, Verify, Recheck, Rediscuss, LastPull, Answer, GiveUp, ReviewFails,
       SetupFails, HandleError, Exit, Halt, Operator, Crash, LoseState, Retry, RetryElapses
  <1> QED BY <1>1, <1>2, <1>3, <1>4, <1>5 DEF vars

\* The job of the attempt under way.
LEMMA CurType ==
  ASSUME TypeOK, Located, pc \in Reviewing
  PROVE  /\ cur \in JobId /\ cur.pr \in PRs
         /\ jobs[cur] \in Job /\ jobs[cur].tries > 0
         /\ pr[cur.pr] \in PullRequest /\ pr[cur.pr].disc \in Nat
  BY DEF TypeOK, GitHubTypes, StoreTypes, Located, Placed, Held, JobId, PullRequest

\* The job a scan looks for.
LEMMA ScanType ==
  ASSUME TypeOK, NEW p \in PRs
  PROVE  /\ [pr |-> p, rev |-> pr[p].rev, dry |-> dry] \in JobId
         /\ pr[p].body \in Nat
  BY DEF TypeOK, GitHubTypes, LoopTypes, JobId, PullRequest

LEMMA OpenedType ==
  ASSUME TypeOK, NEW k \in JobId
  PROVE  /\ Opened(k) \in Job
         /\ Opened(k).status = "posting" <=> jobs[k].status = "posting"
         /\ Opened(k).status = "submitted" <=> jobs[k].status = "submitted"
         /\ jobs[k].tries < Attempts => Opened(k).tries < Attempts
         /\ jobs[k].status \in {"posting", "submitted"} => Opened(k) = jobs[k]
  <1> USE DEF Opened
  <1>1. jobs[k] \in Job /\ pr[k.pr].body \in Nat /\ 0 \in 0..Attempts
    <2>1. jobs[k] \in Job
      BY DEF TypeOK, StoreTypes
    <2>2. pr[k.pr].body \in Nat
      BY DEF TypeOK, GitHubTypes, JobId, PullRequest
    <2> QED BY <2>1, <2>2, BoundAssumption
  <1>2. CASE jobs[k].status = "none"
    <2>1. NoJob \in Job /\ NoJob.tries = 0
      BY NoJobType
    <2>2. /\ With(NoJob, "pending") \in Job
          /\ With(NoJob, "pending").status = "pending" /\ With(NoJob, "pending").tries = 0
      BY <2>1, WithType, WithFields DEF Status
    <2>3. LET j == [With(NoJob, "pending") EXCEPT !.body = pr[k.pr].body]
          IN  j \in Job /\ j.status = "pending" /\ j.tries = 0
      BY <1>1, <2>2, FieldTypes
    <2>4. jobs[k].tries < Attempts => 0 < Attempts
      BY <1>1, BoundAssumption DEF Job
    <2> QED BY <1>2, <2>3, <2>4
  <1>3. CASE jobs[k].status = "stale"
    <2>1. With(jobs[k], "pending") \in Job /\ With(jobs[k], "pending").status = "pending"
      BY <1>1, WithType, WithFields DEF Status
    <2>2. [With(jobs[k], "pending") EXCEPT !.tries = 0] \in Job
      BY <1>1, <2>1, FieldTypes
    <2>3. /\ [With(jobs[k], "pending") EXCEPT !.tries = 0].tries = 0
          /\ [With(jobs[k], "pending") EXCEPT !.tries = 0].status = "pending"
      BY <1>1, <2>1, FieldTypes
    <2>4. jobs[k].tries < Attempts => 0 < Attempts
      BY <1>1, BoundAssumption DEF Job
    <2> QED BY <1>3, <2>2, <2>3, <2>4
  <1>4. CASE jobs[k].status \notin {"none", "stale"}
    BY <1>1, <1>4
  <1> QED BY <1>2, <1>3, <1>4

LEMMA SupersededType ==
  ASSUME TypeOK, NEW p, NEW rev
  PROVE  /\ Superseded(p, rev) \in [JobId -> Job]
         /\ \A k \in JobId :
              /\ Superseded(p, rev)[k].tries = jobs[k].tries
              /\ \/ Superseded(p, rev)[k] = jobs[k]
                 \/ /\ jobs[k].status \in {"pending", "failed"}
                    /\ Superseded(p, rev)[k].status = "stale"
  BY WithType, WithFields DEF Superseded, TypeOK, StoreTypes, Status

LEMMA StoreTypesStep == TypeOK /\ Located /\ [Next]_vars => StoreTypes'
  <1> SUFFICES ASSUME TypeOK, Located, [Next]_vars PROVE StoreTypes'
    OBVIOUS
  <1>0. jobs \in [JobId -> Job] /\ disk \in [JobId -> Job]
    BY DEF TypeOK, StoreTypes
  <1>1. CASE UNCHANGED store
    BY <1>1, <1>0 DEF store, StoreTypes
  <1>2. ASSUME NEW k \in JobId, Reconcile(k) PROVE StoreTypes'
    <2>1. [jobs EXCEPT ![k] = With(@, "submitted")] \in [JobId -> Job]
      BY <1>0, WithType DEF Status
    <2> QED BY <1>0, <1>1, <1>2, <2>1, SaveTypes DEF Reconcile, StoreTypes
  <1>3. ASSUME NEW p \in PRs, Scan(p) PROVE StoreTypes'
    <2> DEFINE k == [pr |-> p, rev |-> pr[p].rev, dry |-> dry]
    <2>1. k \in JobId /\ pr[p].body \in Nat
      BY ScanType
    <2>2. Opened(k) \in Job /\ [Opened(k) EXCEPT !.body = pr[p].body] \in Job
      BY <2>1, OpenedType, FieldTypes
    <2>3. Superseded(p, k.rev) \in [JobId -> Job]
      BY SupersededType
    <2> HIDE DEF k
    <2>4. jobs' \in [JobId -> Job]
      BY <1>0, <1>3, <2>1, <2>2, <2>3 DEF Scan, k
    <2> QED BY <1>0, <1>3, <2>4 DEF Scan, StoreTypes
  <1>4. CASE EndScan
    BY <1>0, <1>4, SaveTypes DEF EndScan, TypeOK
  <1>5. ASSUME NEW k \in JobId, Recover(k) PROVE StoreTypes'
    <2> PICK i \in Mine(k) :
          LET adopted == Adopted(jobs[k], posted[k][i].found)
              matched == [jobs EXCEPT ![k] = With(adopted, "submitted")]
          IN  Saves(matched) \/ SaveFails(matched)
                \/ (jobs' = [jobs EXCEPT ![k] = adopted] /\ UNCHANGED disk)
      BY <1>5 DEF Recover
    <2>1. posted[k][i].found \in SUBSET Findings
      <3>1. posted[k] \in Seq(Review) /\ i \in DOMAIN posted[k]
        BY DEF Mine, TypeOK, GitHubTypes
      <3>2. posted[k][i] \in Review
        BY <3>1
      <3> QED BY <3>2 DEF Review
    <2>2. account \in Accounts
      BY <1>5 DEF Recover, Take, Located, Placed, Held
    <2> DEFINE a == Adopted(jobs[k], posted[k][i].found)
    <2>3. a \in Job
      BY <1>0, <2>1, <2>2, FieldTypes DEF Adopted
    <2> HIDE DEF a
    <2>4. With(a, "submitted") \in Job
      BY <2>3, WithType DEF Status
    <2>5. /\ [jobs EXCEPT ![k] = a] \in [JobId -> Job]
          /\ [jobs EXCEPT ![k] = With(a, "submitted")] \in [JobId -> Job]
      BY <1>0, <2>3, <2>4
    <2> QED BY <1>0, <2>5, SaveTypes DEF StoreTypes, a, TypeOK
  <1>6. ASSUME NEW k \in JobId, BeginAttempt(k) PROVE StoreTypes'
    <2>1. Attempted(jobs[k]) \in Job
      BY <1>0, <1>6, AttemptedType DEF BeginAttempt, Take, Located, Placed, Held
    <2>2. [jobs EXCEPT ![k] = Attempted(@)] \in [JobId -> Job]
      BY <1>0, <2>1
    <2> QED BY <1>0, <1>6, <2>2, SaveTypes DEF BeginAttempt, StoreTypes, TypeOK
  <1>7. ASSUME NEW f \in Findings, Verify(f) PROVE StoreTypes'
    <2>1. cur \in JobId /\ Judged(jobs[cur], f) \in Job
      BY <1>7, CurType, FieldTypes DEF Verify, Reviewing
    <2>2. [jobs EXCEPT ![cur] = Judged(@, f)] \in [JobId -> Job]
      BY <1>0, <2>1
    <2> QED BY <1>0, <1>7, <2>2, SaveTypes DEF Verify, TypeOK
  <1>8. CASE Compose
    <2>1. cur \in JobId /\ [jobs[cur] EXCEPT !.payload = confirmed] \in Job
      BY <1>8, CurType, FieldTypes DEF Compose, Reviewing, TypeOK, WorkTypes
    <2> QED BY <1>0, <1>8, <2>1 DEF Compose, StoreTypes
  <1>9. CASE Rediscuss
    <2>1. cur \in JobId /\ With(jobs[cur], "dry_run") \in Job
      BY <1>9, CurType, WithType DEF Rediscuss, Reviewing, Status
    <2>2. [jobs EXCEPT ![cur] = With(@, "dry_run")] \in [JobId -> Job]
      BY <1>0, <2>1
    <2> QED BY <1>0, <1>1, <1>9, <2>2, SaveTypes DEF Rediscuss, TypeOK
  <1>10. CASE LastPull
    <2>1. cur \in JobId /\ account \in Accounts
      BY <1>10, CurType DEF LastPull, Reviewing, Located, Placed, Held
    <2>2. With(jobs[cur], "posting") \in Job
      BY <1>10, CurType, WithType DEF LastPull, Reviewing, Status
    <2>3. [With(jobs[cur], "posting") EXCEPT !.actor = account] \in Job
      BY <2>1, <2>2, FieldTypes
    <2>4. [jobs EXCEPT ![cur] = [With(@, "posting") EXCEPT !.actor = account]] \in [JobId -> Job]
      BY <1>0, <2>1, <2>3
    <2> QED BY <1>0, <1>1, <1>10, <2>4, SaveTypes DEF LastPull, TypeOK
  <1>11. CASE Create
    <2>1. cur \in JobId /\ With(jobs[cur], "failed") \in Job
      BY <1>11, CurType, WithType DEF Create, Reviewing, Status
    <2> QED BY <1>0, <1>11, <2>1 DEF Create, StoreTypes
  <1>12. CASE Answer
    <2>1. /\ cur \in JobId
          /\ With(jobs[cur], "failed") \in Job /\ With(jobs[cur], "submitted") \in Job
      BY <1>12, CurType, WithType DEF Answer, Reviewing, Status
    <2>2. \A s \in {"failed", "submitted"} : [jobs EXCEPT ![cur] = With(@, s)] \in [JobId -> Job]
      BY <1>0, <2>1
    <2> QED BY <1>0, <1>12, <2>2, SaveTypes DEF Answer, StoreTypes, TypeOK
  <1>13. CASE HandleError
    <2>1. cur \in JobId /\ Failed(jobs[cur]) \in Job
      BY <1>13, CurType, FailedType DEF HandleError, Reviewing
    <2>2. [jobs EXCEPT ![cur] = Failed(jobs[cur])] \in [JobId -> Job]
      BY <1>0, <2>1
    <2> QED BY <1>0, <1>13, <2>2, SaveTypes DEF HandleError, TypeOK
  <1>14. CASE Exit \/ Crash
    BY <1>0, <1>14 DEF Exit, Crash, Halt, StoreTypes
  <1>15. ASSUME NEW k \in JobId, RetryElapses(k) PROVE StoreTypes'
    BY <1>0, <1>15, FieldTypes DEF RetryElapses, StoreTypes
  <1>16. ASSUME NEW scope, NEW d, Retry(scope, d) PROVE StoreTypes'
    <2>1. \A k \in JobId : Reset(disk[k]) \in Job
      BY <1>0, ResetType
    <2>2. jobs' = disk' /\ disk' \in [JobId -> Job]
      BY <1>0, <1>16, <2>1 DEF Retry, Saves
    <2> QED BY <2>2 DEF StoreTypes
  <1>17. CASE LoseState
    <2>1. NoJob \in Job
      BY NoJobType
    <2> QED BY <1>17, <2>1 DEF LoseState, StoreTypes
  <1>18. Next =>
           \/ UNCHANGED store \/ EndScan \/ Compose \/ Rediscuss \/ LastPull \/ Create \/ Answer
           \/ HandleError \/ Exit \/ Crash \/ LoseState
           \/ \E k \in JobId : Reconcile(k) \/ Recover(k) \/ BeginAttempt(k) \/ RetryElapses(k)
           \/ \E p \in PRs : Scan(p)
           \/ \E f \in Findings : Verify(f)
           \/ \E scope \in {PRs} \cup {{p} : p \in PRs}, d \in Modes : Retry(scope, d)
    BY DEF Next, Daemon, Start, Poll, ToReconcile, ListPulls, EndQueue, LookupFails,
       ReadDiscussion, Snapshot, Investigate, Recheck, GiveUp, ReviewFails, SetupFails,
       Operator, GitHub, Accept, Reject, Drop, People, Toggle, Describe, Comment, Push
  <1> QED BY <1>1, <1>2, <1>3, <1>4, <1>5, <1>6, <1>7, <1>8, <1>9, <1>10, <1>11, <1>12, <1>13,
             <1>14, <1>15, <1>16, <1>17, <1>18 DEF vars, store

LEMMA LoopTypesStep == TypeOK /\ [Next]_vars => LoopTypes'
  <1> SUFFICES ASSUME TypeOK, [Next]_vars PROVE LoopTypes'
    OBVIOUS
  <1> USE DEF TypeOK, LoopTypes, Locations, loop
  <1>1. CASE \E d \in Modes, a \in Accounts : Start(d, a)
    BY <1>1, SwitchAssumption DEF Start, ToReconcile
  <1>2. CASE Poll
    BY <1>2 DEF Poll, ToReconcile
  <1>3. CASE ListPulls
    BY <1>3 DEF ListPulls
  <1>4. CASE EndScan
    BY <1>4 DEF EndScan
  <1>5. CASE EndQueue
    BY <1>5 DEF EndQueue
  <1>6. CASE ReadDiscussion
    BY <1>6 DEF ReadDiscussion
  <1>7. CASE Snapshot
    BY <1>7 DEF Snapshot
  <1>8. CASE Investigate
    BY <1>8 DEF Investigate
  <1>9. CASE Compose
    BY <1>9 DEF Compose
  <1>10. CASE Recheck
    BY <1>10 DEF Recheck
  <1>11. CASE Rediscuss
    BY <1>11 DEF Rediscuss, Leave
  <1>12. CASE LastPull
    BY <1>12 DEF LastPull
  <1>13. CASE Create
    BY <1>13 DEF Create
  <1>14. CASE Answer
    BY <1>14 DEF Answer, Leave
  <1>15. CASE GiveUp
    BY <1>15 DEF GiveUp
  <1>16. CASE ReviewFails
    BY <1>16 DEF ReviewFails
  <1>17. CASE SetupFails
    BY <1>17 DEF SetupFails
  <1>18. CASE HandleError
    BY <1>18 DEF HandleError, Leave
  <1>19. CASE Exit
    BY <1>19 DEF Exit, Halt, Leave
  <1>20. CASE Crash
    BY <1>20 DEF Crash, Halt, Leave
  <1>21. CASE LoseState
    BY <1>21 DEF LoseState
  <1>22. CASE \E k \in JobId : Reconcile(k)
    BY <1>22 DEF Reconcile
  <1>23. CASE \E k \in JobId : LookupFails(k)
    BY <1>23 DEF LookupFails, Take
  <1>24. CASE \E k \in JobId : Recover(k)
    BY <1>24 DEF Recover, Take
  <1>25. CASE \E k \in JobId : BeginAttempt(k)
    BY <1>25 DEF BeginAttempt, Take
  <1>26. CASE \E p \in PRs : Scan(p)
    BY <1>26, ScanType DEF Scan
  <1>27. CASE \E f \in Findings : Verify(f)
    BY <1>27 DEF Verify
  <1>28. CASE \E scope \in {PRs} \cup {{p} : p \in PRs}, d \in Modes : Retry(scope, d)
    BY <1>28 DEF Retry
  <1>29. CASE GitHub
    BY <1>29 DEF GitHub, Accept, Reject, Drop, Answers
  <1>30. CASE People
    BY <1>30 DEF People, Toggle, Describe, Comment, Push
  <1>31. CASE \E k \in JobId : RetryElapses(k)
    BY <1>31 DEF RetryElapses
  <1>32. CASE UNCHANGED vars
    BY <1>32 DEF vars
  <1> QED BY <1>1, <1>2, <1>3, <1>4, <1>5, <1>6, <1>7, <1>8, <1>9, <1>10, <1>11, <1>12, <1>13, <1>14, <1>15, <1>16, <1>17, <1>18, <1>19, <1>20, <1>21, <1>22, <1>23, <1>24, <1>25, <1>26, <1>27, <1>28, <1>29, <1>30, <1>31, <1>32 DEF Next, Daemon, Operator

LEMMA WorkTypesStep == TypeOK /\ Located /\ [Next]_vars => WorkTypes'
  <1> SUFFICES ASSUME TypeOK, Located, [Next]_vars PROVE WorkTypes'
    OBVIOUS
  <1> USE DEF TypeOK, WorkTypes, work
  <1>1. CASE \E d \in Modes, a \in Accounts : Start(d, a)
    BY <1>1 DEF Start, ToReconcile
  <1>2. CASE Poll
    BY <1>2 DEF Poll, ToReconcile
  <1>3. CASE ListPulls
    BY <1>3 DEF ListPulls
  <1>4. CASE EndScan
    BY <1>4 DEF EndScan
  <1>5. CASE EndQueue
    BY <1>5 DEF EndQueue
  <1>6. CASE ReadDiscussion
    BY <1>6, CurType DEF ReadDiscussion, PR, Reviewing
  <1>7. CASE Snapshot
    BY <1>7 DEF Snapshot
  <1>8. CASE Investigate
    BY <1>8 DEF Investigate
  <1>9. CASE Compose
    BY <1>9 DEF Compose
  <1>10. CASE Recheck
    BY <1>10 DEF Recheck
  <1>11. CASE Rediscuss
    BY <1>11 DEF Rediscuss, Leave
  <1>12. CASE LastPull
    BY <1>12 DEF LastPull
  <1>13. CASE Create
    BY <1>13 DEF Create
  <1>14. CASE Answer
    BY <1>14 DEF Answer, Leave
  <1>15. CASE GiveUp
    BY <1>15 DEF GiveUp
  <1>16. CASE ReviewFails
    BY <1>16 DEF ReviewFails
  <1>17. CASE SetupFails
    BY <1>17 DEF SetupFails
  <1>18. CASE HandleError
    BY <1>18 DEF HandleError, Leave
  <1>19. CASE Exit
    BY <1>19 DEF Exit, Halt, Leave
  <1>20. CASE Crash
    BY <1>20 DEF Crash, Halt, Leave
  <1>21. CASE LoseState
    BY <1>21 DEF LoseState
  <1>22. CASE \E k \in JobId : Reconcile(k)
    BY <1>22 DEF Reconcile
  <1>23. CASE \E k \in JobId : LookupFails(k)
    BY <1>23 DEF LookupFails, Take
  <1>24. CASE \E k \in JobId : Recover(k)
    BY <1>24 DEF Recover, Take
  <1>25. CASE \E k \in JobId : BeginAttempt(k)
    BY <1>25 DEF BeginAttempt, Take
  <1>26. CASE \E p \in PRs : Scan(p)
    BY <1>26 DEF Scan
  <1>27. CASE \E f \in Findings : Verify(f)
    BY <1>27 DEF Verify
  <1>28. CASE \E scope \in {PRs} \cup {{p} : p \in PRs}, d \in Modes : Retry(scope, d)
    BY <1>28 DEF Retry
  <1>29. CASE GitHub
    BY <1>29 DEF GitHub, Accept, Reject, Drop, Answers
  <1>30. CASE People
    BY <1>30 DEF People, Toggle, Describe, Comment, Push
  <1>31. CASE \E k \in JobId : RetryElapses(k)
    BY <1>31 DEF RetryElapses
  <1>32. CASE UNCHANGED vars
    BY <1>32 DEF vars
  <1> QED BY <1>1, <1>2, <1>3, <1>4, <1>5, <1>6, <1>7, <1>8, <1>9, <1>10, <1>11, <1>12, <1>13, <1>14, <1>15, <1>16, <1>17, <1>18, <1>19, <1>20, <1>21, <1>22, <1>23, <1>24, <1>25, <1>26, <1>27, <1>28, <1>29, <1>30, <1>31, <1>32 DEF Next, Daemon, Operator

-----------------------------------------------------------------------------
(***************************************************************************)
(* Where the process is.                                                   *)
(***************************************************************************)

LEMMA PlacedStep ==
  TypeOK /\ Placed /\ [Next]_vars => Placed'
  <1> SUFFICES ASSUME TypeOK, Placed, [Next]_vars PROVE Placed'
    OBVIOUS
  <1> USE DEF TypeOK, LoopTypes, WorkTypes, Placed, Reviewing, loop, work
  <1>1. CASE \E d \in Modes, a \in Accounts : Start(d, a)
    BY <1>1, SwitchAssumption DEF Start, ToReconcile
  <1>2. CASE Poll
    BY <1>2 DEF Poll, ToReconcile
  <1>3. CASE ListPulls
    BY <1>3 DEF ListPulls
  <1>4. CASE EndScan
    BY <1>4 DEF EndScan
  <1>5. CASE EndQueue
    BY <1>5 DEF EndQueue
  <1>6. CASE ReadDiscussion
    BY <1>6 DEF ReadDiscussion
  <1>7. CASE Snapshot
    BY <1>7 DEF Snapshot
  <1>8. CASE Investigate
    BY <1>8 DEF Investigate
  <1>9. CASE Compose
    BY <1>9 DEF Compose
  <1>10. CASE Recheck
    BY <1>10 DEF Recheck
  <1>11. CASE Rediscuss
    BY <1>11 DEF Rediscuss, Leave
  <1>12. CASE LastPull
    BY <1>12 DEF LastPull
  <1>13. CASE Create
    BY <1>13 DEF Create
  <1>14. CASE Answer
    BY <1>14 DEF Answer, Leave
  <1>15. CASE GiveUp
    BY <1>15 DEF GiveUp
  <1>16. CASE ReviewFails
    BY <1>16 DEF ReviewFails
  <1>17. CASE SetupFails
    BY <1>17 DEF SetupFails
  <1>18. CASE HandleError
    BY <1>18 DEF HandleError, Leave
  <1>19. CASE Exit
    BY <1>19 DEF Exit, Halt, Leave
  <1>20. CASE Crash
    BY <1>20 DEF Crash, Halt, Leave
  <1>21. CASE LoseState
    BY <1>21 DEF LoseState
  <1>22. CASE \E k \in JobId : Reconcile(k)
    BY <1>22 DEF Reconcile
  <1>23. CASE \E k \in JobId : LookupFails(k)
    BY <1>23 DEF LookupFails, Take
  <1>24. CASE \E k \in JobId : Recover(k)
    BY <1>24 DEF Recover, Take
  <1>25. CASE \E k \in JobId : BeginAttempt(k)
    BY <1>25 DEF BeginAttempt, Take
  <1>26. CASE \E p \in PRs : Scan(p)
    BY <1>26 DEF Scan
  <1>27. CASE \E f \in Findings : Verify(f)
    BY <1>27 DEF Verify
  <1>28. CASE \E scope \in {PRs} \cup {{p} : p \in PRs}, d \in Modes : Retry(scope, d)
    BY <1>28 DEF Retry
  <1>29. CASE GitHub
    BY <1>29 DEF GitHub, Accept, Reject, Drop, Answers
  <1>30. CASE People
    BY <1>30 DEF People, Toggle, Describe, Comment, Push
  <1>31. CASE \E k \in JobId : RetryElapses(k)
    BY <1>31 DEF RetryElapses
  <1>32. CASE UNCHANGED vars
    BY <1>32 DEF vars
  <1> QED BY <1>1, <1>2, <1>3, <1>4, <1>5, <1>6, <1>7, <1>8, <1>9, <1>10, <1>11, <1>12, <1>13, <1>14, <1>15, <1>16, <1>17, <1>18, <1>19, <1>20, <1>21, <1>22, <1>23, <1>24, <1>25, <1>26, <1>27, <1>28, <1>29, <1>30, <1>31, <1>32 DEF Next, Daemon, Operator

-----------------------------------------------------------------------------
(***************************************************************************)
(* What a step writes into the jobs.                                       *)
(***************************************************************************)

LEMMA Written ==
  ASSUME NEW j, Saves(j) \/ SaveFails(j)
  PROVE  jobs' = j /\ (disk' = disk \/ disk' = j)
  BY DEF Saves, SaveFails

LEMMA Edited ==
  ASSUME jobs \in [JobId -> Job], NEW k \in JobId, NEW e
  PROVE  /\ [jobs EXCEPT ![k] = e][k] = e
         /\ \A m \in JobId : m # k => [jobs EXCEPT ![k] = e][m] = jobs[m]
  OBVIOUS

LEMMA QuietEdit ==
  ASSUME jobs \in [JobId -> Job], QuietIn(jobs), NEW k \in JobId, NEW e,
         k.dry => e.status \notin {"posting", "submitted"}
  PROVE  QuietIn([jobs EXCEPT ![k] = e])
  BY DEF QuietIn, Published

LEMMA FailedFields ==
  ASSUME NEW j \in Job, pc = "setup" => j.tries > 0
  PROVE  /\ Failed(j).status \in {j.status, "stale", "failed"}
         /\ Failed(j).status = j.status => Failed(j).status \in {"posting", "stale", "failed"}
  <1>1. Delayed(j).status = "failed" /\ Delayed(j) \in Job
    BY DelayedType
  <1>2. [Delayed(j) EXCEPT !.tries = @ - 1].status = "failed"
    BY <1>1 DEF Job
  <1>3. With(j, "stale").status = "stale"
    BY WithFields DEF Status
  <1> QED BY <1>1, <1>2, <1>3 DEF Failed

\* Two jobs that say the same of a publication.
Same(j, e) == j.status = e.status /\ j.payload = e.payload /\ j.actor = e.actor

\* GitHub knows nothing of k.
Nowhere(k) == posted[k] = <<>> /\ wire[k] = <<>>

\* At most one request and no review: what GitHub's answer makes of them.
LEMMA OneRequest ==
  ASSUME NEW s \in Seq(Review), NEW w \in Seq(Review), w # <<>>, Len(s) + Len(w) <= 1
  PROVE  /\ s = <<>> /\ Len(w) = 1 /\ Tail(w) = <<>>
         /\ Append(s, Head(w)) # <<>> /\ Len(Append(s, Head(w))) = 1
         /\ Len(s) = 0
  <1>1. Len(s) \in Nat /\ Len(w) \in Nat \ {0}
    BY EmptySeq, LenProperties
  <1>2. Len(w) = 1 /\ Len(s) = 0 /\ s = <<>>
    <2> DEFINE m == Len(s)
               n == Len(w)
    <2>1. m \in Nat /\ n \in Nat \ {0} /\ m + n <= 1
      BY <1>1
    <2> HIDE DEF m, n
    <2>2. n = 1 /\ m = 0
      BY <2>1
    <2>3. Len(w) = 1 /\ Len(s) = 0
      BY <2>2 DEF m, n
    <2> QED BY <2>3, EmptySeq
  <1>3. Head(w) \in Review /\ Tail(w) \in Seq(Review) /\ Len(Tail(w)) = 0
    BY <1>2, HeadTailProperties
  <1>4. Tail(w) = <<>>
    BY <1>3, EmptySeq
  <1>5. Len(Append(s, Head(w))) = 1
    BY <1>2, <1>3, AppendProperties
  <1>6. Append(s, Head(w)) # <<>>
    BY <1>5, EmptySeq
  <1> QED BY <1>2, <1>4, <1>5, <1>6

\* A dry run's jobs never become publications.
LEMMA QuietStep ==
  TypeOK /\ Located /\ [Next]_vars => Quiet'
  <1> SUFFICES ASSUME TypeOK, Located, [Next]_vars PROVE Quiet'
    OBVIOUS
  <1>0. jobs \in [JobId -> Job] /\ disk \in [JobId -> Job] /\ QuietIn(jobs) /\ QuietIn(disk)
    BY DEF TypeOK, StoreTypes, Located, Quiet
  <1>1. CASE UNCHANGED store
    BY <1>0, <1>1 DEF store, Quiet, QuietIn, Published
  <1>2. ASSUME NEW j, jobs' = j, QuietIn(j), disk' = disk \/ disk' = j PROVE Quiet'
    BY <1>0, <1>2 DEF Quiet, QuietIn, Published
  <1>3. ASSUME NEW k \in JobId, NEW e, k.dry => e.status \notin {"posting", "submitted"},
               jobs' = [jobs EXCEPT ![k] = e],
               disk' = disk \/ disk' = [jobs EXCEPT ![k] = e]
        PROVE  Quiet'
    BY <1>0, <1>3, <1>2, QuietEdit
  <1>4. pc \in Reviewing => cur \in JobId /\ jobs[cur] \in Job /\ cur.dry = dry
    BY CurType DEF Located, Placed
  <1>5. ASSUME NEW k \in JobId, Reconcile(k) PROVE Quiet'
    <2>1. jobs[k].status = "posting"
      BY <1>5 DEF Reconcile, Located, Held
    <2>2. ~k.dry
      BY <1>0, <2>1 DEF QuietIn, Published
    <2>3. UNCHANGED store \/ Saves([jobs EXCEPT ![k] = With(@, "submitted")])
                          \/ SaveFails([jobs EXCEPT ![k] = With(@, "submitted")])
      BY <1>5 DEF Reconcile
    <2> QED BY <1>1, <1>3, <2>2, <2>3, Written
  <1>6. ASSUME NEW p \in PRs, Scan(p) PROVE Quiet'
    <2> DEFINE k == [pr |-> p, rev |-> pr[p].rev, dry |-> dry]
    <2>1. k \in JobId /\ pr[p].body \in Nat
      BY ScanType
    <2>2. QuietIn(Superseded(p, k.rev))
      <3>1. \A m \in JobId : Superseded(p, k.rev)[m] = jobs[m] \/ Superseded(p, k.rev)[m].status = "stale"
        BY SupersededType
      <3> QED BY <3>1, <1>0 DEF QuietIn, Published
    <2>3. k.dry => Opened(k).status \notin {"posting", "submitted"}
      BY <1>0, <2>1, OpenedType DEF QuietIn, Published
    <2>4. [Opened(k) EXCEPT !.body = pr[p].body].status = Opened(k).status
      BY <2>1, OpenedType, FieldTypes
    <2>5. Superseded(p, k.rev) \in [JobId -> Job]
      BY SupersededType
    <2>6. \/ jobs' = jobs
          \/ jobs' = Superseded(p, k.rev)
          \/ jobs' = [Superseded(p, k.rev) EXCEPT ![k] = Opened(k)]
          \/ jobs' = [Superseded(p, k.rev) EXCEPT ![k] = [Opened(k) EXCEPT !.body = pr[p].body]]
      BY <1>6 DEF Scan
    <2> HIDE DEF k
    <2>7. QuietIn(jobs')
      BY <1>0, <2>1, <2>2, <2>3, <2>4, <2>5, <2>6 DEF QuietIn, Published
    <2>8. disk' = disk
      BY <1>6 DEF Scan
    <2> QED BY <1>2, <2>7, <2>8
  <1>7. CASE EndScan
    BY <1>0, <1>2, <1>7, Written DEF EndScan
  <1>8. ASSUME NEW k \in JobId, Recover(k) PROVE Quiet'
    <2>1. ~k.dry
      BY <1>8 DEF Recover, Take, Located, Placed
    <2>2. PICK e : /\ jobs' = [jobs EXCEPT ![k] = e]
                   /\ disk' = disk \/ disk' = [jobs EXCEPT ![k] = e]
      BY <1>8, Written DEF Recover
    <2> QED BY <1>3, <2>1, <2>2
  <1>9. ASSUME NEW k \in JobId, BeginAttempt(k) PROVE Quiet'
    <2>1. jobs[k].tries < Attempts
      BY <1>9 DEF BeginAttempt, Take, Located, Held
    <2>2. Attempted(jobs[k]).status = "pending"
      BY <1>0, <2>1, AttemptedType
    <2>3. /\ jobs' = [jobs EXCEPT ![k] = Attempted(@)]
          /\ disk' = disk \/ disk' = [jobs EXCEPT ![k] = Attempted(@)]
      BY <1>9, Written DEF BeginAttempt
    <2> QED BY <1>3, <2>2, <2>3
  <1>10. ASSUME NEW f \in Findings, Verify(f) PROVE Quiet'
    <2>1. /\ jobs' = [jobs EXCEPT ![cur] = Judged(@, f)]
          /\ disk' = disk \/ disk' = [jobs EXCEPT ![cur] = Judged(@, f)]
      BY <1>10, Written DEF Verify
    <2>2. cur \in JobId /\ Judged(jobs[cur], f).status = jobs[cur].status
      BY <1>4, <1>10, FieldTypes DEF Verify, Reviewing
    <2>3. cur.dry => jobs[cur].status \notin {"posting", "submitted"}
      BY <1>0, <2>2 DEF QuietIn, Published
    <2> QED BY <1>3, <2>1, <2>2, <2>3
  <1>11. CASE Compose
    <2>1. cur \in JobId /\ jobs[cur] \in Job /\ confirmed \in SUBSET Findings
      BY <1>4, <1>11 DEF Compose, Reviewing, TypeOK, WorkTypes
    <2>2. [jobs[cur] EXCEPT !.payload = confirmed].status = jobs[cur].status
      BY <2>1, FieldTypes
    <2>3. cur.dry => jobs[cur].status \notin {"posting", "submitted"}
      BY <1>0, <2>1 DEF QuietIn, Published
    <2>4. jobs' = [jobs EXCEPT ![cur] = [jobs[cur] EXCEPT !.payload = confirmed]] /\ disk' = disk
      BY <1>11 DEF Compose
    <2> QED BY <1>3, <2>1, <2>2, <2>3, <2>4
  <1>12. CASE Rediscuss
    <2>1. cur \in JobId /\ With(jobs[cur], "dry_run").status = "dry_run"
      BY <1>4, <1>12, WithFields DEF Rediscuss, Reviewing, Status
    <2>2. \/ UNCHANGED store
          \/ Saves([jobs EXCEPT ![cur] = With(@, "dry_run")])
          \/ SaveFails([jobs EXCEPT ![cur] = With(@, "dry_run")])
      BY <1>12 DEF Rediscuss
    <2> QED BY <1>1, <1>3, <2>1, <2>2, Written
  <1>13. CASE LastPull
    <2>1. cur \in JobId /\ ~cur.dry
      BY <1>4, <1>13 DEF LastPull, Reviewing, Located, Placed
    <2>2. \/ UNCHANGED store
          \/ /\ jobs' = [jobs EXCEPT ![cur] = [With(@, "posting") EXCEPT !.actor = account]]
             /\ \/ disk' = disk
                \/ disk' = [jobs EXCEPT ![cur] = [With(@, "posting") EXCEPT !.actor = account]]
      BY <1>13, Written DEF LastPull
    <2> QED BY <1>1, <1>3, <2>1, <2>2
  <1>14. CASE Create
    <2>1. cur \in JobId /\ With(jobs[cur], "failed").status = "failed"
      BY <1>4, <1>14, WithFields DEF Create, Reviewing, Status
    <2>2. disk' = disk /\ (jobs' = jobs \/ jobs' = [jobs EXCEPT ![cur] = With(@, "failed")])
      BY <1>14 DEF Create
    <2> QED BY <1>1, <1>3, <2>1, <2>2 DEF store
  <1>15. CASE Answer
    <2>1. cur \in JobId /\ ~cur.dry
      BY <1>4, <1>15 DEF Answer, Reviewing, Located, Placed
    <2>2. PICK e : /\ jobs' = [jobs EXCEPT ![cur] = e]
                   /\ disk' = disk \/ disk' = [jobs EXCEPT ![cur] = e]
      BY <1>15, Written DEF Answer
    <2> QED BY <1>3, <2>1, <2>2
  <1>16. CASE HandleError
    <2>1. cur \in JobId /\ jobs[cur] \in Job /\ (pc = "setup" => jobs[cur].tries > 0)
      BY <1>4, <1>16, CurType DEF HandleError, Reviewing
    <2>2. cur.dry => Failed(jobs[cur]).status \notin {"posting", "submitted"}
      BY <1>0, <2>1, FailedFields DEF QuietIn, Published
    <2>3. /\ jobs' = [jobs EXCEPT ![cur] = Failed(jobs[cur])]
          /\ disk' = disk \/ disk' = [jobs EXCEPT ![cur] = Failed(jobs[cur])]
      BY <1>16, Written DEF HandleError
    <2> QED BY <1>3, <2>1, <2>2, <2>3
  <1>17. CASE Exit \/ Crash
    BY <1>0, <1>17, <1>2 DEF Exit, Crash, Halt
  <1>18. ASSUME NEW scope, NEW d, Retry(scope, d) PROVE Quiet'
    <2>1. \A k \in JobId : Reset(disk[k]).status = "pending"
      BY <1>0, ResetType
    <2>2. disk' = jobs' /\ \A k \in JobId : disk'[k] \in {disk[k], Reset(disk[k])}
      BY <1>18 DEF Retry, Saves
    <2> QED BY <1>0, <2>1, <2>2 DEF Quiet, QuietIn, Published
  <1>19. CASE LoseState
    BY <1>19, NoJobType DEF LoseState, Quiet, QuietIn, Published, NoJob
  <1>20. ASSUME NEW k \in JobId, RetryElapses(k) PROVE Quiet'
    <2>1. /\ [jobs[k] EXCEPT !.wait = FALSE].status = jobs[k].status
          /\ [disk[k] EXCEPT !.wait = FALSE].status = disk[k].status
      BY <1>0, FieldTypes
    <2>2. /\ jobs' = [jobs EXCEPT ![k] = [jobs[k] EXCEPT !.wait = FALSE]]
          /\ disk' = [disk EXCEPT ![k] = [disk[k] EXCEPT !.wait = FALSE]]
      BY <1>20 DEF RetryElapses
    <2> QED BY <1>0, <2>1, <2>2 DEF Quiet, QuietIn, Published
  <1>21. ASSUME Next, ~UNCHANGED store PROVE
           \/ \E k \in JobId : Reconcile(k) \/ Recover(k) \/ BeginAttempt(k) \/ RetryElapses(k)
           \/ \E p \in PRs : Scan(p)
           \/ \E f \in Findings : Verify(f)
           \/ EndScan \/ Compose \/ Rediscuss \/ LastPull \/ Create \/ Answer
           \/ HandleError \/ Exit \/ Crash \/ LoseState
           \/ \E scope, d : Retry(scope, d)
    BY <1>21 DEF Next, Daemon, Operator, GitHub, Accept, Reject, Drop, People, Toggle, Describe,
       Comment, Push, Start, Poll, ToReconcile, ListPulls, EndQueue, LookupFails, ReadDiscussion,
       Snapshot, Investigate, Recheck, GiveUp, ReviewFails, SetupFails, store
  <1> QED BY <1>1, <1>5, <1>6, <1>7, <1>8, <1>9, <1>10, <1>11, <1>12, <1>13, <1>14, <1>15, <1>16,
             <1>17, <1>18, <1>19, <1>20, <1>21 DEF vars, store

-----------------------------------------------------------------------------
(***************************************************************************)
(* The jobs a step works on.                                               *)
(***************************************************************************)

\* Nothing is held where there is no queue and no attempt.
LEMMA HeldNowhere ==
  ASSUME pc' \notin Reviewing, queue' = {}, unsettled' = {}
  PROVE  Held'
  BY DEF Held, Reviewing

\* The attempt goes on, with a change to its job.
LEMMA HeldAttempt ==
  ASSUME TypeOK, Located, pc \in Reviewing, NEW e, e.tries > 0,
         jobs' = [jobs EXCEPT ![cur] = e], UNCHANGED cur,
         queue' \subseteq queue, unsettled' = {},
         pc' \in {"recheck", "rediscuss", "lastpull", "create"} => e.payload \in SUBSET Findings
  PROVE  Held'
  <1>1. cur \in JobId /\ cur \notin queue /\ queue \subseteq JobId /\ jobs \in [JobId -> Job]
    BY DEF Located, Placed, TypeOK, LoopTypes, StoreTypes
  <1>2. jobs'[cur'] = e /\ \A k \in queue' : jobs'[k] = jobs[k]
    BY <1>1, Edited
  <1> QED BY <1>2 DEF Located, Held

\* The attempt is over, with a change to its job.
LEMMA HeldAfter ==
  ASSUME TypeOK, Located, pc \in Reviewing, NEW e, pc' \notin Reviewing,
         jobs' = [jobs EXCEPT ![cur] = e],
         queue' \subseteq queue, unsettled' = {}
  PROVE  Held'
  <1>1. cur \in JobId /\ cur \notin queue /\ queue \subseteq JobId /\ jobs \in [JobId -> Job]
    BY DEF Located, Placed, TypeOK, LoopTypes, StoreTypes
  <1>2. \A k \in queue' : jobs'[k] = jobs[k]
    BY <1>1, Edited
  <1> QED BY <1>2 DEF Located, Held, Reviewing

LEMMA HeldStep ==
  TypeOK /\ Located /\ [Next]_vars => Held'
  <1> SUFFICES ASSUME TypeOK, Located, [Next]_vars PROVE Held'
    OBVIOUS
  <1>0. jobs \in [JobId -> Job] /\ queue \subseteq JobId /\ unsettled \subseteq JobId
    BY DEF TypeOK, StoreTypes, LoopTypes
  <1>1. pc \in Reviewing => cur \in JobId /\ jobs[cur] \in Job /\ jobs[cur].tries > 0 /\ unsettled = {}
    BY CurType DEF Located, Placed, Reviewing
  <1>2. ASSUME UNCHANGED <<jobs, cur>>, queue' \subseteq queue, unsettled' \subseteq unsettled,
               pc' \in Reviewing => pc \in Reviewing,
               pc' \in {"recheck", "rediscuss", "lastpull", "create"} => jobs[cur].payload \in SUBSET Findings
        PROVE  Held'
    BY <1>2 DEF Located, Held
  <1>3. CASE \E d \in Modes, a \in Accounts : Start(d, a)
    <2>1. queue = {} /\ jobs' = jobs
      BY <1>3 DEF Located, Placed, Start, ToReconcile, store, Reviewing
    <2> QED BY <1>3, <2>1 DEF Start, ToReconcile, Held, Reviewing
  <1>4. CASE Poll
    <2>1. queue = {} /\ jobs' = jobs
      BY <1>4 DEF Located, Placed, Poll, ToReconcile, store, Reviewing
    <2> QED BY <1>4, <2>1 DEF Poll, ToReconcile, Held, Reviewing
  <1>5. ASSUME NEW k \in JobId, Reconcile(k) PROVE Held'
    <2>1. queue = {} /\ queue' = queue /\ pc' = "reconcile"
      BY <1>5 DEF Located, Placed, Reconcile, Reviewing
    <2>2. unsettled' = unsettled \ {k}
      BY <1>5 DEF Reconcile
    <2>3. jobs' = jobs \/ jobs' = [jobs EXCEPT ![k] = With(@, "submitted")]
      BY <1>5, Written DEF Reconcile, store
    <2>4. \A m \in unsettled' : jobs'[m] = jobs[m]
      BY <1>0, <2>2, <2>3, Edited
    <2> QED BY <2>1, <2>2, <2>4 DEF Held, Reviewing, Located
  <1>6. ASSUME NEW p \in PRs, Scan(p) PROVE Held'
    <2> DEFINE k == [pr |-> p, rev |-> pr[p].rev, dry |-> dry]
    <2>1. k \in JobId /\ pr[p].body \in Nat
      BY ScanType
    <2>2. pc' = "scan" /\ unsettled' = {}
      BY <1>6 DEF Scan, Located, Placed
    <2>3. \A m \in JobId :
            /\ Superseded(p, k.rev)[m].tries = jobs[m].tries
            /\ Superseded(p, k.rev)[m].status \in {jobs[m].status, "stale"}
      BY SupersededType
    <2>4. Superseded(p, k.rev) \in [JobId -> Job]
      BY SupersededType
    <2>5. \A m \in queue' \ {k} :
            /\ m \in queue
            /\ jobs'[m].tries = jobs[m].tries
            /\ jobs'[m].status \in {jobs[m].status, "stale"}
      BY <1>0, <1>6, <2>1, <2>3, <2>4 DEF Scan
    <2>6. ASSUME k \in queue' PROVE jobs'[k].status \notin {"posting", "submitted"} /\ jobs'[k].tries < Attempts
      <3>1. CASE jobs' = jobs /\ queue' = queue
        BY <2>6, <3>1 DEF Located, Held
      <3>2. CASE jobs' = Superseded(p, k.rev) /\ queue' = queue
        BY <2>1, <2>3, <2>6, <3>2 DEF Located, Held
      <3>3. CASE /\ ~Uncertain(p)
                 /\ jobs' = [Superseded(p, k.rev) EXCEPT
                               ![k] = IF Ready(Opened(k)) THEN [Opened(k) EXCEPT !.body = pr[p].body]
                                      ELSE Opened(k)]
                 /\ queue' = IF Ready(Opened(k)) THEN queue \cup {k} ELSE queue
        <4>1. Opened(k).status = "posting" => jobs[k].status = "posting"
          BY <2>1, OpenedType
        <4>2. jobs[k].status # "posting"
          BY <2>1, <3>3 DEF Uncertain, Located, Quiet, QuietIn, Published
        <4>3. Opened(k) \in Job /\ (jobs[k].tries < Attempts => Opened(k).tries < Attempts)
              /\ (Opened(k).status = "submitted" => jobs[k].status = "submitted")
          BY <2>1, OpenedType
        <4>4. /\ [Opened(k) EXCEPT !.body = pr[p].body].status = Opened(k).status
              /\ [Opened(k) EXCEPT !.body = pr[p].body].tries = Opened(k).tries
          BY <2>1, <4>3, FieldTypes
        <4>5. jobs'[k] \in {Opened(k), [Opened(k) EXCEPT !.body = pr[p].body]}
          BY <2>1, <2>4, <3>3
        <4>6. jobs'[k].status = Opened(k).status /\ jobs'[k].tries = Opened(k).tries
          BY <4>4, <4>5
        <4>7. CASE Ready(Opened(k))
          BY <4>1, <4>2, <4>6, <4>7 DEF Ready
        <4>8. CASE ~Ready(Opened(k))
          <5>1. k \in queue
            BY <2>6, <3>3, <4>8
          <5> QED BY <4>1, <4>2, <4>3, <4>6, <5>1 DEF Located, Held
        <4> QED BY <4>7, <4>8
      <3> QED BY <1>6, <3>1, <3>2, <3>3 DEF Scan
    <2> HIDE DEF k
    <2> QED BY <2>2, <2>5, <2>6 DEF Held, Reviewing, Located
  <1>7. CASE EndScan
    <2>1. jobs' = jobs
      BY <1>7, Written DEF EndScan
    <2> QED BY <1>7, <2>1 DEF EndScan, Held, Reviewing, Located
  <1>8. ASSUME NEW k \in JobId, Recover(k) PROVE Held'
    <2>1. pc' \in {"next", "idle"} /\ unsettled' = {}
      BY <1>8 DEF Recover, Take, Located, Placed
    <2>2. PICK e : jobs' = [jobs EXCEPT ![k] = e]
      BY <1>8, Written DEF Recover
    <2>3. queue' \subseteq queue \ {k}
      BY <1>8 DEF Recover
    <2>4. \A m \in queue' : jobs'[m] = jobs[m]
      BY <1>0, <2>2, <2>3, Edited
    <2> QED BY <2>1, <2>3, <2>4 DEF Held, Reviewing, Located
  <1>9. ASSUME NEW k \in JobId, BeginAttempt(k) PROVE Held'
    <2>1. jobs[k].tries < Attempts
      BY <1>9 DEF BeginAttempt, Take, Located, Held
    <2>2. Attempted(jobs[k]).tries > 0
      BY <1>0, <2>1, AttemptedType
    <2>3. jobs' = [jobs EXCEPT ![k] = Attempted(@)]
      BY <1>9, Written DEF BeginAttempt
    <2>4. /\ (pc' = "review" /\ cur' = k) \/ pc' = "idle"
          /\ queue' \subseteq queue \ {k} /\ unsettled' = {}
      BY <1>9 DEF BeginAttempt, Take, Located, Placed
    <2>5. jobs'[k].tries > 0 /\ \A m \in queue' : jobs'[m] = jobs[m]
      BY <1>0, <2>2, <2>3, <2>4, Edited
    <2> QED BY <2>4, <2>5 DEF Held, Reviewing, Located
  <1>10. ASSUME NEW f \in Findings, Verify(f) PROVE Held'
    <2>1. pc \in Reviewing /\ Judged(jobs[cur], f).tries > 0
      BY <1>1, <1>10, FieldTypes DEF Verify, Reviewing
    <2>2. jobs' = [jobs EXCEPT ![cur] = Judged(jobs[cur], f)]
      BY <1>10, Written DEF Verify
    <2>3. /\ UNCHANGED <<cur, queue, unsettled>>
          /\ pc' \notin {"recheck", "rediscuss", "lastpull", "create"}
      BY <1>10 DEF Verify, loop
    <2> QED BY <1>1, <2>1, <2>2, <2>3, HeldAttempt
  <1>11. CASE Compose
    <2>1. pc \in Reviewing /\ confirmed \in SUBSET Findings
      BY <1>11 DEF Compose, Reviewing, TypeOK, WorkTypes
    <2> DEFINE e == [jobs[cur] EXCEPT !.payload = confirmed]
    <2>2. e.tries > 0 /\ e.payload \in SUBSET Findings
      BY <1>1, <2>1, FieldTypes
    <2>3. jobs' = [jobs EXCEPT ![cur] = e] /\ UNCHANGED <<cur, queue, unsettled>>
      BY <1>11 DEF Compose, loop, work
    <2> QED BY <1>1, <2>1, <2>2, <2>3, HeldAttempt
  <1>12. CASE Rediscuss
    <2>1. pc = "rediscuss" /\ pc \in Reviewing /\ UNCHANGED <<queue, unsettled>>
      BY <1>12 DEF Rediscuss, loop, Reviewing
    <2>2. CASE UNCHANGED <<jobs, cur>> /\ pc' \in {"error", "lastpull"}
      BY <1>2, <2>1, <2>2 DEF Located, Held
    <2>3. CASE jobs' = [jobs EXCEPT ![cur] = With(@, "dry_run")] /\ pc' = "next"
      BY <1>1, <2>1, <2>3, HeldAfter DEF Reviewing
    <2>4. CASE jobs' = [jobs EXCEPT ![cur] = With(@, "dry_run")] /\ pc' = "error" /\ UNCHANGED cur
      <3>1. With(jobs[cur], "dry_run").tries > 0
        BY <1>1, <2>1, WithFields DEF Status
      <3> QED BY <1>1, <2>1, <2>4, <3>1, HeldAttempt
    <2> QED BY <1>12, <2>2, <2>3, <2>4, Written DEF Rediscuss, store, work
  <1>13. CASE LastPull
    <2> DEFINE e == [With(jobs[cur], "posting") EXCEPT !.actor = account]
    <2>1. pc = "lastpull" /\ pc \in Reviewing /\ UNCHANGED <<cur, queue, unsettled>>
      BY <1>13 DEF LastPull, loop, work, Reviewing
    <2>2. account \in Accounts /\ jobs[cur].payload \in SUBSET Findings
      BY <2>1 DEF Located, Placed, Held
    <2>3. With(jobs[cur], "posting") \in Job
      BY <1>1, <2>1, WithType DEF Status
    <2>4. e.tries > 0 /\ e.payload \in SUBSET Findings
      BY <1>1, <2>1, <2>2, <2>3, WithFields, FieldTypes DEF Status
    <2>5. (UNCHANGED jobs /\ pc' = "stale") \/ jobs' = [jobs EXCEPT ![cur] = e]
      BY <1>13, Written DEF LastPull, store
    <2> HIDE DEF e
    <2>6. CASE UNCHANGED jobs /\ pc' = "stale"
      BY <1>2, <2>1, <2>6
    <2>7. CASE jobs' = [jobs EXCEPT ![cur] = e]
      BY <1>1, <2>1, <2>4, <2>7, HeldAttempt
    <2> QED BY <2>5, <2>6, <2>7
  <1>14. CASE Create
    <2>1. pc \in Reviewing /\ UNCHANGED <<cur, queue, unsettled>> /\ pc' \in {"await", "error"}
      BY <1>14 DEF Create, loop, work, Reviewing
    <2>2. With(jobs[cur], "failed").tries > 0
      BY <1>1, <2>1, WithFields DEF Status
    <2>3. jobs' = jobs \/ jobs' = [jobs EXCEPT ![cur] = With(jobs[cur], "failed")]
      BY <1>14 DEF Create
    <2> QED BY <1>1, <1>2, <2>1, <2>2, <2>3, HeldAttempt
  <1>15. CASE Answer
    <2>1. pc \in Reviewing /\ UNCHANGED <<queue, unsettled>>
      BY <1>15 DEF Answer, loop, Reviewing
    <2> DEFINE s == With(jobs[cur], "submitted")
               f == With(jobs[cur], "failed")
    <2>6. jobs' = [jobs EXCEPT ![cur] = s] \/ jobs' = [jobs EXCEPT ![cur] = f]
      BY <1>15, Written DEF Answer
    <2>7. pc' = "next" \/ (pc' = "error" /\ UNCHANGED cur)
      BY <1>15 DEF Answer, work
    <2>2. PICK e \in {s, f} : jobs' = [jobs EXCEPT ![cur] = e]
      BY <2>6
    <2>3. e.tries > 0
      BY <1>1, <2>1, WithFields DEF Status
    <2> HIDE DEF s, f
    <2>4. CASE pc' = "next"
      BY <1>1, <2>1, <2>2, <2>4, HeldAfter DEF Reviewing
    <2>5. CASE pc' = "error" /\ UNCHANGED cur
      BY <1>1, <2>1, <2>2, <2>3, <2>5, HeldAttempt
    <2> QED BY <2>7, <2>4, <2>5
  <1>16. CASE HandleError
    <2>1. pc \in Reviewing /\ pc' \notin Reviewing /\ queue' \subseteq queue /\ UNCHANGED unsettled
      BY <1>16 DEF HandleError, Reviewing
    <2>2. jobs' = [jobs EXCEPT ![cur] = Failed(jobs[cur])]
      BY <1>16, Written DEF HandleError
    <2> QED BY <1>1, <2>1, <2>2, HeldAfter
  <1>17. CASE Exit \/ Crash
    BY <1>17, HeldNowhere DEF Exit, Crash, Halt, Reviewing
  <1>18. CASE LoseState \/ \E scope \in {PRs} \cup {{p} : p \in PRs}, d \in Modes : Retry(scope, d)
    <2>1. pc = "off" /\ UNCHANGED <<pc, queue, unsettled>>
      BY <1>18 DEF LoseState, Retry, loop
    <2>2. queue = {} /\ unsettled = {}
      BY <2>1 DEF Located, Placed, Reviewing
    <2> QED BY <2>1, <2>2, HeldNowhere DEF Reviewing
  <1>19. ASSUME NEW k \in JobId, RetryElapses(k) PROVE Held'
    <2>1. jobs' = [jobs EXCEPT ![k] = [jobs[k] EXCEPT !.wait = FALSE]] /\ UNCHANGED <<pc, cur, queue, unsettled>>
      BY <1>19 DEF RetryElapses, loop, work
    <2>2. \A m \in JobId : /\ jobs'[m].status = jobs[m].status /\ jobs'[m].tries = jobs[m].tries
                           /\ jobs'[m].payload = jobs[m].payload
      BY <1>0, <2>1, FieldTypes
    <2>3. pc \in {"recheck", "rediscuss", "lastpull", "create"} => pc \in Reviewing
      BY DEF Reviewing
    <2> QED BY <1>0, <1>1, <2>1, <2>2, <2>3 DEF Held, Located
  <1>20. CASE ListPulls \/ EndQueue \/ ReadDiscussion \/ Snapshot \/ Investigate \/ Recheck \/ GiveUp
              \/ ReviewFails \/ SetupFails \/ GitHub \/ People
              \/ \E k \in JobId : LookupFails(k)
    <2>1. UNCHANGED <<jobs, cur>> /\ queue' \subseteq queue /\ unsettled' \subseteq unsettled
      BY <1>20 DEF ListPulls, EndQueue, ReadDiscussion, Snapshot, Investigate, Recheck, GiveUp,
         ReviewFails, SetupFails, GitHub, Accept, Reject, Drop, People, Toggle, Describe, Comment,
         Push, LookupFails, store, loop, work
    <2>2. /\ pc' \in Reviewing => pc \in Reviewing
          /\ pc' \in {"rediscuss", "lastpull", "create"} => pc' = pc \/ pc = "recheck"
          /\ pc' = "recheck" => pc = "recheck"
      BY <1>20 DEF ListPulls, EndQueue, ReadDiscussion, Snapshot, Investigate, Recheck, GiveUp,
         ReviewFails, SetupFails, GitHub, Accept, Reject, Drop, People, Toggle, Describe, Comment,
         Push, LookupFails, Reviewing
    <2> QED BY <1>2, <2>1, <2>2 DEF Located, Held
  <1>21. CASE UNCHANGED vars
    BY <1>21, <1>2 DEF vars, store, loop, work, Located, Held
  <1> QED BY <1>3, <1>4, <1>5, <1>6, <1>7, <1>8, <1>9, <1>10, <1>11, <1>12, <1>13, <1>14, <1>15,
             <1>16, <1>17, <1>18, <1>19, <1>20, <1>21 DEF Next, Daemon, Operator

-----------------------------------------------------------------------------
(***************************************************************************)
(* Types, for every value of the constants.                                *)
(***************************************************************************)

LEMMA TypeStep ==
  TypeOK /\ Located /\ [Next]_vars => (TypeOK /\ Located)'
  <1> SUFFICES ASSUME TypeOK, Located, [Next]_vars PROVE (TypeOK /\ Located)'
    OBVIOUS
  <1>1. TypeOK'
    BY GitHubTypesStep, StoreTypesStep, LoopTypesStep, WorkTypesStep, BudgetStep DEF TypeOK
  <1>2. Located'
    BY PlacedStep, HeldStep, QuietStep DEF Located
  <1> QED BY <1>1, <1>2

\* Every variable keeps its type, and wherever the process is it works on the
\* job, in the mode and with the account that place supposes: what run.go's
\* step, review and Run assume of each other.
THEOREM TypeCorrect == Spec => []TypeOK
  <1>1. Init => TypeOK /\ Located
    BY TypeInit, LocatedInit
  <1>2. TypeOK /\ Located /\ [Next]_vars => (TypeOK /\ Located)'
    BY TypeStep
  <1> QED BY <1>1, <1>2, PTL DEF Spec
=============================================================================
