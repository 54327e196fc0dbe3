------------------------- MODULE EngineSafetyProofs -------------------------
(***************************************************************************)
(* More proofs about ReviewEngine, for every value of its constants and on *)
(* any storage: what the saved state can be read back, what is posted was  *)
(* written with everything said, and uncertain publications hold work up.  *)
(***************************************************************************)
EXTENDS ReviewEngineProofs

-----------------------------------------------------------------------------
(***************************************************************************)
(* Publications that can be read back.                                     *)
(***************************************************************************)

Full(e) == e.status \in {"posting", "submitted"} => e.actor # None /\ e.payload # None
FullIn(j) == \A k \in JobId : Full(j[k])

\* The process waits for the outcome of an intent.
Intended == pc \in {"create", "await"} => jobs[cur].status = "posting"

LoadInv == FullIn(jobs) /\ FullIn(disk) /\ Intended

\* Only LastPull makes an intent.
NewIntent(k) == pc = "lastpull" /\ k = cur
Intents == \A k \in JobId :
             jobs'[k].status = "posting" =>
               jobs[k].status = "posting" \/ NewIntent(k) \/ pc' = "off"

LEMMA SomethingIsNotNone ==
  /\ \A s \in SUBSET Findings : s # None
  /\ \A a \in Accounts : a # None
  BY NoneAssumption

\* What each edit keeps of an intent.
LEMMA IntentFields ==
  ASSUME NEW j \in Job
  PROVE  /\ [j EXCEPT !.wait = FALSE].actor = j.actor /\ [j EXCEPT !.wait = FALSE].payload = j.payload
         /\ \A f \in Findings : Judged(j, f).actor = j.actor /\ Judged(j, f).payload = j.payload
         /\ \A b \in Nat : [j EXCEPT !.body = b].actor = j.actor /\ [j EXCEPT !.body = b].payload = j.payload
  BY DEF Job, Judged

LEMMA FullEdit ==
  ASSUME TypeOK, LoadInv, NEW k \in JobId, NEW e, Full(e),
         e.status = "posting" => jobs[k].status = "posting" \/ NewIntent(k),
         jobs' = [jobs EXCEPT ![k] = e],
         disk' = disk \/ disk' = [jobs EXCEPT ![k] = e]
  PROVE  FullIn(jobs') /\ FullIn(disk') /\ Intents
<1>1. jobs \in [JobId -> Job]
  BY DEF TypeOK, StoreTypes
<1>2. jobs'[k] = e /\ \A m \in JobId \ {k} : jobs'[m] = jobs[m]
  BY <1>1
<1>3. FullIn(jobs')
  BY <1>2 DEF LoadInv, FullIn
<1> QED BY <1>2, <1>3 DEF LoadInv, Intents, FullIn

\* What writes the jobs.
LEMMA Writers ==
  ASSUME Next
  PROVE  \/ UNCHANGED store
         \/ \E k \in JobId : Reconcile(k) \/ Recover(k) \/ BeginAttempt(k) \/ RetryElapses(k)
         \/ \E p \in PRs : Scan(p)
         \/ \E f \in Findings : Verify(f)
         \/ EndScan \/ Compose \/ Rediscuss \/ LastPull \/ Create \/ Answer
         \/ HandleError \/ Exit \/ Crash \/ LoseState
         \/ \E scope, d : Retry(scope, d)
  BY DEF Next, Daemon, Operator, GitHub, Accept, Reject, Drop, People, Toggle, Describe,
     Comment, Push, Start, Poll, ToReconcile, ListPulls, EndQueue, LookupFails, ReadDiscussion,
     Snapshot, Investigate, Recheck, GiveUp, ReviewFails, SetupFails, store

\* What is written is full, and is an intent only if it was one or becomes one.
LEMMA FullStep ==
  ASSUME TypeOK, Located, LoadInv, [Next]_vars
  PROVE  FullIn(jobs') /\ FullIn(disk') /\ Intents
<1> DEFINE Goal == FullIn(jobs') /\ FullIn(disk') /\ Intents
<1>0. jobs \in [JobId -> Job] /\ disk \in [JobId -> Job] /\ FullIn(jobs) /\ FullIn(disk)
  BY DEF TypeOK, StoreTypes, LoadInv
<1>1. CASE UNCHANGED store
  BY <1>0, <1>1 DEF store, Intents
<1>2. pc \in Reviewing => cur \in JobId /\ jobs[cur] \in Job /\ cur.dry = dry
  BY CurType DEF Located, Placed
<1>3. ASSUME NEW k \in JobId, Reconcile(k) PROVE Goal
  <2>1. jobs[k].status = "posting"
    BY <1>3 DEF Reconcile, Located, Held
  <2>2. UNCHANGED store \/ Saves([jobs EXCEPT ![k] = With(@, "submitted")])
                        \/ SaveFails([jobs EXCEPT ![k] = With(@, "submitted")])
    BY <1>3 DEF Reconcile
  <2>3. Full(With(jobs[k], "submitted")) /\ With(jobs[k], "submitted").status # "posting"
    BY <1>0, <2>1, WithFields DEF Full, FullIn, Status
  <2> HIDE DEF Goal
  <2>4. CASE jobs' = [jobs EXCEPT ![k] = With(@, "submitted")]
             /\ (disk' = disk \/ disk' = [jobs EXCEPT ![k] = With(@, "submitted")])
    BY <2>3, <2>4, FullEdit DEF Goal
  <2> QED BY <1>1, <2>2, <2>4, Written DEF Goal
<1>4. ASSUME NEW p \in PRs, Scan(p) PROVE Goal
  <2> DEFINE k == [pr |-> p, rev |-> pr[p].rev, dry |-> dry]
  <2>1. k \in JobId /\ pr[p].body \in Nat
    BY ScanType
  <2>2. \A m \in JobId : Superseded(p, k.rev)[m] = jobs[m] \/ Superseded(p, k.rev)[m].status = "stale"
    BY SupersededType
  <2>3. Full(Opened(k)) /\ (Opened(k).status = "posting" => jobs[k].status = "posting")
    BY <1>0, <2>1, OpenedType DEF Full, FullIn
  <2>4. /\ [Opened(k) EXCEPT !.body = pr[p].body].status = Opened(k).status
        /\ Full([Opened(k) EXCEPT !.body = pr[p].body])
    BY <2>1, <2>3, OpenedType, FieldTypes, IntentFields DEF Full
  <2>5. Superseded(p, k.rev) \in [JobId -> Job]
    BY SupersededType
  <2>6. \/ jobs' = jobs
        \/ jobs' = Superseded(p, k.rev)
        \/ jobs' = [Superseded(p, k.rev) EXCEPT ![k] = Opened(k)]
        \/ jobs' = [Superseded(p, k.rev) EXCEPT ![k] = [Opened(k) EXCEPT !.body = pr[p].body]]
    BY <1>4 DEF Scan
  <2> HIDE DEF k
  <2>7. \A m \in JobId : \/ jobs'[m] = jobs[m] \/ jobs'[m].status = "stale"
                         \/ /\ Full(jobs'[m])
                            /\ jobs'[m].status = "posting" => jobs[m].status = "posting"
    BY <2>1, <2>2, <2>3, <2>4, <2>5, <2>6
  <2>8. disk' = disk
    BY <1>4 DEF Scan
  <2> QED BY <1>0, <2>7, <2>8 DEF FullIn, Full, Intents
<1>5. CASE EndScan
  BY <1>0, <1>5, Written DEF EndScan, Intents
<1>6. ASSUME NEW k \in JobId, Recover(k) PROVE Goal
  <2>1. PICK i \in Mine(k) :
          LET adopted == Adopted(jobs[k], posted[k][i].found)
              matched == With(adopted, "submitted") IN
          \/ jobs' = [jobs EXCEPT ![k] = matched] /\ (disk' = disk \/ disk' = [jobs EXCEPT ![k] = matched])
          \/ jobs' = [jobs EXCEPT ![k] = adopted] /\ disk' = disk
    BY <1>6, Written DEF Recover
  <2> DEFINE adopted == Adopted(jobs[k], posted[k][i].found)
             matched == With(adopted, "submitted")
  <2>2. posted[k][i].found \in SUBSET Findings /\ account \in Accounts
    <3>1. posted[k] \in Seq(Review) /\ i \in DOMAIN posted[k]
      BY DEF TypeOK, GitHubTypes, Mine
    <3>2. posted[k][i] \in Review
      BY <3>1
    <3> QED BY <1>6, <3>2 DEF Recover, Take, Located, Placed, Review
  <2>3. /\ adopted.actor = account /\ adopted.payload = posted[k][i].found
        /\ adopted.status = jobs[k].status
    BY <1>0 DEF Adopted, Job
  <2>4. /\ matched.actor = account /\ matched.payload = posted[k][i].found
        /\ matched.status = "submitted"
    BY <1>0 DEF Adopted, Job, With
  <2>5. Full(adopted) /\ Full(matched)
    BY <2>2, <2>3, <2>4, SomethingIsNotNone DEF Full
  <2> HIDE DEF adopted, matched, Goal
  <2>6. CASE jobs' = [jobs EXCEPT ![k] = matched] /\ (disk' = disk \/ disk' = [jobs EXCEPT ![k] = matched])
    BY <2>4, <2>5, <2>6, FullEdit DEF Goal
  <2>7. CASE jobs' = [jobs EXCEPT ![k] = adopted] /\ disk' = disk
    BY <2>3, <2>5, <2>7, FullEdit DEF Goal
  <2> QED BY <2>1, <2>6, <2>7 DEF adopted, matched
<1>7. ASSUME NEW k \in JobId, NEW e, e.status \notin {"posting", "submitted"},
             jobs' = [jobs EXCEPT ![k] = e],
             disk' = disk \/ disk' = [jobs EXCEPT ![k] = e]
      PROVE  Goal
  BY <1>7, FullEdit DEF Full
<1>8. ASSUME NEW k \in JobId, BeginAttempt(k) PROVE Goal
  <2>1. jobs[k].tries < Attempts
    BY <1>8 DEF BeginAttempt, Take, Located, Held
  <2>2. Attempted(jobs[k]).status = "pending"
    BY <1>0, <2>1, AttemptedType
  <2>3. /\ jobs' = [jobs EXCEPT ![k] = Attempted(@)]
        /\ disk' = disk \/ disk' = [jobs EXCEPT ![k] = Attempted(@)]
    BY <1>8, Written DEF BeginAttempt
  <2> QED BY <1>7, <2>2, <2>3
<1>9. ASSUME NEW k \in JobId, NEW e \in Job, e.status = jobs[k].status,
             Full(jobs[k]) => Full(e),
             jobs' = [jobs EXCEPT ![k] = e],
             disk' = disk \/ disk' = [jobs EXCEPT ![k] = e]
      PROVE  Goal
  BY <1>0, <1>9, FullEdit DEF FullIn
<1>10. ASSUME NEW f \in Findings, Verify(f) PROVE Goal
  <2>1. /\ jobs' = [jobs EXCEPT ![cur] = Judged(@, f)]
        /\ disk' = disk \/ disk' = [jobs EXCEPT ![cur] = Judged(@, f)]
    BY <1>10, Written DEF Verify
  <2>2. cur \in JobId /\ jobs[cur] \in Job
    BY <1>2, <1>10 DEF Verify, Reviewing
  <2>3. /\ Judged(jobs[cur], f) \in Job /\ Judged(jobs[cur], f).status = jobs[cur].status
        /\ Full(jobs[cur]) => Full(Judged(jobs[cur], f))
    BY <2>2, FieldTypes, IntentFields DEF Full
  <2> QED BY <1>9, <2>1, <2>2, <2>3
<1>11. CASE Compose
  <2>1. cur \in JobId /\ jobs[cur] \in Job /\ confirmed \in SUBSET Findings
    BY <1>2, <1>11 DEF Compose, Reviewing, TypeOK, WorkTypes
  <2> DEFINE e == [jobs[cur] EXCEPT !.payload = confirmed]
  <2>2. e \in Job /\ e.status = jobs[cur].status /\ e.payload = confirmed /\ e.actor = jobs[cur].actor
    BY <2>1, FieldTypes DEF Job
  <2>3. Full(jobs[cur]) => Full(e)
    BY <2>1, <2>2, SomethingIsNotNone DEF Full
  <2>4. jobs' = [jobs EXCEPT ![cur] = e] /\ disk' = disk
    BY <1>11 DEF Compose
  <2> HIDE DEF e
  <2> QED BY <1>9, <2>1, <2>2, <2>3, <2>4
<1>12. CASE Rediscuss
  <2>1. cur \in JobId /\ With(jobs[cur], "dry_run").status = "dry_run"
    BY <1>2, <1>12, WithFields DEF Rediscuss, Reviewing, Status
  <2>2. \/ UNCHANGED store
        \/ Saves([jobs EXCEPT ![cur] = With(@, "dry_run")])
        \/ SaveFails([jobs EXCEPT ![cur] = With(@, "dry_run")])
    BY <1>12 DEF Rediscuss
  <2> QED BY <1>1, <1>7, <2>1, <2>2, Written
<1>13. CASE LastPull
  <2> DEFINE e == [With(jobs[cur], "posting") EXCEPT !.actor = account]
  <2>1. cur \in JobId /\ jobs[cur] \in Job /\ account \in Accounts /\ jobs[cur].payload \in SUBSET Findings
    BY <1>2, <1>13 DEF LastPull, Reviewing, Located, Placed, Held
  <2>2. e.actor = account /\ e.payload = jobs[cur].payload
    BY <2>1 DEF With, Job
  <2>3. Full(e)
    BY <2>1, <2>2, SomethingIsNotNone DEF Full
  <2>4. \/ UNCHANGED store
        \/ /\ jobs' = [jobs EXCEPT ![cur] = e]
           /\ disk' = disk \/ disk' = [jobs EXCEPT ![cur] = e]
    BY <1>13, Written DEF LastPull
  <2>5. NewIntent(cur)
    BY <1>13 DEF LastPull, NewIntent
  <2> HIDE DEF e
  <2> QED BY <1>1, <2>1, <2>3, <2>4, <2>5, FullEdit
<1>14. CASE Create
  <2>1. cur \in JobId /\ With(jobs[cur], "failed").status = "failed"
    BY <1>2, <1>14, WithFields DEF Create, Reviewing, Status
  <2>2. disk' = disk /\ (jobs' = jobs \/ jobs' = [jobs EXCEPT ![cur] = With(@, "failed")])
    BY <1>14 DEF Create
  <2> QED BY <1>1, <1>7, <2>1, <2>2 DEF store
<1>15. CASE Answer
  <2> DEFINE s == With(jobs[cur], "submitted")  f == With(jobs[cur], "failed")
  <2>1. cur \in JobId /\ jobs[cur] \in Job /\ jobs[cur].status = "posting"
    BY <1>2, <1>15 DEF Answer, Reviewing, LoadInv, Intended
  <2>2. f.status = "failed" /\ s.status = "submitted" /\ Full(s)
    BY <1>0, <2>1, WithFields DEF Status, FullIn, Full
  <2>3. \/ jobs' = [jobs EXCEPT ![cur] = s] /\ (disk' = disk \/ disk' = [jobs EXCEPT ![cur] = s])
        \/ jobs' = [jobs EXCEPT ![cur] = f] /\ disk' = disk
    BY <1>15, Written DEF Answer
  <2> HIDE DEF s, f
  <2> QED BY <1>7, <2>1, <2>2, <2>3, FullEdit
<1>16. CASE HandleError
  <2>1. cur \in JobId /\ jobs[cur] \in Job /\ (pc = "setup" => jobs[cur].tries > 0)
    BY <1>2, <1>16, CurType DEF HandleError, Reviewing
  <2>2. /\ jobs' = [jobs EXCEPT ![cur] = Failed(jobs[cur])]
        /\ disk' = disk \/ disk' = [jobs EXCEPT ![cur] = Failed(jobs[cur])]
    BY <1>16, Written DEF HandleError
  <2>3. Failed(jobs[cur]) = jobs[cur] \/ Failed(jobs[cur]).status \in {"stale", "failed"}
    <3>1. Delayed(jobs[cur]).status = "failed" /\ Delayed(jobs[cur]) \in Job
      BY <2>1, DelayedType
    <3>2. [Delayed(jobs[cur]) EXCEPT !.tries = @ - 1].status = "failed"
      BY <3>1 DEF Job
    <3>3. With(jobs[cur], "stale").status = "stale"
      BY <2>1, WithFields DEF Status
    <3> QED BY <3>1, <3>2, <3>3 DEF Failed
  <2> QED BY <1>7, <1>9, <2>1, <2>2, <2>3
<1>17. CASE Exit \/ Crash
  BY <1>0, <1>17 DEF Exit, Crash, Halt, Intents
<1>18. ASSUME NEW scope, NEW d, Retry(scope, d) PROVE Goal
  <2>1. \A k \in JobId : Reset(disk[k]).status = "pending"
    BY <1>0, ResetType
  <2>2. /\ disk' = jobs' /\ \A k \in JobId : disk'[k] \in {disk[k], Reset(disk[k])}
        /\ pc' = "off"
    BY <1>18 DEF Retry, Saves
  <2> QED BY <1>0, <2>1, <2>2 DEF FullIn, Full, Intents
<1>19. CASE LoseState
  BY <1>19, NoJobType DEF LoseState, FullIn, Full, Intents
<1>20. ASSUME NEW k \in JobId, RetryElapses(k) PROVE Goal
  <2>1. /\ [jobs[k] EXCEPT !.wait = FALSE].status = jobs[k].status
        /\ [disk[k] EXCEPT !.wait = FALSE].status = disk[k].status
    BY <1>0, FieldTypes
  <2>2. Full([jobs[k] EXCEPT !.wait = FALSE]) /\ Full([disk[k] EXCEPT !.wait = FALSE])
    BY <1>0, <2>1, IntentFields DEF Full, FullIn
  <2>3. /\ jobs' = [jobs EXCEPT ![k] = [jobs[k] EXCEPT !.wait = FALSE]]
        /\ disk' = [disk EXCEPT ![k] = [disk[k] EXCEPT !.wait = FALSE]]
    BY <1>20 DEF RetryElapses
  <2> QED BY <1>0, <2>1, <2>2, <2>3 DEF FullIn, Intents
<1> QED BY <1>1, <1>3, <1>4, <1>5, <1>6, <1>8, <1>10, <1>11, <1>12, <1>13, <1>14, <1>15, <1>16,
           <1>17, <1>18, <1>19, <1>20, Writers DEF vars, store

LEMMA IntendedStep ==
  ASSUME TypeOK, Located, Intended, [Next]_vars
  PROVE  Intended'
<1> SUFFICES ASSUME pc' \in {"create", "await"} PROVE jobs'[cur'].status = "posting"
  BY DEF Intended
<1>1. \/ LastPull \/ Create
      \/ UNCHANGED <<jobs, pc, cur>>
      \/ \E k \in JobId : RetryElapses(k)
  BY DEF vars, Next, Daemon, Start, Poll, ToReconcile, ListPulls, EndScan, EndQueue, Reconcile,
     LookupFails, Recover, BeginAttempt, Take, Scan, ReadDiscussion, Snapshot, Investigate,
     Compose, Verify, Recheck, Rediscuss, Answer, GiveUp, ReviewFails, SetupFails, HandleError,
     Exit, Halt, Operator, GitHub, Crash, LoseState, Retry, Accept, Reject, Drop, People, Toggle,
     Describe, Comment, Push, store, work
<1>2. pc \in Reviewing => cur \in JobId /\ jobs[cur] \in Job /\ jobs \in [JobId -> Job]
  BY CurType DEF TypeOK, StoreTypes
<1>3. CASE LastPull
  <2> DEFINE e == [With(jobs[cur], "posting") EXCEPT !.actor = account]
  <2>1. jobs' = [jobs EXCEPT ![cur] = e] /\ cur' = cur
    BY <1>3, Written DEF LastPull, work
  <2>2. cur \in JobId /\ jobs \in [JobId -> Job] /\ e.status = "posting"
    BY <1>2, <1>3 DEF LastPull, Reviewing, With, Job
  <2> HIDE DEF e
  <2> QED BY <2>1, <2>2
<1>4. CASE Create
  BY <1>4 DEF Create, Intended, work
<1>5. CASE UNCHANGED <<jobs, pc, cur>>
  BY <1>5 DEF Intended
<1>6. ASSUME NEW k \in JobId, RetryElapses(k) PROVE jobs'[cur'].status = "posting"
  <2>1. pc' = pc /\ cur' = cur /\ jobs' = [jobs EXCEPT ![k] = [jobs[k] EXCEPT !.wait = FALSE]]
    BY <1>6 DEF RetryElapses, work
  <2>2. [jobs[k] EXCEPT !.wait = FALSE].status = jobs[k].status
    BY <1>2, <1>6, FieldTypes DEF TypeOK, StoreTypes
  <2>3. cur \in JobId /\ jobs \in [JobId -> Job] /\ jobs[cur].status = "posting"
    BY <1>2, <2>1 DEF Reviewing, Intended
  <2> HIDE DEF Intended
  <2> QED BY <2>1, <2>2, <2>3
<1> QED BY <1>1, <1>3, <1>4, <1>5, <1>6

LEMMA LoadInit == Init => LoadInv
  BY DEF Init, LoadInv, FullIn, Full, NoJob, Intended

LEMMA LoadStep ==
  TypeOK /\ Located /\ LoadInv /\ [Next]_vars => LoadInv'
  BY FullStep, IntendedStep DEF LoadInv, FullIn, Full

\* Whatever fails, and wherever the process stops, the file holds the account
\* and the content of each publication: review saves both with the intent, and
\* step adopts both with the review it finds (state.go: ReadState's check).
THEOREM StateLoads == Spec => []SavedStateLoads
<1>1. Init => TypeOK /\ Located /\ LoadInv
  BY TypeInit, LocatedInit, LoadInit
<1>2. TypeOK /\ Located /\ LoadInv /\ [Next]_vars => (TypeOK /\ Located /\ LoadInv)'
  BY TypeStep, LoadStep
<1>3. Located /\ LoadInv => SavedStateLoads
  BY DEF Located, Quiet, QuietIn, Published, LoadInv, FullIn, Full, SavedStateLoads, Loadable
<1> QED BY <1>1, <1>2, <1>3, PTL DEF Spec

-----------------------------------------------------------------------------
(***************************************************************************)
(* What a review was written with.                                         *)
(***************************************************************************)

\* The jobs an attempt is or will be made for.
Chosen == queue \cup (IF pc \in Reviewing THEN {cur} ELSE {})

\* A job holds a description that its pull request has, or once had.
BodyInv == \A k \in Chosen : jobs[k].body \in Nat /\ jobs[k].body <= pr[k.pr].body

\* The attempt holds a discussion that its pull request has, or once had.
HistInv ==
  pc \in {"snapshot", "investigate", "verify", "recheck", "rediscuss"} =>
    hist \in Nat /\ hist <= pr[cur.pr].disc

\* What was missed still shows in what the attempt has yet to compare.
MissInv ==
  /\ pc \in {"snapshot", "investigate", "verify", "recheck"} /\ missed =>
       jobs[cur].body < pr[cur.pr].body \/ hist < pr[cur.pr].disc
  /\ pc = "rediscuss" /\ missed => hist < pr[cur.pr].disc
  /\ pc \in {"review", "lastpull", "create", "await"} => ~missed

ContextInv == BodyInv /\ HistInv /\ MissInv

BodiesKept == \A m \in JobId : jobs'[m].body = jobs[m].body

LEMMA BodyFields ==
  ASSUME NEW j \in Job
  PROVE  /\ \A s \in Status : With(j, s).body = j.body
         /\ \A f \in Findings : Judged(j, f).body = j.body
         /\ Attempted(j).body = j.body /\ Reset(j).body = j.body
         /\ \A s \in SUBSET Findings : Adopted(j, s).body = j.body
         /\ \A s \in SUBSET Findings : With(Adopted(j, s), "submitted").body = j.body
         /\ [With(j, "posting") EXCEPT !.actor = account].body = j.body
         /\ \A s : [j EXCEPT !.payload = s].body = j.body
         /\ [j EXCEPT !.wait = FALSE].body = j.body
         /\ Failed(j).body = j.body
<1>1. Delayed(j).body = j.body /\ Delayed(j) \in Job
  BY DelayedType DEF Delayed, Job
<1>2. [Delayed(j) EXCEPT !.tries = @ - 1].body = j.body
  BY <1>1 DEF Job
<1>3. Failed(j).body = j.body
  BY <1>1, <1>2 DEF Failed, With, Job
<1> QED BY <1>3 DEF Job, With, Judged, Attempted, Reset, Adopted

LEMMA EditKept ==
  ASSUME TypeOK, NEW k \in JobId, NEW e, e.body = jobs[k].body,
         jobs' = [jobs EXCEPT ![k] = e]
  PROVE  BodiesKept
  BY DEF TypeOK, StoreTypes, BodiesKept

\* Only a scan writes the description of a job.
LEMMA BodyStep ==
  ASSUME TypeOK, Located, [Next]_vars
  PROVE  BodiesKept \/ pc' = "off" \/ \E p \in PRs : Scan(p)
<1>0. jobs \in [JobId -> Job]
  BY DEF TypeOK, StoreTypes
<1>1. ASSUME jobs' = jobs PROVE BodiesKept
  BY <1>1 DEF BodiesKept
<1>2. pc \in Reviewing => cur \in JobId /\ jobs[cur] \in Job
  BY CurType
<1>3. ASSUME NEW k \in JobId, Reconcile(k) PROVE BodiesKept
  <2>1. jobs' = jobs \/ jobs' = [jobs EXCEPT ![k] = With(@, "submitted")]
    BY <1>3, Written DEF Reconcile, store
  <2> QED BY <1>0, <1>1, <2>1, BodyFields, EditKept DEF Status
<1>4. ASSUME NEW k \in JobId, Recover(k) PROVE BodiesKept
  <2>1. PICK i \in Mine(k) :
          LET adopted == Adopted(jobs[k], posted[k][i].found)
              matched == With(adopted, "submitted") IN
          jobs' = [jobs EXCEPT ![k] = matched] \/ jobs' = [jobs EXCEPT ![k] = adopted]
    BY <1>4, Written DEF Recover
  <2>2. posted[k][i].found \in SUBSET Findings
    <3>1. posted[k] \in Seq(Review) /\ i \in DOMAIN posted[k]
      BY DEF TypeOK, GitHubTypes, Mine
    <3>2. posted[k][i] \in Review
      BY <3>1
    <3> QED BY <3>2 DEF Review
  <2> DEFINE adopted == Adopted(jobs[k], posted[k][i].found)
             matched == With(adopted, "submitted")
  <2>3. adopted.body = jobs[k].body /\ matched.body = jobs[k].body
    BY <1>0, <2>2, BodyFields
  <2>4. jobs' = [jobs EXCEPT ![k] = matched] \/ jobs' = [jobs EXCEPT ![k] = adopted]
    BY <2>1
  <2> HIDE DEF adopted, matched
  <2> QED BY <2>3, <2>4, EditKept
<1>5. ASSUME NEW k \in JobId, BeginAttempt(k) PROVE BodiesKept
  <2>1. jobs' = [jobs EXCEPT ![k] = Attempted(@)]
    BY <1>5, Written DEF BeginAttempt
  <2> QED BY <1>0, <2>1, BodyFields, EditKept
<1>6. ASSUME NEW f \in Findings, Verify(f) PROVE BodiesKept
  <2>1. jobs' = [jobs EXCEPT ![cur] = Judged(@, f)]
    BY <1>6, Written DEF Verify
  <2>2. pc \in Reviewing
    BY <1>6 DEF Verify, Reviewing
  <2> QED BY <1>2, <2>1, <2>2, BodyFields, EditKept
<1>7. ASSUME NEW e, pc \in Reviewing, e.body = jobs[cur].body,
             jobs' = jobs \/ jobs' = [jobs EXCEPT ![cur] = e]
      PROVE  BodiesKept
  <2>1. CASE jobs' = [jobs EXCEPT ![cur] = e]
    <3>1. cur \in JobId
      BY <1>2, <1>7
    <3> QED BY <1>7, <2>1, <3>1, EditKept
  <2> QED BY <1>1, <1>7, <2>1
<1>8. CASE Compose
  <2>1. jobs' = [jobs EXCEPT ![cur] = [jobs[cur] EXCEPT !.payload = confirmed]] /\ pc \in Reviewing
    BY <1>8 DEF Compose, Reviewing
  <2> QED BY <1>2, <1>7, <2>1, BodyFields
<1>9. CASE Rediscuss
  <2>1. /\ jobs' = jobs \/ jobs' = [jobs EXCEPT ![cur] = With(jobs[cur], "dry_run")]
        /\ pc \in Reviewing
    BY <1>9, Written DEF Rediscuss, Reviewing, store
  <2> QED BY <1>2, <1>7, <2>1, BodyFields DEF Status
<1>10. CASE LastPull
  <2>1. /\ \/ jobs' = jobs
           \/ jobs' = [jobs EXCEPT ![cur] = [With(jobs[cur], "posting") EXCEPT !.actor = account]]
        /\ pc \in Reviewing
    BY <1>10, Written DEF LastPull, Reviewing, store
  <2> QED BY <1>2, <1>7, <2>1, BodyFields
<1>11. CASE Create
  <2>1. /\ jobs' = jobs \/ jobs' = [jobs EXCEPT ![cur] = With(jobs[cur], "failed")]
        /\ pc \in Reviewing
    BY <1>11 DEF Create, Reviewing
  <2> QED BY <1>2, <1>7, <2>1, BodyFields DEF Status
<1>12. CASE Answer
  <2>1. /\ \/ jobs' = [jobs EXCEPT ![cur] = With(jobs[cur], "failed")]
           \/ jobs' = [jobs EXCEPT ![cur] = With(jobs[cur], "submitted")]
        /\ pc \in Reviewing
    BY <1>12, Written DEF Answer, Reviewing
  <2> QED BY <1>2, <1>7, <2>1, BodyFields DEF Status
<1>13. CASE HandleError
  <2>1. jobs' = [jobs EXCEPT ![cur] = Failed(jobs[cur])] /\ pc \in Reviewing
    BY <1>13, Written DEF HandleError, Reviewing
  <2> QED BY <1>2, <1>7, <2>1, BodyFields
<1>14. ASSUME NEW k \in JobId, RetryElapses(k) PROVE BodiesKept
  <2>1. jobs' = [jobs EXCEPT ![k] = [jobs[k] EXCEPT !.wait = FALSE]]
    BY <1>14 DEF RetryElapses
  <2> QED BY <1>0, <2>1, BodyFields, EditKept
<1>15. CASE Exit \/ Crash
  BY <1>15 DEF Exit, Crash, Halt
<1>16. CASE LoseState \/ \E scope, d : Retry(scope, d)
  BY <1>16 DEF LoseState, Retry
<1>17. CASE EndScan
  BY <1>1, <1>17, Written DEF EndScan
<1> QED BY <1>1, <1>3, <1>4, <1>5, <1>6, <1>8, <1>9, <1>10, <1>11, <1>12, <1>13, <1>14, <1>15,
           <1>16, <1>17, Writers DEF vars, store

\* A scan leaves the description of a job alone or brings it up to date, and
\* brings it up to date when it queues the job.
LEMMA ScanBodies ==
  ASSUME TypeOK, Located, NEW p \in PRs, Scan(p), NEW m \in JobId
  PROVE  /\ jobs'[m].body \in {jobs[m].body, pr[m.pr].body}
         /\ m \in queue' => m \in queue \/ jobs'[m].body = pr[m.pr].body
<1> DEFINE k == [pr |-> p, rev |-> pr[p].rev, dry |-> dry]
<1>1. k \in JobId /\ k.pr = p /\ pr[p].body \in Nat
  BY ScanType
<1>2. jobs \in [JobId -> Job]
  BY DEF TypeOK, StoreTypes
<1>3. \A n \in JobId : Superseded(p, k.rev)[n].body = jobs[n].body
  BY <1>2, BodyFields DEF Superseded, Status
<1>4. Superseded(p, k.rev) \in [JobId -> Job]
  BY SupersededType
<1>5. Opened(k) \in Job /\ Opened(k).body \in {jobs[k].body, pr[p].body}
  <2>1. CASE jobs[k].status = "none"
    <3>1. With(NoJob, "pending") \in Job
      BY NoJobType, WithType DEF Status
    <3> HIDE DEF k
    <3> QED BY <1>1, <2>1, <3>1, OpenedType DEF Opened, Job
  <2>2. CASE jobs[k].status = "stale"
    <3>1. With(jobs[k], "pending") \in Job /\ With(jobs[k], "pending").body = jobs[k].body
      BY <1>1, <1>2, WithType, BodyFields DEF Status
    <3> HIDE DEF k
    <3> QED BY <1>1, <2>2, <3>1, OpenedType DEF Opened, Job
  <2>3. CASE jobs[k].status \notin {"none", "stale"}
    <3> HIDE DEF k
    <3> QED BY <1>1, <2>3, OpenedType DEF Opened
  <2> QED BY <2>1, <2>2, <2>3
<1>6. [Opened(k) EXCEPT !.body = pr[p].body].body = pr[p].body
  BY <1>5 DEF Job
<1>7. \/ jobs' = jobs /\ queue' = queue
      \/ jobs' = Superseded(p, k.rev) /\ queue' = queue
      \/ /\ jobs' = [Superseded(p, k.rev) EXCEPT ![k] = Opened(k)]
         /\ queue' = queue
      \/ /\ jobs' = [Superseded(p, k.rev) EXCEPT ![k] = [Opened(k) EXCEPT !.body = pr[p].body]]
         /\ queue' = queue \cup {k}
  BY DEF Scan
<1> HIDE DEF k
<1>8. CASE m = k
  BY <1>1, <1>3, <1>4, <1>5, <1>6, <1>7, <1>8
<1>9. CASE m # k
  BY <1>1, <1>3, <1>4, <1>7, <1>9
<1> QED BY <1>8, <1>9

Pulls(p) == pr[p].body \in Nat /\ pr[p].disc \in Nat
Grows(p) == pr[p].body <= pr'[p].body /\ pr[p].disc <= pr'[p].disc

\* Descriptions and discussions only grow, and what is written about p grows
\* when it is written.
LEMMA PullsGrow ==
  ASSUME TypeOK, [Next]_vars
  PROVE  /\ \A p \in PRs : Pulls(p) /\ Pulls(p)' /\ Grows(p)
         /\ \A p \in PRs : Describe(p) => pr[p].body < pr'[p].body
         /\ \A p \in PRs : Comment(p) => pr[p].disc < pr'[p].disc
         /\ pr' = pr \/ GitHub \/ People
<1>0. pr \in [PRs -> PullRequest]
  BY DEF TypeOK, GitHubTypes
<1>1. \A p \in PRs : Pulls(p)
  BY <1>0 DEF Pulls, PullRequest
<1>2. \A q \in PullRequest :
        /\ Discussed(q).disc = q.disc + 1 /\ Discussed(q).body = q.body
        /\ Described(q).body = q.body + 1 /\ Described(q).disc = q.disc
        /\ Toggled(q).body = q.body /\ Toggled(q).disc = q.disc
        /\ \A r : [q EXCEPT !.rev = r].body = q.body /\ [q EXCEPT !.rev = r].disc = q.disc
  BY DEF PullRequest, Discussed, Described, Toggled
<1>3. pr' = pr \/ GitHub \/ People
  BY DEF vars, Next, Daemon, Start, Poll, ToReconcile, ListPulls, EndScan, EndQueue, Reconcile,
     LookupFails, Recover, BeginAttempt, Scan, ReadDiscussion, Snapshot, Investigate, Compose,
     Verify, Recheck, Rediscuss, LastPull, Create, Answer, GiveUp, ReviewFails, SetupFails,
     HandleError, Exit, Halt, Operator, Crash, LoseState, Retry, RetryElapses, github
<1>4. ASSUME NEW q \in PRs, NEW e, pr' = [pr EXCEPT ![q] = e],
             e.body \in {pr[q].body, pr[q].body + 1}, e.disc \in {pr[q].disc, pr[q].disc + 1}
      PROVE  \A p \in PRs : Pulls(p)' /\ Grows(p)
  <2>1. \A p \in PRs : pr'[p] = IF p = q THEN e ELSE pr[p]
    BY <1>0, <1>4
  <2>2. Pulls(q)' /\ Grows(q)
    BY <1>1, <1>4, <2>1 DEF Pulls, Grows
  <2>3. \A p \in PRs \ {q} : Pulls(p)' /\ Grows(p)
    BY <1>1, <2>1 DEF Pulls, Grows
  <2> QED BY <2>2, <2>3
<1>5. CASE pr' = pr
  <2>1. \A p \in PRs : Pulls(p)' /\ Grows(p)
    BY <1>1, <1>5 DEF Pulls, Grows
  <2>2. \A p \in PRs : ~Describe(p) /\ ~Comment(p)
    <3> SUFFICES ASSUME NEW p \in PRs, Describe(p) \/ Comment(p) PROVE FALSE
      OBVIOUS
    <3>1. pr'[p] = Described(pr[p]) \/ pr'[p] = Discussed(pr[p])
      BY <1>0 DEF Describe, Comment
    <3>2. pr[p] \in PullRequest /\ pr'[p] = pr[p] /\ pr[p].body \in Nat /\ pr[p].disc \in Nat
      BY <1>0, <1>1, <1>5 DEF Pulls
    <3>3. \/ pr[p].body = pr[p].body + 1
          \/ pr[p].disc = pr[p].disc + 1
      BY <1>2, <3>1, <3>2
    <3> QED BY <3>2, <3>3
  <2> QED BY <1>1, <1>5, <2>1, <2>2
<1>6. CASE GitHub
  <2>1. CASE pr' = pr
    BY <1>5, <2>1
  <2>2. CASE \E k \in JobId : Accept(k)
    <3> PICK k \in JobId : Accept(k)
      BY <2>2
    <3>1. k.pr \in PRs /\ pr' = [pr EXCEPT ![k.pr] = Discussed(pr[k.pr])] /\ pr[k.pr] \in PullRequest
      BY <1>0 DEF Accept, JobId
    <3>2. \A p \in PRs : Pulls(p)' /\ Grows(p)
      BY <1>2, <1>4, <3>1
    <3>3. wire' # wire
      <4>1. Tail(wire[k]) # wire[k]
        BY DEF Accept, TypeOK, GitHubTypes
      <4> QED BY <4>1 DEF Accept, TypeOK, GitHubTypes
    <3>4. \A p \in PRs : ~Describe(p) /\ ~Comment(p)
      BY <3>3 DEF Describe, Comment
    <3> QED BY <1>1, <1>3, <3>2, <3>4
  <2> QED BY <1>6, <2>1, <2>2 DEF GitHub, Reject, Drop
<1>7. CASE People
  <2> PICK q \in PRs : Toggle(q) \/ Describe(q) \/ Comment(q) \/ \E r \in Rev : Push(q, r)
    BY <1>7 DEF People
  <2>1. pr[q] \in PullRequest
    BY <1>0
  <2>2. \A p \in PRs : Pulls(p)' /\ Grows(p)
    <3>1. CASE Toggle(q)
      BY <1>2, <1>4, <2>1, <3>1 DEF Toggle
    <3>2. CASE Describe(q)
      BY <1>2, <1>4, <2>1, <3>2 DEF Describe
    <3>3. CASE Comment(q)
      BY <1>2, <1>4, <2>1, <3>3 DEF Comment
    <3>4. CASE \E r \in Rev : Push(q, r)
      <4> PICK r \in Rev : Push(q, r)
        BY <3>4
      <4> DEFINE e == [pr[q] EXCEPT !.rev = r]
      <4>1. e.body = pr[q].body /\ e.disc = pr[q].disc /\ pr' = [pr EXCEPT ![q] = e]
        BY <1>2, <2>1 DEF Push
      <4> HIDE DEF e
      <4> QED BY <1>4, <4>1
    <3> QED BY <3>1, <3>2, <3>3, <3>4
  <2>3. ASSUME NEW p \in PRs, Describe(p) PROVE pr[p].body < pr'[p].body
    <3>1. pr'[p].body = pr[p].body + 1
      BY <1>0, <1>2, <2>3 DEF Describe
    <3> QED BY <1>1, <3>1 DEF Pulls
  <2>4. ASSUME NEW p \in PRs, Comment(p) PROVE pr[p].disc < pr'[p].disc
    <3>1. pr'[p].disc = pr[p].disc + 1
      BY <1>0, <1>2, <2>4 DEF Comment
    <3> QED BY <1>1, <3>1 DEF Pulls
  <2> QED BY <1>1, <1>3, <2>2, <2>3, <2>4
<1> QED BY <1>3, <1>5, <1>6, <1>7

\* Only a scan queues a job, and only from the queue is one attempted.
Continues == queue' \subseteq queue /\ (pc' \in Reviewing => pc \in Reviewing /\ cur' = cur)

LEMMA QueueStep ==
  ASSUME TypeOK, Located, [Next]_vars,
         ~\E p \in PRs : Scan(p), ~\E k \in JobId : BeginAttempt(k)
  PROVE  Continues
<1> USE DEF Continues
<1>1. queue' \subseteq queue
  BY DEF vars, Next, Daemon, Start, Poll, ToReconcile, ListPulls, EndScan, EndQueue,
     Reconcile, LookupFails, Recover, Take, ReadDiscussion, Snapshot, Investigate, Compose,
     Verify, Recheck, Rediscuss, LastPull, Create, Answer, GiveUp, ReviewFails, SetupFails,
     HandleError, Exit, Halt, Operator, GitHub, Crash, LoseState, Retry, Accept, Reject, Drop,
     People, Toggle, Describe, Comment, Push, RetryElapses, loop
<1>2. CASE \/ ListPulls \/ EndScan \/ EndQueue \/ Exit \/ Crash \/ HandleError \/ Poll
           \/ \E d \in Modes, a \in Accounts : Start(d, a)
           \/ \E k \in JobId : Reconcile(k) \/ LookupFails(k) \/ Recover(k)
  <2>1. pc' \notin Reviewing
    BY <1>2 DEF ListPulls, EndScan, EndQueue, Exit, Crash, Halt, HandleError, Poll, Start,
       ToReconcile, Reconcile, LookupFails, Recover, Take, Reviewing
  <2> QED BY <1>1, <2>1
<1>3. CASE \/ ReadDiscussion \/ Snapshot \/ Investigate \/ Compose \/ Recheck \/ Rediscuss
           \/ LastPull \/ Create \/ Answer \/ GiveUp \/ ReviewFails \/ SetupFails
           \/ \E f \in Findings : Verify(f)
  <2>1. pc \in Reviewing
    BY <1>3 DEF ReadDiscussion, Snapshot, Investigate, Compose, Recheck, Rediscuss, LastPull,
       Create, Answer, GiveUp, ReviewFails, SetupFails, Verify, Reviewing
  <2>2. cur' = cur \/ pc' = "next"
    BY <1>3 DEF ReadDiscussion, Snapshot, Investigate, Compose, Recheck, Rediscuss, LastPull,
       Create, Answer, GiveUp, ReviewFails, SetupFails, Verify, work
  <2> QED BY <1>1, <2>1, <2>2 DEF Reviewing
<1>4. CASE \/ UNCHANGED vars \/ GitHub \/ People \/ LoseState
           \/ \E scope, d : Retry(scope, d)
           \/ \E k \in JobId : RetryElapses(k)
  <2>1. pc' = pc /\ cur' = cur
    BY <1>4 DEF vars, GitHub, Accept, Reject, Drop, People, Toggle, Describe, Comment, Push,
       LoseState, Retry, RetryElapses, work
  <2> QED BY <1>1, <2>1
<1> QED BY <1>2, <1>3, <1>4 DEF Next, Daemon, Operator

\* Only a scan chooses a job.
LEMMA ChosenStep ==
  ASSUME TypeOK, Located, [Next]_vars
  PROVE  \/ Chosen' \subseteq Chosen
         \/ \E p \in PRs : Scan(p) /\ Chosen' = queue'
<1>1. CASE \E p \in PRs : Scan(p)
  BY <1>1 DEF Scan, Chosen, Reviewing
<1>2. CASE \E k \in JobId : BeginAttempt(k)
  BY <1>2 DEF BeginAttempt, Take, Chosen, Reviewing
<1>3. CASE ~(\E p \in PRs : Scan(p)) /\ ~(\E k \in JobId : BeginAttempt(k))
  BY <1>3, QueueStep DEF Continues, Chosen
<1> QED BY <1>1, <1>2, <1>3

LEMMA ChosenTypes ==
  ASSUME TypeOK, Located
  PROVE  /\ Chosen \subseteq JobId
         /\ \A k \in JobId : k.pr \in PRs
         /\ pc \in Reviewing => cur \in Chosen
         /\ pc = "off" => Chosen = {}
  BY DEF TypeOK, LoopTypes, Located, Placed, Chosen, JobId, Reviewing

LEMMA BodyInvStep ==
  ASSUME TypeOK, Located, BodyInv, [Next]_vars
  PROVE  BodyInv'
<1>1. TypeOK' /\ Located'
  BY TypeStep
<1>2. (Chosen \subseteq JobId)' /\ (pc' = "off" => Chosen' = {})
  BY <1>1 DEF TypeOK, LoopTypes, Located, Placed, Chosen, Reviewing
<1>3. \A k \in JobId : k.pr \in PRs /\ Pulls(k.pr) /\ Pulls(k.pr)' /\ Grows(k.pr)
  BY ChosenTypes, PullsGrow
<1> SUFFICES ASSUME NEW k \in Chosen'
             PROVE  jobs'[k].body \in Nat /\ jobs'[k].body <= pr'[k.pr].body
  BY DEF BodyInv
<1>4. k \in JobId /\ k.pr \in PRs /\ Pulls(k.pr) /\ Pulls(k.pr)' /\ Grows(k.pr)
  BY <1>2, <1>3
<1>5. jobs'[k].body \in {jobs[k].body, pr[k.pr].body} /\ (k \in Chosen \/ jobs'[k].body = pr[k.pr].body)
  <2>1. CASE \E p \in PRs : Scan(p)
    <3>1. Chosen' = queue' /\ queue \subseteq Chosen
      BY <2>1 DEF Scan, Chosen, Reviewing
    <3> QED BY <1>4, <2>1, <3>1, ScanBodies
  <2>2. CASE BodiesKept /\ ~\E p \in PRs : Scan(p)
    BY <1>4, <2>2, ChosenStep DEF BodiesKept
  <2> QED BY <1>2, <2>1, <2>2, BodyStep
<1> HIDE DEF Chosen
<1> QED BY <1>4, <1>5 DEF BodyInv, Pulls, Grows

\* Within an attempt the job, its description and, once read, the discussion
\* stay what they are, while those of the pull request only grow.
Compared == {"snapshot", "investigate", "verify", "recheck", "rediscuss"}

LEMMA AttemptStep ==
  ASSUME TypeOK, Located, [Next]_vars, pc' \in Compared \cup {"lastpull", "create", "await"}
  PROVE  /\ pc \in Reviewing /\ cur' = cur /\ cur \in JobId /\ cur.pr \in PRs
         /\ pc \in Compared => hist' = hist
         /\ jobs'[cur].body = jobs[cur].body
         /\ Pulls(cur.pr) /\ Pulls(cur.pr)' /\ Grows(cur.pr)
<1>1. CASE \/ ReadDiscussion \/ Snapshot \/ Investigate \/ Compose \/ Recheck \/ Rediscuss
           \/ LastPull \/ Create \/ \E f \in Findings : Verify(f)
  <2>1. pc \in Reviewing
    BY <1>1 DEF ReadDiscussion, Snapshot, Investigate, Compose, Recheck, Rediscuss, LastPull,
       Create, Verify, Reviewing
  <2>2. cur' = cur /\ (pc # "review" => hist' = hist)
    BY <1>1 DEF ReadDiscussion, Snapshot, Investigate, Compose, Recheck, Rediscuss, LastPull,
       Create, Verify, work, Compared
  <2>3. BodiesKept
    <3>1. ~\E p \in PRs : Scan(p)
      BY <2>1 DEF Scan, Reviewing
    <3> QED BY <3>1, BodyStep DEF Compared
  <2> QED BY <2>1, <2>2, <2>3, CurType, PullsGrow DEF BodiesKept, Compared
<1>2. CASE \/ UNCHANGED vars \/ GitHub \/ People \/ \E k \in JobId : RetryElapses(k)
  <2>1. pc' = pc /\ cur' = cur /\ hist' = hist
    BY <1>2 DEF vars, GitHub, Accept, Reject, Drop, People, Toggle, Describe, Comment, Push,
       RetryElapses, work
  <2>2. pc \in Reviewing
    BY <2>1 DEF Compared, Reviewing
  <2>3. BodiesKept
    <3>1. ~\E p \in PRs : Scan(p)
      BY <2>2 DEF Scan, Reviewing
    <3> QED BY <3>1, BodyStep DEF Compared
  <2> QED BY <2>1, <2>2, <2>3, CurType, PullsGrow DEF BodiesKept
<1>3. \/ ReadDiscussion \/ Snapshot \/ Investigate \/ Compose \/ Recheck \/ Rediscuss
      \/ LastPull \/ Create \/ \E f \in Findings : Verify(f)
      \/ UNCHANGED vars \/ GitHub \/ People \/ \E k \in JobId : RetryElapses(k)
  <2>1. CASE ListPulls \/ EndScan \/ EndQueue \/ Exit \/ Crash \/ HandleError
    BY <2>1 DEF ListPulls, EndScan, EndQueue, Exit, Crash, Halt, HandleError, Compared
  <2>4. CASE Poll \/ \E d \in Modes, a \in Accounts : Start(d, a)
    BY <2>4 DEF Poll, Start, ToReconcile, Compared
  <2>5. CASE \E k \in JobId : Reconcile(k) \/ LookupFails(k) \/ Recover(k) \/ BeginAttempt(k)
    BY <2>5 DEF Reconcile, LookupFails, Recover, BeginAttempt, Take, Compared
  <2>6. CASE \E p \in PRs : Scan(p)
    BY <2>6 DEF Scan, Compared
  <2>2. CASE Answer \/ GiveUp \/ ReviewFails \/ SetupFails
    BY <2>2 DEF Answer, GiveUp, ReviewFails, SetupFails, Compared
  <2>3. CASE LoseState \/ \E scope, d : Retry(scope, d)
    BY <2>3 DEF LoseState, Retry, Compared
  <2> QED BY <2>1, <2>2, <2>3, <2>4, <2>5, <2>6 DEF Next, Daemon, Operator
<1> QED BY <1>1, <1>2, <1>3

\* What is missed is written about the pull request of the attempt.
LEMMA MissStep ==
  ASSUME TypeOK, Located, [Next]_vars, pc' \in Compared, missed', ~missed
  PROVE  pr[cur.pr].body < pr'[cur.pr].body \/ pr[cur.pr].disc < pr'[cur.pr].disc
<1>1. People
  BY DEF vars, Next, Daemon, Start, Poll, ToReconcile, ListPulls, EndScan, EndQueue,
     Reconcile, LookupFails, Recover, BeginAttempt, Scan, Take, ReadDiscussion, Snapshot,
     Investigate, Compose, Verify, Recheck, Rediscuss, LastPull, Create, Answer, GiveUp,
     ReviewFails, SetupFails, HandleError, Exit, Halt, Operator, GitHub, Crash, LoseState, Retry,
     Accept, Reject, Drop, RetryElapses
<1>2. PICK p \in PRs : (Describe(p) \/ Comment(p)) /\ AtWorkOn(p)
  BY <1>1 DEF People, Toggle, Push, Describe, Comment
<1>3. cur.pr = p
  BY <1>2 DEF AtWorkOn
<1> QED BY <1>2, <1>3, PullsGrow

\* What the comparison before the publication finds.
LEMMA Comparisons ==
  ASSUME TypeOK, Located, [Next]_vars
  PROVE  /\ pc' = "snapshot" => \/ pc = "review" /\ hist' = pr[cur.pr].disc /\ missed' = missed
                                \/ pc = "snapshot"
         /\ pc' = "rediscuss" => \/ /\ pc = "recheck" /\ pr[cur.pr].body = jobs[cur].body
                                    /\ pr' = pr /\ missed' = missed
                                 \/ pc = "rediscuss"
         /\ pc' = "lastpull" => \/ pc = "rediscuss" /\ pr[cur.pr].disc = hist /\ missed' = missed
                                \/ pc = "lastpull"
         /\ pc' \in {"investigate", "verify", "recheck"} =>
              pc \in {"snapshot", "investigate", "verify", "recheck"}
         /\ pc' \in {"create", "await"} => pc \in {"lastpull", "create", "await"}
         /\ pc' = "review" => pc = "review" \/ ~missed'
<1> USE DEF Take, Compared
<1>1. CASE ReadDiscussion \/ Snapshot \/ Investigate \/ Compose \/ \E f \in Findings : Verify(f)
  BY <1>1 DEF ReadDiscussion, Snapshot, Investigate, Compose, Verify, PR
<1>2. CASE Recheck \/ Rediscuss \/ LastPull \/ Create \/ Answer
  BY <1>2 DEF Recheck, Rediscuss, LastPull, Create, Answer, PR, github
<1>3. CASE GiveUp \/ ReviewFails \/ SetupFails \/ HandleError \/ Exit \/ Crash
  BY <1>3 DEF GiveUp, ReviewFails, SetupFails, HandleError, Exit, Crash, Halt
<1>4. CASE ListPulls \/ EndScan \/ EndQueue \/ Poll \/ \E d \in Modes, a \in Accounts : Start(d, a)
  BY <1>4 DEF ListPulls, EndScan, EndQueue, Poll, Start, ToReconcile
<1>5. CASE \E k \in JobId : Reconcile(k) \/ LookupFails(k) \/ Recover(k) \/ BeginAttempt(k)
  BY <1>5 DEF Reconcile, LookupFails, Recover, BeginAttempt
<1>6. CASE \E p \in PRs : Scan(p)
  BY <1>6 DEF Scan
<1>7. CASE \/ UNCHANGED vars \/ GitHub \/ People \/ LoseState
           \/ \E scope, d : Retry(scope, d)
           \/ \E k \in JobId : RetryElapses(k)
  <2>1. pc' = pc
    BY <1>7 DEF vars, GitHub, Accept, Reject, Drop, People, Toggle, Describe, Comment, Push,
       LoseState, Retry, RetryElapses
  <2> QED BY <2>1
<1> QED BY <1>1, <1>2, <1>3, <1>4, <1>5, <1>6, <1>7 DEF Next, Daemon, Operator

\* Outside of the agents' work nothing is counted as missed.
LEMMA MissedOnlyAtWork ==
  ASSUME TypeOK, [Next]_vars, missed', ~missed
  PROVE  pc \in {"snapshot", "investigate", "verify"} /\ pc' = pc
  BY DEF vars, Next, Daemon, Start, Poll, ToReconcile, ListPulls, EndScan, EndQueue,
     Reconcile, LookupFails, Recover, BeginAttempt, Scan, Take, ReadDiscussion, Snapshot,
     Investigate, Compose, Verify, Recheck, Rediscuss, LastPull, Create, Answer, GiveUp,
     ReviewFails, SetupFails, HandleError, Exit, Halt, Operator, GitHub, Crash, LoseState, Retry,
     Accept, Reject, Drop, People, Toggle, Describe, Comment, Push, RetryElapses, AtWorkOn

LEMMA HistMissStep ==
  ASSUME TypeOK, Located, ContextInv, [Next]_vars
  PROVE  HistInv' /\ MissInv'
<1>1. missed \in BOOLEAN /\ missed' \in BOOLEAN
  BY TypeStep DEF TypeOK, BudgetTypes
<1>2. ASSUME pc' = "review" PROVE ~missed'
  BY <1>1, <1>2, Comparisons, MissedOnlyAtWork DEF ContextInv, MissInv
<1>3. ASSUME pc' \in {"lastpull", "create", "await"} PROVE ~missed'
  <2>1. ~missed
    BY <1>1, <1>3, Comparisons, AttemptStep DEF ContextInv, HistInv, MissInv, Pulls
  <2> QED BY <1>1, <1>3, <2>1, MissedOnlyAtWork
<1>4. ASSUME pc' \in Compared PROVE hist' \in Nat /\ hist' <= pr'[cur'.pr].disc
  <2>1. cur' = cur /\ Pulls(cur.pr) /\ Pulls(cur.pr)' /\ Grows(cur.pr)
    BY <1>4, AttemptStep
  <2>2. hist' \in Nat /\ hist' <= pr[cur.pr].disc
    <3>1. CASE pc \in Compared
      BY <1>4, <3>1, AttemptStep DEF ContextInv, HistInv, Compared
    <3>2. CASE pc \notin Compared
      BY <1>4, <2>1, <3>2, Comparisons DEF Compared, Pulls
    <3> QED BY <3>1, <3>2
  <2> QED BY <2>1, <2>2 DEF Pulls, Grows
<1>5. ASSUME pc' \in Compared, missed'
      PROVE  \/ hist' < pr'[cur'.pr].disc
             \/ pc' # "rediscuss" /\ jobs'[cur'].body < pr'[cur'.pr].body
  <2>1. /\ cur' = cur /\ Pulls(cur.pr) /\ Pulls(cur.pr)' /\ Grows(cur.pr)
        /\ jobs'[cur].body = jobs[cur].body /\ pc \in Reviewing
        /\ pc \in Compared => hist' = hist
    BY <1>5, AttemptStep
  <2>2. jobs[cur].body \in Nat /\ jobs[cur].body <= pr[cur.pr].body
    BY <2>1 DEF ContextInv, BodyInv, Chosen
  <2>3. pc \in Compared
    BY <1>1, <1>5, Comparisons, MissedOnlyAtWork DEF Compared, ContextInv, MissInv
  <2>4. hist \in Nat /\ hist <= pr[cur.pr].disc /\ hist' = hist
    BY <2>1, <2>3 DEF ContextInv, HistInv, Compared
  <2>5. CASE ~missed
    <3>1. pc' # "rediscuss"
      BY <2>5, <1>5, MissedOnlyAtWork
    <3>2. pr[cur.pr].body < pr'[cur.pr].body \/ pr[cur.pr].disc < pr'[cur.pr].disc
      BY <1>5, <2>5, MissStep
    <3> QED BY <2>1, <2>2, <2>4, <3>1, <3>2 DEF Pulls
  <2>6. CASE missed
    <3>1. \/ hist < pr[cur.pr].disc
          \/ pc # "rediscuss" /\ jobs[cur].body < pr[cur.pr].body
      BY <2>3, <2>6 DEF ContextInv, MissInv, Compared
    <3>2. CASE hist < pr[cur.pr].disc
      BY <2>1, <2>4, <3>2 DEF Pulls, Grows
    <3>3. CASE pc # "rediscuss" /\ jobs[cur].body < pr[cur.pr].body
      <4>1. pc' # "rediscuss"
        BY <2>1, <2>2, <3>3, Comparisons DEF Pulls
      <4> QED BY <2>1, <2>2, <3>3, <4>1 DEF Pulls, Grows
    <3> QED BY <3>1, <3>2, <3>3
  <2> QED BY <1>1, <2>5, <2>6
<1> QED BY <1>2, <1>3, <1>4, <1>5 DEF HistInv, MissInv, Compared

LEMMA ContextInit == Init => ContextInv
  BY DEF Init, ContextInv, BodyInv, HistInv, MissInv, Chosen, Reviewing

\* An attempt goes on to create from its last read of the pull request only.
LEMMA CreateFollows ==
  ASSUME TypeOK, Located, [Next]_vars, pc # "create", pc' = "create"
  PROVE  pc = "lastpull" /\ Current
<1>1. pc \in {"lastpull", "await"}
  BY Comparisons
<1> USE <1>1 DEF Take
<1>2. CASE ReadDiscussion \/ Snapshot \/ Investigate \/ Compose \/ \E f \in Findings : Verify(f)
  BY <1>2 DEF ReadDiscussion, Snapshot, Investigate, Compose, Verify
<1>3. CASE Recheck \/ Rediscuss \/ Create \/ Answer
  BY <1>3 DEF Recheck, Rediscuss, Create, Answer
<1>4. CASE LastPull
  BY <1>4 DEF LastPull
<1>5. CASE GiveUp \/ ReviewFails \/ SetupFails \/ HandleError \/ Exit \/ Crash
  BY <1>5 DEF GiveUp, ReviewFails, SetupFails, HandleError, Exit, Crash, Halt
<1>6. CASE ListPulls \/ EndScan \/ EndQueue \/ Poll \/ \E d \in Modes, a \in Accounts : Start(d, a)
  BY <1>6 DEF ListPulls, EndScan, EndQueue, Poll, Start, ToReconcile
<1>7. CASE \E k \in JobId : Reconcile(k) \/ LookupFails(k) \/ Recover(k) \/ BeginAttempt(k)
  BY <1>7 DEF Reconcile, LookupFails, Recover, BeginAttempt
<1>8. CASE \E p \in PRs : Scan(p)
  BY <1>8 DEF Scan
<1>9. CASE \/ UNCHANGED vars \/ GitHub \/ People \/ LoseState
           \/ \E scope, d : Retry(scope, d)
           \/ \E k \in JobId : RetryElapses(k)
  <2>1. pc' = pc
    BY <1>9 DEF vars, GitHub, Accept, Reject, Drop, People, Toggle, Describe, Comment, Push,
       LoseState, Retry, RetryElapses
  <2> QED BY <2>1
<1> QED BY <1>2, <1>3, <1>4, <1>5, <1>6, <1>7, <1>8, <1>9 DEF Next, Daemon, Operator

\* However the discussion grows, descriptions change and pull requests are
\* pushed to or closed, a review goes out only if the agents that wrote it were
\* given all that was said, and for a revision that is still wanted when it is
\* read last (run.go: review compares the description and then the discussion,
\* and reads the pull request once more, before it saves the intent).
THEOREM NothingIsMissed == Spec => NothingMissedIsPosted
<1>1. Init => TypeOK /\ Located /\ ContextInv
  BY TypeInit, LocatedInit, ContextInit
<1>2. TypeOK /\ Located /\ ContextInv /\ [Next]_vars => (TypeOK /\ Located /\ ContextInv)'
  BY TypeStep, BodyInvStep, HistMissStep DEF ContextInv
<1>3. TypeOK /\ Located /\ ContextInv /\ [Next]_vars => [pc # "create" /\ pc' = "create" => ~missed /\ Current]_vars
  <2> SUFFICES ASSUME TypeOK, Located, ContextInv, [Next]_vars, pc # "create", pc' = "create"
               PROVE  ~missed /\ Current
    OBVIOUS
  <2>1. pc = "lastpull" /\ Current
    BY CreateFollows
  <2> QED BY <2>1 DEF ContextInv, MissInv
<1> QED BY <1>1, <1>2, <1>3, PTL DEF Spec, NothingMissedIsPosted

-----------------------------------------------------------------------------
(***************************************************************************)
(* Pull requests whose publications are uncertain.                         *)
(***************************************************************************)

\* The queue holds one job of a pull request, which the scan is done with.
OneEach ==
  /\ \A k, m \in queue : k.pr = m.pr => k = m
  /\ pc = "scan" => \A k \in queue : k.pr \notin listed
  /\ pc \in Reviewing => \A k \in queue : k.pr # cur.pr

\* No job of the queue is one of an uncertain pull request.
QueueIsCertain == \A k \in queue : ~Uncertain(k.pr)

CertainInv == OneEach /\ QueueIsCertain /\ NoWorkWhileUncertain

LEMMA ScanQueue ==
  ASSUME TypeOK, Located, NEW p \in PRs, Scan(p)
  PROVE  /\ pc' = "scan" /\ pc = "scan" /\ p \in listed /\ listed' = listed \ {p}
         /\ \A k \in queue' : k \in queue \/ (k.pr = p /\ ~Uncertain(p))
         /\ \A k, m \in queue' : k \notin queue /\ m \notin queue => k = m
  BY DEF Scan

LEMMA BeginQueue ==
  ASSUME TypeOK, Located, NEW k \in JobId, BeginAttempt(k)
  PROVE  /\ pc = "next" /\ k \in queue /\ queue' \subseteq queue \ {k}
         /\ pc' \in {"review", "idle"}
         /\ pc' = "review" => cur' = k
  BY DEF BeginAttempt, Take

\* The scan begins with an empty queue.
LEMMA ScanBegins ==
  ASSUME TypeOK, Located, [Next]_vars, pc' = "scan", ~\E p \in PRs : Scan(p)
  PROVE  queue' = {} \/ (pc = "scan" /\ UNCHANGED <<queue, listed>>)
<1>1. CASE ListPulls
  BY <1>1 DEF ListPulls, Located, Placed, Reviewing
<1>2. CASE \/ EndScan \/ EndQueue \/ Exit \/ Crash \/ HandleError \/ Poll
           \/ \E d \in Modes, a \in Accounts : Start(d, a)
  BY <1>2 DEF EndScan, EndQueue, Exit, Crash, Halt, HandleError, Poll, Start, ToReconcile
<1>3. CASE \E k \in JobId : Reconcile(k) \/ LookupFails(k) \/ Recover(k) \/ BeginAttempt(k)
  BY <1>3 DEF Reconcile, LookupFails, Recover, BeginAttempt, Take
<1>4. CASE \/ ReadDiscussion \/ Snapshot \/ Investigate \/ Compose \/ Recheck \/ Rediscuss
           \/ LastPull \/ Create \/ Answer \/ GiveUp \/ ReviewFails \/ SetupFails
           \/ \E f \in Findings : Verify(f)
  BY <1>4 DEF ReadDiscussion, Snapshot, Investigate, Compose, Recheck, Rediscuss, LastPull,
     Create, Answer, GiveUp, ReviewFails, SetupFails, Verify
<1>5. CASE \/ UNCHANGED vars \/ GitHub \/ People \/ LoseState
           \/ \E scope, d : Retry(scope, d)
           \/ \E k \in JobId : RetryElapses(k)
  BY <1>5 DEF vars, GitHub, Accept, Reject, Drop, People, Toggle, Describe, Comment, Push,
     LoseState, Retry, RetryElapses, loop
<1> QED BY <1>1, <1>2, <1>3, <1>4, <1>5 DEF Next, Daemon, Operator

LEMMA OneEachStep ==
  ASSUME TypeOK, Located, OneEach, [Next]_vars
  PROVE  OneEach'
<1>1. CASE \E p \in PRs : Scan(p)
  <2> PICK p \in PRs : Scan(p)
    BY <1>1
  <2>1. \A k, m \in queue' : k.pr = m.pr => k = m
    BY ScanQueue DEF OneEach
  <2>2. \A k \in queue' : k.pr \notin listed'
    BY ScanQueue DEF OneEach
  <2>3. pc' \notin Reviewing
    BY ScanQueue DEF Reviewing
  <2> QED BY <2>1, <2>2, <2>3 DEF OneEach
<1>2. CASE \E k \in JobId : BeginAttempt(k)
  BY <1>2, BeginQueue DEF OneEach, Reviewing
<1>3. CASE ~(\E p \in PRs : Scan(p)) /\ ~(\E k \in JobId : BeginAttempt(k))
  <2>1. queue' \subseteq queue /\ (pc' \in Reviewing => pc \in Reviewing /\ cur' = cur)
    BY <1>3, QueueStep DEF Continues
  <2>2. pc' = "scan" => \A k \in queue' : k.pr \notin listed'
    BY <1>3, ScanBegins DEF OneEach
  <2> QED BY <2>1, <2>2 DEF OneEach
<1> QED BY <1>1, <1>2, <1>3

LEMMA CertainStep ==
  ASSUME TypeOK, Located, LoadInv, CertainInv, [Next]_vars
  PROVE  QueueIsCertain' /\ NoWorkWhileUncertain'
<1>1. Intents
  BY FullStep
<1>2. pc' = "off" => queue' = {} /\ pc' \notin Reviewing
  BY TypeStep DEF Located, Placed, Reviewing
<1>3. queue \subseteq JobId /\ (pc \in Reviewing => cur \in JobId)
  BY DEF TypeOK, LoopTypes, Located, Placed
<1>4. ASSUME NEW k \in JobId, ~Uncertain(k.pr), pc # "lastpull" \/ k.pr # cur.pr, pc' # "off"
      PROVE  ~Uncertain(k.pr)'
  BY <1>1, <1>4 DEF Uncertain, Intents, NewIntent
<1>5. CASE \E p \in PRs : Scan(p)
  <2> PICK p \in PRs : Scan(p)
    BY <1>5
  <2>1. pc' \notin Reviewing /\ pc = "scan" /\ queue' \subseteq JobId
    BY ScanQueue, TypeStep DEF Reviewing, TypeOK, LoopTypes
  <2>2. \A k \in queue' : ~Uncertain(k.pr)
    BY ScanQueue DEF CertainInv, QueueIsCertain
  <2>3. \A k \in queue' : ~Uncertain(k.pr)'
    BY <1>2, <1>4, <2>1, <2>2
  <2> QED BY <2>1, <2>3 DEF QueueIsCertain, NoWorkWhileUncertain
<1>6. CASE \E k \in JobId : BeginAttempt(k)
  <2> PICK k \in JobId : BeginAttempt(k)
    BY <1>6
  <2>1. pc = "next" /\ k \in queue /\ queue' \subseteq queue
        /\ pc' # "off" /\ (pc' \in Reviewing => cur' = k)
    BY BeginQueue DEF Reviewing
  <2>2. \A m \in queue : ~Uncertain(m.pr)'
    BY <1>3, <1>4, <2>1 DEF CertainInv, QueueIsCertain
  <2>3. pc' \in Reviewing =>
          \A m \in JobId \ {k} : m.pr = k.pr /\ ~m.dry => jobs'[m].status # "posting"
    BY <2>1, <2>2 DEF Uncertain
  <2> QED BY <2>1, <2>2, <2>3 DEF QueueIsCertain, NoWorkWhileUncertain
<1>7. CASE ~(\E p \in PRs : Scan(p)) /\ ~(\E k \in JobId : BeginAttempt(k))
  <2>1. queue' \subseteq queue /\ (pc' \in Reviewing => pc \in Reviewing /\ cur' = cur)
    BY <1>7, QueueStep DEF Continues
  <2>2. ASSUME NEW k \in queue' PROVE ~Uncertain(k.pr)'
    <3>1. k \in queue /\ k \in JobId /\ ~Uncertain(k.pr) /\ pc' # "off"
      BY <1>2, <1>3, <2>1 DEF CertainInv, QueueIsCertain
    <3>2. pc = "lastpull" => k.pr # cur.pr
      BY <3>1 DEF CertainInv, OneEach, Reviewing
    <3> QED BY <1>4, <3>1, <3>2
  <2>3. ASSUME pc' \in Reviewing, NEW m \in JobId \ {cur}, m.pr = cur.pr, ~m.dry
        PROVE  jobs'[m].status # "posting"
    <3>1. jobs[m].status # "posting"
      BY <2>1, <2>3 DEF CertainInv, NoWorkWhileUncertain
    <3> QED BY <1>1, <1>2, <2>3, <3>1 DEF Intents, NewIntent
  <2> QED BY <2>1, <2>2, <2>3 DEF QueueIsCertain, NoWorkWhileUncertain
<1> QED BY <1>5, <1>6, <1>7

LEMMA CertainInit == Init => CertainInv
  BY DEF Init, CertainInv, OneEach, QueueIsCertain, NoWorkWhileUncertain, Reviewing

\* While a review of one revision may or may not be on GitHub, no other attempt
\* is made on its pull request: the scan leaves it out, the queue holds each
\* pull request once, and only the attempt under way makes an intent (run.go:
\* step's test of blocked).
THEOREM UncertaintyHoldsWork == Spec => []NoWorkWhileUncertain
<1>1. Init => TypeOK /\ Located /\ LoadInv /\ CertainInv
  BY TypeInit, LocatedInit, LoadInit, CertainInit
<1>2. TypeOK /\ Located /\ LoadInv /\ CertainInv /\ [Next]_vars =>
        (TypeOK /\ Located /\ LoadInv /\ CertainInv)'
  BY TypeStep, LoadStep, OneEachStep, CertainStep DEF CertainInv
<1>3. CertainInv => NoWorkWhileUncertain
  BY DEF CertainInv
<1> QED BY <1>1, <1>2, <1>3, PTL DEF Spec

-----------------------------------------------------------------------------
(***************************************************************************)
(* One review on storage that fails.                                       *)
(***************************************************************************)

\* Where an attempt has yet to send its request, or found it need not.
Unsent == Reviewing \ {"await", "error"}

\* The job e is the intent of the request r.
Carries(e, r) == e.status = "posting" /\ e.payload = r.found /\ e.actor = r.by

\* A request under way has its intent in memory and in the file; an attempt
\* that has not sent its request is the only one there ever was.
SingleInv ==
  /\ AtMostOnce
  /\ \A k \in JobId : wire[k] # <<>> => Carries(jobs[k], Head(wire[k])) /\ Carries(disk[k], Head(wire[k]))
  /\ pc \in Unsent => Nowhere(cur)
  /\ pc = "create" => Same(jobs[cur], disk[cur]) /\ jobs[cur].actor = account
  /\ pc = "await" /\ reply # "none" => wire[cur] = <<>>

\* The operator logs in with one account.
OneAccount == \A a, b \in Accounts : a = b

LEMMA Requests ==
  ASSUME TypeOK, AtMostOnce, NEW k \in JobId
  PROVE  /\ posted[k] \in Seq(Review) /\ wire[k] \in Seq(Review)
         /\ wire[k] # <<>> => ~k.dry /\ posted[k] = <<>> /\ Tail(wire[k]) = <<>>
         /\ k.dry => Nowhere(k)
<1>1. posted[k] \in Seq(Review) /\ wire[k] \in Seq(Review)
  BY DEF TypeOK, GitHubTypes
<1>2. Len(posted[k]) \in Nat /\ Len(wire[k]) \in Nat
  BY <1>1, LenProperties
<1>3. k.dry => Nowhere(k)
  <2> DEFINE m == Len(posted[k])
             n == Len(wire[k])
  <2>1. k.dry => m + n <= 0
    BY DEF AtMostOnce
  <2>2. m \in Nat /\ n \in Nat
    BY <1>2
  <2> HIDE DEF m, n
  <2>3. k.dry => m = 0 /\ n = 0
    BY <2>1, <2>2
  <2>4. k.dry => Len(posted[k]) = 0 /\ Len(wire[k]) = 0
    BY <2>3 DEF m, n
  <2> QED BY <1>1, <2>4, EmptySeq DEF Nowhere
<1>4. wire[k] # <<>> => ~k.dry /\ Len(posted[k]) + Len(wire[k]) <= 1
  BY <1>3 DEF AtMostOnce, Nowhere
<1> QED BY <1>1, <1>3, <1>4, OneRequest

\* A review found for k leaves no request for k.
LEMMA FoundAlone ==
  ASSUME TypeOK, AtMostOnce, NEW k \in JobId, Mine(k) # {}
  PROVE  wire[k] = <<>>
<1>1. posted[k] # <<>>
  BY DEF Mine
<1> QED BY <1>1, Requests

\* An intent is given up only when nothing can come of it any more.
LEMMA IntentStays ==
  ASSUME TypeOK, Located, CertainInv, SingleInv, [Next]_vars, NEW k \in JobId, wire[k] # <<>>
  PROVE  Carries(jobs'[k], Head(wire[k])) /\ Carries(disk'[k], Head(wire[k]))
<1> DEFINE r == Head(wire[k])
           Goal == Carries(jobs'[k], r) /\ Carries(disk'[k], r)
<1>0. /\ jobs \in [JobId -> Job] /\ disk \in [JobId -> Job]
      /\ Carries(jobs[k], r) /\ Carries(disk[k], r)
      /\ jobs[k].status = "posting" /\ disk[k].status = "posting"
      /\ ~k.dry /\ posted[k] = <<>>
  BY Requests DEF TypeOK, StoreTypes, SingleInv, Carries
<1> SUFFICES Goal
  OBVIOUS
<1> HIDE DEF r
<1> USE DEF Carries
<1>1. CASE UNCHANGED store
  BY <1>0, <1>1 DEF store
<1>2. ASSUME NEW m \in JobId, m # k, NEW e, jobs' = [jobs EXCEPT ![m] = e],
             disk' = disk \/ disk' = [jobs EXCEPT ![m] = e]
      PROVE  Goal
  BY <1>0, <1>2
<1>3. /\ pc \in Reviewing => cur \in JobId
      /\ pc \in Unsent => cur # k
      /\ pc = "await" /\ reply # "none" => cur # k
  BY DEF Located, Placed, SingleInv, Nowhere
<1>4. Uncertain(k.pr) /\ k \notin queue
  BY <1>0 DEF Uncertain, CertainInv, QueueIsCertain
<1>5. ASSUME NEW m \in JobId, Reconcile(m) PROVE Goal
  <2>1. Mine(k) = {}
    BY FoundAlone DEF SingleInv
  <2>2. \/ UNCHANGED store
        \/ /\ m # k /\ jobs' = [jobs EXCEPT ![m] = With(@, "submitted")]
           /\ disk' = disk \/ disk' = [jobs EXCEPT ![m] = With(@, "submitted")]
    BY <1>5, <2>1, Written DEF Reconcile
  <2> QED BY <1>1, <1>2, <2>2
<1>6. ASSUME NEW p \in PRs, Scan(p) PROVE Goal
  <2> DEFINE m == [pr |-> p, rev |-> pr[p].rev, dry |-> dry]
  <2>1. Superseded(p, m.rev)[k] = jobs[k] /\ Superseded(p, m.rev) \in [JobId -> Job]
    BY <1>0, SupersededType
  <2>2. /\ disk' = disk
        /\ \/ jobs' = jobs \/ jobs' = Superseded(p, m.rev)
           \/ /\ ~Uncertain(p)
              /\ \E e : jobs' = [Superseded(p, m.rev) EXCEPT ![m] = e]
    BY <1>6 DEF Scan
  <2>3. ~Uncertain(p) => m # k
    BY <1>4
  <2> HIDE DEF m
  <2> QED BY <1>0, <2>1, <2>2, <2>3
<1>7. CASE EndScan
  BY <1>0, <1>7, Written DEF EndScan
<1>8. ASSUME NEW m \in JobId, Recover(m) \/ BeginAttempt(m) PROVE Goal
  <2>1. m # k
    BY <1>4, <1>8 DEF Recover, BeginAttempt, Take
  <2>2. \E e : /\ jobs' = [jobs EXCEPT ![m] = e]
               /\ disk' = disk \/ disk' = [jobs EXCEPT ![m] = e]
    BY <1>8, Written DEF Recover, BeginAttempt
  <2> QED BY <1>2, <2>1, <2>2
<1>9. CASE Compose \/ Rediscuss \/ LastPull \/ Create \/ Answer \/ \E f \in Findings : Verify(f)
  <2>1. pc \in Unsent \/ (pc = "await" /\ reply # "none")
    BY <1>9 DEF Compose, Rediscuss, LastPull, Create, Answer, Verify, Unsent, Reviewing
  <2>2. UNCHANGED store \/ \E e : /\ jobs' = [jobs EXCEPT ![cur] = e]
                                  /\ disk' = disk \/ disk' = [jobs EXCEPT ![cur] = e]
    BY <1>9, Written DEF Compose, Rediscuss, LastPull, Create, Answer, Verify, store
  <2>3. cur \in JobId /\ cur # k
    BY <1>3, <2>1 DEF Unsent, Reviewing
  <2> QED BY <1>1, <1>2, <2>2, <2>3
<1>10. CASE HandleError
  <2>1. /\ cur \in JobId /\ jobs' = [jobs EXCEPT ![cur] = Failed(jobs[cur])]
        /\ disk' = disk \/ disk' = [jobs EXCEPT ![cur] = Failed(jobs[cur])]
    BY <1>3, <1>10, Written DEF HandleError, Reviewing
  <2>2. CASE cur = k
    <3>1. pc = "error"
      BY <1>3, <1>10, <2>2 DEF HandleError, Unsent, Reviewing
    <3>2. Failed(jobs[cur]) = jobs[cur]
      BY <1>0, <2>2, <3>1 DEF Failed
    <3> QED BY <1>0, <2>1, <2>2, <3>2
  <2> QED BY <1>2, <2>1, <2>2
<1>11. CASE Exit \/ Crash
  BY <1>0, <1>11 DEF Exit, Crash, Halt
<1>12. ASSUME NEW scope, NEW d, Retry(scope, d) PROVE Goal
  BY <1>0, <1>12 DEF Retry, Saves
<1>13. ASSUME NEW m \in JobId, RetryElapses(m) PROVE Goal
  <2>1. /\ Carries(jobs[m], r) => Carries([jobs[m] EXCEPT !.wait = FALSE], r)
        /\ Carries(disk[m], r) => Carries([disk[m] EXCEPT !.wait = FALSE], r)
    BY <1>0, FieldTypes, IntentFields DEF Carries
  <2>2. /\ jobs' = [jobs EXCEPT ![m] = [jobs[m] EXCEPT !.wait = FALSE]]
        /\ disk' = [disk EXCEPT ![m] = [disk[m] EXCEPT !.wait = FALSE]]
    BY <1>13 DEF RetryElapses
  <2> QED BY <1>0, <2>1, <2>2
<1>14. ~LoseState
  BY DEF LoseState
<1> QED BY <1>1, <1>5, <1>6, <1>7, <1>8, <1>9, <1>10, <1>11, <1>12, <1>13, <1>14, Writers
           DEF vars, store, r

\* Requests are sent by Create and answered by GitHub.
LEMMA WireStep ==
  ASSUME [Next]_vars
  PROVE  Create \/ GitHub \/ UNCHANGED <<posted, wire>>
  BY DEF vars, Next, Daemon, Start, Poll, ToReconcile, ListPulls, EndScan, EndQueue, Reconcile,
     LookupFails, Recover, BeginAttempt, Scan, ReadDiscussion, Snapshot, Investigate, Compose,
     Verify, Recheck, Rediscuss, LastPull, Answer, GiveUp, ReviewFails, SetupFails,
     HandleError, Exit, Halt, Operator, Crash, LoseState, Retry, RetryElapses, People, Toggle,
     Describe, Comment, Push, github

\* GitHub turns the only request for k into the only review of k, or forgets it.
LEMMA GitHubAnswers ==
  ASSUME TypeOK, AtMostOnce, NEW k \in JobId, Accept(k) \/ Reject(k) \/ Drop(k)
  PROVE  /\ ~k.dry /\ wire[k] # <<>> /\ wire'[k] = <<>>
         /\ Len(posted'[k]) <= 1
         /\ \A m \in JobId \ {k} : posted'[m] = posted[m] /\ wire'[m] = wire[m]
<1>1. posted \in [JobId -> Seq(Review)] /\ wire \in [JobId -> Seq(Review)]
  BY DEF TypeOK, GitHubTypes
<1>2. /\ wire[k] # <<>> /\ ~k.dry /\ posted[k] = <<>> /\ Tail(wire[k]) = <<>>
      /\ wire' = [wire EXCEPT ![k] = Tail(@)]
      /\ posted' = posted \/ posted' = [posted EXCEPT ![k] = Append(@, Head(wire[k]))]
  BY Requests DEF Accept, Reject, Drop
<1>3. Len(posted[k]) = 0 /\ Len(Append(posted[k], Head(wire[k]))) = 1
  <2>1. Head(wire[k]) \in Review
    BY <1>1, <1>2, HeadTailProperties
  <2> QED BY <1>1, <1>2, <2>1, EmptySeq, AppendProperties
<1>4. posted'[k] \in {posted[k], Append(posted[k], Head(wire[k]))}
  BY <1>1, <1>2
<1>5. Len(posted'[k]) <= 1
  BY <1>3, <1>4
<1>6. /\ wire'[k] = <<>>
      /\ \A m \in JobId \ {k} : posted'[m] = posted[m] /\ wire'[m] = wire[m]
  BY <1>1, <1>2
<1> QED BY <1>2, <1>5, <1>6

LEMMA SingleWire ==
  ASSUME TypeOK, Located, LoadInv, CertainInv, SingleInv, [Next]_vars
  PROVE  /\ AtMostOnce'
         /\ \A k \in JobId : wire'[k] # <<>> =>
              Carries(jobs'[k], Head(wire'[k])) /\ Carries(disk'[k], Head(wire'[k]))
<1>0. posted \in [JobId -> Seq(Review)] /\ wire \in [JobId -> Seq(Review)]
  BY DEF TypeOK, GitHubTypes
<1>1. CASE UNCHANGED <<posted, wire>>
  BY <1>1, IntentStays DEF SingleInv, AtMostOnce
<1>2. CASE GitHub
  <2> PICK k \in JobId : Accept(k) \/ Reject(k) \/ Drop(k)
    BY <1>2 DEF GitHub
  <2>1. /\ ~k.dry /\ wire[k] # <<>> /\ wire'[k] = <<>> /\ Len(posted'[k]) <= 1
        /\ \A m \in JobId \ {k} : posted'[m] = posted[m] /\ wire'[m] = wire[m]
    BY GitHubAnswers DEF SingleInv
  <2>2. Len(posted'[k]) + Len(wire'[k]) <= 1
    <3> DEFINE made == Len(posted'[k])
    <3>1. made \in Nat /\ made <= 1
      <4>1. posted'[k] \in Seq(Review)
        BY TypeStep DEF TypeOK, GitHubTypes
      <4> QED BY <2>1, <4>1, LenProperties
    <3> HIDE DEF made
    <3>2. made + 0 <= 1
      BY <3>1
    <3>3. Len(wire'[k]) = 0
      BY <2>1, EmptySeq
    <3> QED BY <3>2, <3>3 DEF made
  <2>3. AtMostOnce'
    BY <2>1, <2>2 DEF SingleInv, AtMostOnce
  <2> QED BY <2>1, <2>3, IntentStays
<1>3. CASE Create
  <2>1. /\ cur \in JobId /\ ~cur.dry /\ Nowhere(cur)
        /\ jobs[cur].status = "posting" /\ Same(jobs[cur], disk[cur]) /\ jobs[cur].actor = account
    BY <1>3 DEF Create, Located, Placed, Reviewing, SingleInv, Unsent, LoadInv, Intended
  <2> DEFINE r == [by |-> account, found |-> jobs[cur].payload]
  <2>2. r \in Review
    BY <1>3, RequestType DEF Create
  <2>3. /\ Len(Append(wire[cur], r)) = 1 /\ Len(posted[cur]) = 0
        /\ Head(Append(wire[cur], r)) = r
    BY <1>0, <2>1, <2>2, AppendProperties, EmptySeq, HeadTailProperties DEF Nowhere
  <2>7. Carries(jobs[cur], r) /\ Carries(disk[cur], r)
    BY <2>1 DEF Carries, Same
  <2> HIDE DEF r
  <2>4. CASE wire' = [wire EXCEPT ![cur] = Append(@, r)] /\ jobs' = jobs
    <3>1. posted' = posted /\ disk' = disk
      BY <1>3 DEF Create
    <3>2. wire'[cur] = Append(wire[cur], r) /\ \A m \in JobId \ {cur} : wire'[m] = wire[m]
      BY <1>0, <2>1, <2>4
    <3>3. Len(posted'[cur]) + Len(wire'[cur]) <= 1
      <4>1. Len(posted'[cur]) = 0 /\ Len(wire'[cur]) = 1
        BY <2>3, <3>1, <3>2
      <4> QED BY <4>1
    <3> QED BY <2>1, <2>3, <2>4, <2>7, <3>1, <3>2, <3>3 DEF SingleInv, AtMostOnce
  <2>5. wire' = wire \/ (wire' = [wire EXCEPT ![cur] = Append(@, r)] /\ jobs' = jobs)
    BY <1>3 DEF Create, r
  <2>6. posted' = posted
    BY <1>3 DEF Create
  <2> QED BY <1>1, <2>4, <2>5, <2>6
<1> QED BY <1>1, <1>2, <1>3, WireStep

\* With one account and a listing that holds every review, a lookup that finds
\* nothing is the truth.
LEMMA NothingFound ==
  ASSUME OneAccount, TypeOK, Located, NEW k \in JobId, pc # "off", ~dry, Mine(k) = {}
  PROVE  posted[k] = <<>>
<1>1. posted[k] \in Seq(Review) /\ jobs[k] \in Job
  BY DEF TypeOK, GitHubTypes, StoreTypes
<1>2. Owner(k) \in Accounts
  BY <1>1 DEF Located, Placed, Owner, Job
<1>3. SUFFICES ASSUME posted[k] # <<>> PROVE FALSE
  OBVIOUS
<1>4. Len(posted[k]) \in Nat \ {0} /\ DOMAIN posted[k] = 1..Len(posted[k])
  BY <1>1, <1>3, EmptySeq, LenProperties
<1>5. 1 \in DOMAIN posted[k]
  BY <1>4
<1>6. posted[k][1] \in Review
  BY <1>1, <1>5
<1>7. posted[k][1].by = Owner(k)
  BY <1>2, <1>6 DEF OneAccount, Review
<1> QED BY <1>5, <1>7 DEF Mine

LEMMA BeginsAlone ==
  ASSUME ~ListingLags, OneAccount, TypeOK, Located, CertainInv, SingleInv,
         NEW k \in JobId, BeginAttempt(k)
  PROVE  Nowhere(k)
<1>1. pc = "next" /\ k \in queue /\ k.dry = dry /\ ~Uncertain(k.pr)
  BY DEF BeginAttempt, Take, Located, Placed, CertainInv, QueueIsCertain
<1>2. CASE dry
  BY <1>1, <1>2, Requests DEF SingleInv
<1>3. CASE ~dry
  <2>1. Mine(k) = {}
    BY <1>3 DEF BeginAttempt
  <2>2. wire[k] = <<>>
    BY <1>1, <1>3 DEF Uncertain, SingleInv, Carries
  <2> QED BY <1>1, <1>3, <2>1, <2>2, NothingFound DEF Nowhere
<1> QED BY <1>2, <1>3

LEMMA SinglePlace ==
  ASSUME ~ListingLags, OneAccount, TypeOK, Located, CertainInv, SingleInv, [Next]_vars
  PROVE  /\ pc' \in Unsent => Nowhere(cur)'
         /\ pc' = "create" => (Same(jobs[cur], disk[cur]) /\ jobs[cur].actor = account)'
         /\ pc' = "await" /\ reply' # "none" => wire'[cur'] = <<>>
<1>0. jobs \in [JobId -> Job] /\ disk \in [JobId -> Job]
  BY DEF TypeOK, StoreTypes
<1>1. CASE GitHub
  <2> PICK k \in JobId : Accept(k) \/ Reject(k) \/ Drop(k)
    BY <1>1 DEF GitHub
  <2>1. /\ wire[k] # <<>> /\ wire'[k] = <<>>
        /\ \A m \in JobId \ {k} : posted'[m] = posted[m] /\ wire'[m] = wire[m]
    BY GitHubAnswers DEF SingleInv
  <2>2. /\ pc' = pc /\ cur' = cur /\ jobs' = jobs /\ disk' = disk /\ account' = account
        /\ cur # k => reply' = reply
    BY DEF Accept, Reject, Drop, Answers, work, store, loop
  <2>3. pc \in Reviewing => cur \in JobId
    BY DEF Located, Placed
  <2> QED BY <2>1, <2>2, <2>3 DEF SingleInv, Unsent, Reviewing, Nowhere
<1>2. CASE \E k \in JobId : BeginAttempt(k)
  <2> PICK k \in JobId : BeginAttempt(k)
    BY <1>2
  <2>1. Nowhere(k) /\ UNCHANGED <<posted, wire>>
    BY BeginsAlone DEF BeginAttempt, github
  <2>2. (pc' = "review" /\ cur' = k) \/ pc' = "idle"
    BY DEF BeginAttempt
  <2> QED BY <2>1, <2>2 DEF Unsent, Reviewing, Nowhere
<1>3. CASE Create
  BY <1>3 DEF Create, Located, Placed, Unsent, Reviewing, work
<1>4. CASE LastPull
  <2> DEFINE e == [With(jobs[cur], "posting") EXCEPT !.actor = account]
  <2>1. cur \in JobId /\ jobs[cur] \in Job /\ jobs \in [JobId -> Job]
    BY <1>4, CurType DEF LastPull, Reviewing, TypeOK, StoreTypes
  <2>2. /\ pc \in Unsent /\ UNCHANGED <<posted, wire, cur, reply, account>>
        /\ pc' \in {"stale", "create", "error"}
    BY <1>4 DEF LastPull, Unsent, Reviewing, github, work, loop
  <2>3. pc' = "create" => jobs' = [jobs EXCEPT ![cur] = e] /\ disk' = jobs'
    BY <1>4 DEF LastPull, Saves
  <2>4. e.actor = account
    BY <2>1 DEF With, Job
  <2> HIDE DEF e
  <2> QED BY <2>1, <2>2, <2>3, <2>4 DEF SingleInv, Nowhere, Same
<1>5. CASE ReadDiscussion \/ Snapshot \/ Investigate \/ Compose \/ Recheck \/ Rediscuss
           \/ \E f \in Findings : Verify(f)
  BY <1>5 DEF ReadDiscussion, Snapshot, Investigate, Compose, Recheck, Rediscuss, Verify,
     SingleInv, Unsent, Reviewing, Nowhere, github, work
<1>6. CASE Answer \/ GiveUp \/ ReviewFails \/ SetupFails
  BY <1>6 DEF Answer, GiveUp, ReviewFails, SetupFails, SingleInv, Unsent, Reviewing, Nowhere,
     github, work
<1>7. CASE \/ ListPulls \/ EndScan \/ EndQueue \/ HandleError \/ Exit \/ Crash \/ Poll
           \/ \E d \in Modes, a \in Accounts : Start(d, a)
           \/ \E k \in JobId : Reconcile(k) \/ LookupFails(k) \/ Recover(k)
           \/ \E p \in PRs : Scan(p)
  BY <1>7 DEF ListPulls, EndScan, EndQueue, HandleError, Exit, Crash, Halt, Poll, Start,
     ToReconcile, Reconcile, LookupFails, Recover, Take, Scan, Unsent, Reviewing
<1>8. ASSUME NEW k \in JobId, RetryElapses(k)
      PROVE  /\ UNCHANGED <<posted, wire, pc, cur, reply, account>>
             /\ \A m \in JobId : Same(jobs'[m], jobs[m]) /\ Same(disk'[m], disk[m])
  <2>1. /\ Same([jobs[k] EXCEPT !.wait = FALSE], jobs[k])
        /\ Same([disk[k] EXCEPT !.wait = FALSE], disk[k])
    BY <1>0, <1>8, FieldTypes, IntentFields DEF Same
  <2>2. /\ jobs' = [jobs EXCEPT ![k] = [jobs[k] EXCEPT !.wait = FALSE]]
        /\ disk' = [disk EXCEPT ![k] = [disk[k] EXCEPT !.wait = FALSE]]
    BY <1>8 DEF RetryElapses
  <2>3. \A m \in JobId : Same(jobs'[m], jobs[m]) /\ Same(disk'[m], disk[m])
    BY <1>0, <2>1, <2>2 DEF Same
  <2> QED BY <1>8, <2>3 DEF RetryElapses, github, work, loop
<1>9. CASE \E k \in JobId : RetryElapses(k)
  <2>1. pc \in Reviewing => cur \in JobId
    BY DEF Located, Placed
  <2> QED BY <1>8, <1>9, <2>1 DEF SingleInv, Nowhere, Same, Unsent, Reviewing
<1>10. CASE UNCHANGED vars \/ People
  BY <1>10 DEF vars, People, Toggle, Describe, Comment, Push, SingleInv, Nowhere, Same,
     github, store, work, loop
<1>11. CASE LoseState \/ \E scope, d : Retry(scope, d)
  BY <1>11 DEF LoseState, Retry, Unsent, Reviewing
<1> QED BY <1>1, <1>2, <1>3, <1>4, <1>5, <1>6, <1>7, <1>9, <1>10, <1>11 DEF Next, Daemon, Operator

LEMMA SingleInit == Init => SingleInv
  BY EmptySeq DEF Init, SingleInv, AtMostOnce, Unsent, Reviewing

LEMMA SingleStep ==
  ASSUME ~ListingLags, OneAccount, TypeOK, Located, LoadInv, CertainInv, SingleInv, [Next]_vars
  PROVE  (TypeOK /\ Located /\ LoadInv /\ CertainInv /\ SingleInv)'
<1>1. TypeOK' /\ Located' /\ LoadInv' /\ CertainInv'
  BY TypeStep, LoadStep, OneEachStep, CertainStep DEF CertainInv
<1>2. SingleInv'
  BY SingleWire, SinglePlace DEF SingleInv
<1> QED BY <1>1, <1>2

LEMMA Single ==
  ASSUME ~ListingLags, OneAccount
  PROVE  Spec => []SingleInv
<1> DEFINE Inv == TypeOK /\ Located /\ LoadInv /\ CertainInv /\ SingleInv
<1>1. Init => Inv
  BY TypeInit, LocatedInit, LoadInit, CertainInit, SingleInit
<1>2. Inv /\ [Next]_vars => Inv'
  BY SingleStep
<1> QED BY <1>1, <1>2, PTL DEF Spec

\* Saves may fail and the state directory may be lost: with one account and
\* listings that hold every review, a revision still gets at most one, for what
\* the file forgot is looked up before every attempt (run.go: existing in step).
\* With two accounts it is not so: the daemon takes over the job of a review it
\* refuses for its author, and then looks for its own (run.go: existing), as the
\* run `accounts' shows.
THEOREM OneReviewOnAnyStorage ==
  ASSUME ~ListingLags, OneAccount
  PROVE  Spec => []AtMostOnce
<1>1. SingleInv => AtMostOnce
  BY DEF SingleInv
<1> QED BY <1>1, Single, PTL

\* Under the same conditions a request on its way has its intent in the file,
\* whichever saves failed before it was sent (run.go: LastPull's save).
THEOREM IntentIsDurableOnAnyStorage ==
  ASSUME ~ListingLags, OneAccount
  PROVE  Spec => []DurableIntent
<1>1. SingleInv => DurableIntent
  BY DEF SingleInv, Carries, DurableIntent
<1> QED BY <1>1, Single, PTL

-----------------------------------------------------------------------------
(***************************************************************************)
(* Dry runs.                                                               *)
(***************************************************************************)

Retired(e) == [e EXCEPT !.status = "stale"]

\* In memory a dry run at most retires a live job, and it reconciles none.
DryInv ==
  /\ pc = "off" => jobs = disk /\ ~dry
  /\ dry => unsettled = {}
  /\ dry => \A k \in JobId : ~k.dry => jobs[k] \in {disk[k], Retired(disk[k])}

LiveKept ==
  \A k \in JobId : ~k.dry =>
    jobs'[k] \in {jobs[k], Retired(jobs[k])} /\ disk'[k] \in {disk[k], jobs'[k]}

LEMMA DryEdit ==
  ASSUME TypeOK, NEW k \in JobId, k.dry, NEW e,
         jobs' = [jobs EXCEPT ![k] = e], disk' = disk \/ disk' = [jobs EXCEPT ![k] = e]
  PROVE  LiveKept
<1>1. \A m \in JobId : ~m.dry => m # k
  OBVIOUS
<1> QED BY <1>1 DEF LiveKept, TypeOK, StoreTypes

\* What the steps of a dry run do to the live jobs.
LEMMA DryStep ==
  ASSUME TypeOK, Located, DryInv, dry, Daemon
  PROVE  LiveKept \/ Exit
<1>0. jobs \in [JobId -> Job] /\ pc # "off" /\ unsettled = {}
  BY DEF TypeOK, StoreTypes, DryInv
<1>1. ASSUME UNCHANGED store PROVE LiveKept
  BY <1>1 DEF store, LiveKept
<1>2. pc \in Reviewing => cur \in JobId /\ cur.dry
  BY DEF Located, Placed
<1>3. ASSUME NEW e, pc \in Reviewing, jobs' = [jobs EXCEPT ![cur] = e],
             disk' = disk \/ disk' = [jobs EXCEPT ![cur] = e]
      PROVE  LiveKept
  BY <1>2, <1>3, DryEdit
<1>4. ASSUME NEW p \in PRs, Scan(p) PROVE LiveKept
  <2> DEFINE k == [pr |-> p, rev |-> pr[p].rev, dry |-> dry]
  <2>1. k.dry
    OBVIOUS
  <2>2. \A m \in JobId : Superseded(p, k.rev)[m] \in {jobs[m], Retired(jobs[m])}
    BY DEF Superseded, With, Retired
  <2>3. Superseded(p, k.rev) \in [JobId -> Job]
    BY SupersededType
  <2>4. \/ jobs' = jobs
        \/ jobs' = Superseded(p, k.rev)
        \/ \E e : jobs' = [Superseded(p, k.rev) EXCEPT ![k] = e]
    BY <1>4 DEF Scan
  <2>5. disk' = disk
    BY <1>4 DEF Scan
  <2> HIDE DEF k
  <2>6. \A m \in JobId : ~m.dry => jobs'[m] \in {jobs[m], Retired(jobs[m])}
    BY <2>1, <2>2, <2>3, <2>4
  <2> QED BY <2>5, <2>6 DEF LiveKept
<1>5. CASE EndScan
  BY <1>5, Written DEF EndScan, LiveKept
<1>6. ASSUME NEW k \in JobId, BeginAttempt(k) PROVE LiveKept
  <2>1. k.dry
    BY <1>6 DEF BeginAttempt, Take, Located, Placed
  <2>2. /\ jobs' = [jobs EXCEPT ![k] = Attempted(@)]
        /\ disk' = disk \/ disk' = [jobs EXCEPT ![k] = Attempted(@)]
    BY <1>6, Written DEF BeginAttempt
  <2> QED BY <2>1, <2>2, DryEdit
<1>7. ASSUME NEW f \in Findings, Verify(f) PROVE LiveKept
  <2>1. /\ jobs' = [jobs EXCEPT ![cur] = Judged(jobs[cur], f)]
        /\ disk' = disk \/ disk' = [jobs EXCEPT ![cur] = Judged(jobs[cur], f)]
        /\ pc \in Reviewing
    BY <1>7, Written DEF Verify, Reviewing
  <2> QED BY <1>3, <2>1
<1>8. CASE Compose
  <2>1. /\ jobs' = [jobs EXCEPT ![cur] = [jobs[cur] EXCEPT !.payload = confirmed]]
        /\ disk' = disk /\ pc \in Reviewing
    BY <1>8 DEF Compose, Reviewing
  <2> QED BY <1>3, <2>1
<1>9. CASE Rediscuss
  <2>1. /\ pc \in Reviewing
        /\ \/ UNCHANGED store
           \/ /\ jobs' = [jobs EXCEPT ![cur] = With(jobs[cur], "dry_run")]
              /\ disk' = disk \/ disk' = [jobs EXCEPT ![cur] = With(jobs[cur], "dry_run")]
    BY <1>9, Written DEF Rediscuss, Reviewing
  <2> QED BY <1>1, <1>3, <2>1
<1>10. ~LastPull /\ ~Create /\ ~Answer
  BY DEF LastPull, Create, Answer, Located, Placed
<1>11. CASE HandleError
  <2>1. /\ jobs' = [jobs EXCEPT ![cur] = Failed(jobs[cur])]
        /\ disk' = disk \/ disk' = [jobs EXCEPT ![cur] = Failed(jobs[cur])]
        /\ pc \in Reviewing
    BY <1>11, Written DEF HandleError, Reviewing
  <2> QED BY <1>3, <2>1
<1>12. \A k \in JobId : ~Recover(k) /\ ~Reconcile(k)
  BY <1>0 DEF Recover, Reconcile
<1>13. CASE \/ Poll \/ ListPulls \/ EndQueue \/ ReadDiscussion \/ Snapshot \/ Investigate
            \/ Recheck \/ GiveUp \/ ReviewFails \/ SetupFails
            \/ \E k \in JobId : LookupFails(k)
            \/ \E d \in Modes, a \in Accounts : Start(d, a)
  <2>1. CASE Poll \/ \E d \in Modes, a \in Accounts : Start(d, a)
    <3>1. UNCHANGED store
      BY <2>1 DEF Poll, Start, ToReconcile
    <3> QED BY <1>1, <3>1
  <2>2. CASE \/ ListPulls \/ EndQueue \/ ReadDiscussion \/ Snapshot \/ Investigate \/ Recheck
             \/ GiveUp \/ ReviewFails \/ SetupFails \/ \E k \in JobId : LookupFails(k)
    <3>1. UNCHANGED store
      BY <2>2 DEF ListPulls, EndQueue, ReadDiscussion, Snapshot, Investigate, Recheck, GiveUp,
         ReviewFails, SetupFails, LookupFails
    <3> QED BY <1>1, <3>1
  <2> QED BY <1>13, <2>1, <2>2
<1> QED BY <1>4, <1>5, <1>6, <1>7, <1>8, <1>9, <1>10, <1>11, <1>12, <1>13 DEF Daemon

LEMMA DryInvStep ==
  ASSUME TypeOK, Located, DryInv, [Next]_vars
  PROVE  DryInv'
<1>0. jobs \in [JobId -> Job] /\ disk \in [JobId -> Job]
  BY DEF TypeOK, StoreTypes
<1>2. CASE Exit \/ Crash
  BY <1>2 DEF Exit, Crash, Halt, DryInv
<1>3. CASE \E d \in Modes, a \in Accounts : Start(d, a)
  BY <1>3 DEF Start, ToReconcile, store, DryInv
<1>4. CASE LoseState \/ \E scope, d : Retry(scope, d)
  <2>1. jobs' = disk' /\ UNCHANGED <<pc, dry, unsettled>> /\ pc = "off"
    BY <1>4 DEF LoseState, Retry, Saves, loop
  <2> QED BY <2>1 DEF DryInv
<1>5. CASE UNCHANGED vars \/ GitHub \/ People
  <2>1. UNCHANGED <<store, pc, loop>>
    BY <1>5 DEF vars, GitHub, Accept, Reject, Drop, People, Toggle, Describe, Comment, Push
  <2> QED BY <2>1 DEF store, loop, DryInv
<1>6. ASSUME NEW k \in JobId, RetryElapses(k) PROVE DryInv'
  <2>1. /\ jobs' = [jobs EXCEPT ![k] = [jobs[k] EXCEPT !.wait = FALSE]]
        /\ disk' = [disk EXCEPT ![k] = [disk[k] EXCEPT !.wait = FALSE]]
        /\ UNCHANGED <<pc, dry, unsettled>>
    BY <1>6 DEF RetryElapses, loop
  <2>2. ASSUME NEW e \in Job
        PROVE  [Retired(e) EXCEPT !.wait = FALSE] = Retired([e EXCEPT !.wait = FALSE])
    BY DEF Retired, Job
  <2>3. ASSUME dry, NEW m \in JobId, ~m.dry PROVE jobs'[m] \in {disk'[m], Retired(disk'[m])}
    <3>1. jobs[m] \in {disk[m], Retired(disk[m])} /\ disk[m] \in Job
      BY <1>0, <2>3 DEF DryInv
    <3>2. [jobs[m] EXCEPT !.wait = FALSE] \in
            {[disk[m] EXCEPT !.wait = FALSE], Retired([disk[m] EXCEPT !.wait = FALSE])}
      BY <2>2, <3>1
    <3> QED BY <1>0, <2>1, <3>1, <3>2
  <2>4. pc = "off" => jobs' = disk'
    BY <2>1 DEF DryInv
  <2> QED BY <2>1, <2>3, <2>4 DEF DryInv
<1>7. CASE Daemon /\ ~Exit /\ ~\E d \in Modes, a \in Accounts : Start(d, a)
  <2>1. dry' = dry
    BY <1>7 DEF Daemon, Poll, ToReconcile, ListPulls, EndScan, EndQueue, Reconcile, LookupFails,
       Recover, BeginAttempt, Scan, Take, ReadDiscussion, Snapshot, Investigate, Compose, Verify,
       Recheck, Rediscuss, LastPull, Create, Answer, GiveUp, ReviewFails, SetupFails, HandleError,
       loop
  <2>4. dry => unsettled' = {}
    <3>1. unsettled' \subseteq unsettled \/ Poll
      BY <1>7 DEF Daemon, ListPulls, EndScan, EndQueue, Reconcile, LookupFails,
         Recover, BeginAttempt, Scan, Take, ReadDiscussion, Snapshot, Investigate, Compose, Verify,
         Recheck, Rediscuss, LastPull, Create, Answer, GiveUp, ReviewFails, SetupFails,
         HandleError, loop
    <3> QED BY <3>1 DEF Poll, ToReconcile, DryInv
  <2>2. pc' # "off"
    <3>1. CASE \/ Poll \/ ListPulls \/ EndScan \/ EndQueue \/ HandleError
               \/ \E p \in PRs : Scan(p)
               \/ \E k \in JobId : Reconcile(k) \/ LookupFails(k) \/ Recover(k) \/ BeginAttempt(k)
      BY <3>1 DEF Poll, ToReconcile, ListPulls, EndScan, EndQueue, HandleError, Scan, Reconcile,
         LookupFails, Recover, BeginAttempt, Take
    <3>2. CASE \/ ReadDiscussion \/ Snapshot \/ Investigate \/ Compose \/ Recheck \/ Rediscuss
               \/ LastPull \/ Create \/ Answer \/ GiveUp \/ ReviewFails \/ SetupFails
               \/ \E f \in Findings : Verify(f)
      BY <3>2 DEF ReadDiscussion, Snapshot, Investigate, Compose, Recheck, Rediscuss, LastPull,
         Create, Answer, GiveUp, ReviewFails, SetupFails, Verify
    <3> QED BY <1>7, <3>1, <3>2 DEF Daemon
  <2>3. ASSUME dry, NEW k \in JobId, ~k.dry PROVE jobs'[k] \in {disk'[k], Retired(disk'[k])}
    <3>1. LiveKept
      BY <1>7, <2>3, DryStep
    <3>2. Retired(Retired(disk[k])) = Retired(disk[k])
      BY <1>0 DEF Retired, Job
    <3>3. jobs'[k] \in {disk[k], Retired(disk[k])}
      BY <2>3, <3>1, <3>2 DEF LiveKept, DryInv
    <3> QED BY <2>3, <3>1, <3>3 DEF LiveKept
  <2> QED BY <2>1, <2>2, <2>3, <2>4 DEF DryInv
<1> QED BY <1>2, <1>3, <1>4, <1>5, <1>6, <1>7 DEF Next, Operator

\* What the file keeps of the live jobs through a step.
KeepsLive ==
  dry => \A k \in JobId : ~k.dry =>
    disk'[k] \in {disk[k], [disk[k] EXCEPT !.status = "stale"], [disk[k] EXCEPT !.wait = FALSE]}

LEMMA KeepsLiveStep ==
  ASSUME TypeOK, Located, DryInv, [Next]_vars
  PROVE  KeepsLive
<1> SUFFICES ASSUME dry, NEW k \in JobId, ~k.dry
             PROVE  disk'[k] \in {disk[k], Retired(disk[k]), [disk[k] EXCEPT !.wait = FALSE]}
  BY DEF KeepsLive, Retired
<1>0. disk \in [JobId -> Job] /\ pc # "off"
  BY DEF TypeOK, StoreTypes, DryInv
<1>1. CASE disk' = disk
  BY <1>1
<1>2. CASE Daemon /\ ~Exit
  <2>1. LiveKept
    BY <1>2, DryStep
  <2>2. Retired(Retired(disk[k])) = Retired(disk[k])
    BY <1>0 DEF Retired, Job
  <2> QED BY <2>1, <2>2 DEF LiveKept, DryInv
<1>3. ASSUME NEW m \in JobId, RetryElapses(m)
      PROVE  disk'[k] \in {disk[k], [disk[k] EXCEPT !.wait = FALSE]}
  BY <1>0, <1>3 DEF RetryElapses
<1>4. Exit \/ Crash \/ GitHub \/ People \/ UNCHANGED vars => disk' = disk
  BY DEF Exit, Crash, Halt, vars, GitHub, Accept, Reject, Drop, People, Toggle, Describe, Comment,
     Push, store
<1>5. ~LoseState /\ \A scope, d : ~Retry(scope, d)
  BY <1>0 DEF LoseState, Retry
<1> QED BY <1>1, <1>2, <1>3, <1>4, <1>5 DEF Next, Operator

LEMMA DryInit == Init => DryInv
  BY DEF Init, DryInv

\* A dry run shares the file with the live runs before and after it, and all
\* that happens to their jobs meanwhile is that it retires those of superseded
\* revisions, and that the delays of failed ones elapse (run.go: step compares
\* DryRun wherever it looks a job up).
THEOREM LiveJobsAreLeft == Spec => DryRunLeavesLive
<1>1. Init => TypeOK /\ Located /\ DryInv
  BY TypeInit, LocatedInit, DryInit
<1>2. TypeOK /\ Located /\ DryInv /\ [Next]_vars => (TypeOK /\ Located /\ DryInv)'
  BY TypeStep, DryInvStep
<1>3. TypeOK /\ Located /\ DryInv /\ [Next]_vars => KeepsLive
  BY KeepsLiveStep
<1> QED BY <1>1, <1>2, <1>3, PTL DEF Spec, DryRunLeavesLive, KeepsLive
=============================================================================
