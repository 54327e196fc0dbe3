-------------------------- MODULE PublicationProofs --------------------------
(***************************************************************************)
(* A revision is reviewed once: proofs about ReviewEngine, for every value *)
(* of its constants, on storage that keeps what it was given.              *)
(***************************************************************************)
EXTENDS ReviewEngineProofs

\* GitHub refused the request of cur, and that is not saved yet.
Refused(k) ==
  /\ pc = "error" /\ k = cur
  /\ jobs[k].status = "failed" /\ disk[k].status = "posting"
  /\ Nowhere(k)

\* The process and its file agree on every publication.
Agreed(k) ==
  Published(jobs, k) \/ Published(disk, k) => Refused(k) \/ Same(jobs[k], disk[k])

\* What j says of GitHub is true.
TrueOf(j, k) ==
  /\ ~Published(j, k) => Nowhere(k)
  /\ j[k].status = "submitted" => posted[k] # <<>>
  /\ Published(j, k) => ~k.dry /\ Len(posted[k]) + Len(wire[k]) <= 1
  /\ wire[k] # <<>> => j[k].payload = Head(wire[k]).found /\ j[k].actor = Head(wire[k]).by

\* The attempt knows what became of its request.
Knowing ==
  /\ pc \in Reviewing \ {"create", "await", "error"} => ~Published(jobs, cur)
  /\ pc = "error" => jobs[cur].status # "submitted"
  /\ pc \in {"create", "await"} => jobs[cur].status = "posting"
  /\ pc = "create" => Nowhere(cur) /\ jobs[cur].actor = account
  /\ pc = "await" /\ reply = "accepted" => posted[cur] # <<>> /\ wire[cur] = <<>>
  /\ pc = "await" /\ reply = "rejected" => Nowhere(cur)

Honest == \A k \in JobId : Agreed(k) /\ TrueOf(disk, k)

IInv == TypeOK /\ Located /\ Knowing /\ Honest

-----------------------------------------------------------------------------
LEMMA InitIInv == Init => IInv
  <1> SUFFICES ASSUME Init PROVE IInv
    OBVIOUS
  <1>1. TypeOK /\ Located
    BY TypeInit, LocatedInit
  <1>2. Knowing
    BY DEF Init, Knowing, Reviewing
  <1>3. \A k \in JobId : jobs[k].status = "none" /\ disk[k].status = "none" /\ Nowhere(k)
    BY DEF Init, NoJob, Nowhere
  <1>4. Honest
    BY <1>3 DEF Honest, Agreed, TrueOf, Published, Nowhere
  <1> QED BY <1>1, <1>2, <1>4 DEF IInv

\* What the process believes is as true as what its file says.
LEMMA MemoryTrue ==
  ASSUME Honest, NEW k \in JobId
  PROVE  TrueOf(jobs, k)
  <1>1. Agreed(k) /\ TrueOf(disk, k)
    BY DEF Honest
  <1>2. CASE Refused(k)
    BY <1>1, <1>2 DEF Refused, TrueOf, Published, Nowhere
  <1>3. CASE ~Refused(k)
    BY <1>1, <1>3 DEF Agreed, TrueOf, Published, Nowhere, Same
  <1> QED BY <1>2, <1>3

\* Outside the error handler the two agree.
LEMMA MemoryAgrees ==
  ASSUME Honest, pc # "error", NEW k \in JobId, Published(jobs, k) \/ Published(disk, k)
  PROVE  Same(jobs[k], disk[k])
  BY DEF Honest, Agreed, Refused

\* Nothing of a job that is no publication is on GitHub or on its way.
LEMMA Unpublished ==
  ASSUME Honest, NEW k \in JobId, ~Published(jobs, k)
  PROVE  Nowhere(k)
  BY MemoryTrue DEF TrueOf

-----------------------------------------------------------------------------
(***************************************************************************)
(* Ways to change what is saved, and what they keep.                       *)
(***************************************************************************)

\* Nothing changes for the publications.
LEMMA HonestFrame ==
  ASSUME Honest, UNCHANGED <<store, posted, wire>>, pc = "error" => UNCHANGED <<pc, cur>>
  PROVE  Honest'
  <1> SUFFICES ASSUME NEW k \in JobId PROVE Agreed(k)' /\ TrueOf(disk, k)'
    BY DEF Honest
  <1>1. TrueOf(disk, k)'
    BY DEF Honest, TrueOf, Published, Nowhere, store
  <1>2. Agreed(k)'
    BY DEF Honest, Agreed, Refused, Published, Nowhere, Same, store
  <1> QED BY <1>1, <1>2

\* The whole of memory is saved.
LEMMA HonestSave ==
  ASSUME UNCHANGED <<posted, wire>>, disk' = jobs', \A k \in JobId : TrueOf(jobs', k)
  PROVE  Honest'
  BY DEF Honest, Agreed, TrueOf, Same, Published, Nowhere

\* One job changes, and all is saved.
LEMMA HonestEdit ==
  ASSUME TypeOK, Honest, UNCHANGED <<posted, wire>>, NEW k \in JobId, NEW e,
         Saves([jobs EXCEPT ![k] = e]),
         e.status \notin {"posting", "submitted"} => Nowhere(k),
         e.status = "submitted" => posted[k] # <<>>,
         e.status \in {"posting", "submitted"} =>
           /\ ~k.dry /\ Len(posted[k]) + Len(wire[k]) <= 1,
         wire[k] # <<>> => e.payload = Head(wire[k]).found /\ e.actor = Head(wire[k]).by
  PROVE  Honest'
  <1>1. jobs' = [jobs EXCEPT ![k] = e] /\ disk' = jobs'
    BY DEF Saves
  <1>2. jobs'[k] = e /\ \A m \in JobId : m # k => jobs'[m] = jobs[m]
    BY <1>1, Edited DEF TypeOK, StoreTypes
  <1>3. \A m \in JobId : TrueOf(jobs', m)
    <2> SUFFICES ASSUME NEW m \in JobId PROVE TrueOf(jobs', m)
      OBVIOUS
    <2>1. CASE m = k
      BY <1>2, <2>1 DEF TrueOf, Published
    <2>2. CASE m # k
      BY <1>2, <2>2, MemoryTrue DEF TrueOf, Published
    <2> QED BY <2>1, <2>2
  <1> QED BY <1>1, <1>3, HonestSave

\* Memory changes, but for jobs that are no publications only.
LEMMA HonestMemory ==
  ASSUME Honest, pc # "error", UNCHANGED <<disk, posted, wire>>,
         \A k \in JobId : \/ Same(jobs'[k], jobs[k])
                          \/ ~Published(jobs, k) /\ ~Published(jobs', k)
  PROVE  Honest'
  <1> SUFFICES ASSUME NEW k \in JobId PROVE Agreed(k)' /\ TrueOf(disk, k)'
    BY DEF Honest
  <1>1. TrueOf(disk, k)'
    BY DEF Honest, TrueOf, Published, Nowhere
  <1>2. CASE Published(jobs, k) \/ Published(disk, k)
    <2>1. Same(jobs[k], disk[k])
      BY <1>2, MemoryAgrees
    <2>2. Published(jobs, k)
      BY <1>2, <2>1 DEF Same, Published
    <2>3. Same(jobs'[k], disk'[k])
      BY <2>1, <2>2 DEF Same
    <2> QED BY <1>1, <2>3 DEF Agreed, Same
  <1>3. CASE ~Published(jobs, k) /\ ~Published(disk, k)
    BY <1>1, <1>3 DEF Agreed, Published, Same
  <1> QED BY <1>2, <1>3

\* The process is gone, and reads its file again.
LEMMA HonestHalt ==
  ASSUME Honest, UNCHANGED <<disk, posted, wire>>, jobs' = disk
  PROVE  Honest'
  BY DEF Honest, Agreed, TrueOf, Same, Published, Nowhere

-----------------------------------------------------------------------------
(***************************************************************************)
(* One step, action by action.                                             *)
(***************************************************************************)

\* A job with a request under way is a publication with nothing else.
LEMMA InFlight ==
  ASSUME TypeOK, Honest, NEW k \in JobId, wire[k] # <<>>
  PROVE  /\ ~Nowhere(k) /\ Published(disk, k)
         /\ posted[k] \in Seq(Review) /\ wire[k] \in Seq(Review)
         /\ Len(posted[k]) + Len(wire[k]) <= 1
  <1>1. ~Nowhere(k) /\ TrueOf(disk, k)
    BY DEF Nowhere, Honest
  <1> QED BY <1>1 DEF TrueOf, TypeOK, GitHubTypes

\* GitHub answers a request or forgets it.
LEMMA GitHubKeeps == IInv /\ GitHub => (Knowing /\ Honest)'
  <1> SUFFICES ASSUME IInv, NEW k \in JobId, Accept(k) \/ Reject(k) \/ Drop(k)
               PROVE  (Knowing /\ Honest)'
    BY DEF GitHub
  <1>0. TypeOK /\ Knowing /\ Honest /\ wire[k] # <<>>
    BY DEF IInv, Accept, Reject, Drop
  <1>1. /\ ~Nowhere(k) /\ Published(disk, k) /\ Len(wire[k]) = 1
        /\ posted[k] = <<>> /\ Tail(wire[k]) = <<>>
        /\ Append(posted[k], Head(wire[k])) # <<>> /\ Len(Append(posted[k], Head(wire[k]))) = 1
        /\ Len(posted[k]) = 0
    BY <1>0, InFlight, OneRequest
  <1>2. posted \in [JobId -> Seq(Review)] /\ wire \in [JobId -> Seq(Review)]
    BY <1>0 DEF TypeOK, GitHubTypes
  <1>3. /\ wire'[k] = <<>>
        /\ Accept(k) => posted'[k] = Append(posted[k], Head(wire[k]))
        /\ ~Accept(k) => posted'[k] = <<>>
        /\ \A m \in JobId \ {k} : posted'[m] = posted[m] /\ wire'[m] = wire[m]
    BY <1>1, <1>2 DEF Accept, Reject, Drop
  <1>4. UNCHANGED <<store, pc, cur, account>>
    BY DEF Accept, Reject, Drop, loop, work
  <1>5. TrueOf(disk, k) /\ disk[k].status # "submitted"
    BY <1>0, <1>1 DEF Honest, TrueOf
  <1>6. ASSUME NEW m \in JobId PROVE Agreed(m)' /\ TrueOf(disk, m)'
    <2>1. CASE m = k
      <3>1. TrueOf(disk, m)'
        <4>1. Len(posted'[k]) \in {0, 1} /\ Len(wire'[k]) = 0
          BY <1>1, <1>3, EmptySeq
        <4>2. Len(posted'[k]) + Len(wire'[k]) <= 1
          <5> DEFINE made == Len(posted'[k])
                     sent == Len(wire'[k])
          <5> HIDE DEF made, sent
          <5>1. made \in {0, 1} /\ sent = 0
            BY <4>1 DEF made, sent
          <5>2. made + sent <= 1
            BY <5>1
          <5> QED BY <5>2 DEF made, sent
        <4>3. ~k.dry /\ Published(disk', k) /\ disk'[k].status # "submitted"
          BY <1>1, <1>4, <1>5 DEF TrueOf, Published, store
        <4> QED BY <1>3, <2>1, <4>2, <4>3 DEF TrueOf, Published
      <3>2. ~Refused(k) /\ Agreed(k)
        BY <1>0, <1>1 DEF Refused, Honest
      <3>3. Agreed(m)'
        BY <1>4, <2>1, <3>2 DEF Agreed, Same, Published, store
      <3> QED BY <3>1, <3>3
    <2>2. CASE m # k
      <3>1. Agreed(m) /\ TrueOf(disk, m)
        BY <1>0 DEF Honest
      <3> QED BY <1>3, <1>4, <2>2, <3>1 DEF Agreed, TrueOf, Refused, Same, Published, Nowhere, store
    <2> QED BY <2>1, <2>2
  <1>7. Knowing'
    <2>1. CASE cur = k
      <3>1. pc # "create" /\ ~(pc = "await" /\ reply # "none")
        BY <1>0, <1>1, <2>1 DEF Knowing, Nowhere, IInv, TypeOK, WorkTypes
      <3>2. reply' # "none" /\ pc = "await" => (reply' = "accepted" /\ Accept(k)) \/ (reply' = "rejected" /\ ~Accept(k))
        BY <1>1, <2>1, <3>1 DEF Accept, Reject, Drop, Answers, work
      <3> QED BY <1>0, <1>3, <1>4, <2>1, <3>1, <3>2 DEF Knowing, Nowhere, Published, store
    <2>2. CASE cur # k
      <3>1. reply' = reply
        BY <2>2 DEF Accept, Reject, Drop, Answers, work
      <3>2. pc \in {"create", "await"} => cur \in JobId
        BY DEF IInv, Located, Placed, Reviewing
      <3> QED BY <1>0, <1>3, <1>4, <2>2, <3>1, <3>2 DEF Knowing, Nowhere, Published, store
    <2> QED BY <2>1, <2>2
  <1> QED BY <1>6, <1>7 DEF Honest

\* Before and outside of publication, an attempt changes nothing that counts.
LEMMA QuietActions ==
  ASSUME IInv,
         \/ \E d \in Modes, a \in Accounts : Start(d, a)
         \/ Poll \/ ListPulls \/ EndQueue \/ ReadDiscussion \/ Snapshot \/ Investigate
         \/ Recheck \/ GiveUp \/ ReviewFails \/ SetupFails \/ People
         \/ \E k \in JobId : LookupFails(k)
         \/ UNCHANGED vars
  PROVE  (Knowing /\ Honest)'
  <1>0. Placed /\ Knowing /\ Honest
    BY DEF IInv, Located
  <1>1. UNCHANGED <<store, posted, wire>> /\ (pc = "error" => UNCHANGED <<pc, cur>>)
    BY DEF Start, Poll, ToReconcile, ListPulls, EndQueue, ReadDiscussion, Snapshot, Investigate,
       Recheck, GiveUp, ReviewFails, SetupFails, People, Toggle, Describe, Comment, Push,
       LookupFails, Take, github, work, vars
  <1>2. Honest'
    BY <1>0, <1>1, HonestFrame
  <1>3. UNCHANGED <<store, posted, wire, cur, account>> \/ pc' \in {"reconcile"}
    BY <1>1 DEF Start, Poll, ToReconcile, ListPulls, EndQueue, ReadDiscussion, Snapshot, Investigate,
       Recheck, GiveUp, ReviewFails, SetupFails, People, Toggle, Describe, Comment, Push,
       LookupFails, Take, github, loop, work, vars
  <1>4. \/ pc' \notin Reviewing
        \/ UNCHANGED <<pc, reply>>
        \/ /\ pc \in Reviewing \ {"create", "await", "error"}
           /\ pc' \in Reviewing \ {"create", "await"}
        \/ pc \in {"create", "await"} /\ pc' = "error"
    BY DEF Start, Poll, ToReconcile, ListPulls, EndQueue, ReadDiscussion, Snapshot, Investigate,
       Recheck, GiveUp, ReviewFails, SetupFails, People, Toggle, Describe, Comment, Push,
       LookupFails, Take, work, vars, Reviewing
  <1>5. Knowing'
    BY <1>0, <1>3, <1>4 DEF Knowing, Nowhere, Published, store, Reviewing
  <1> QED BY <1>2, <1>5

\* The same, for the actions that change jobs.
LEMMA LoopKeeps ==
  ASSUME ~StorageFails, IInv,
         \/ \E k \in JobId : Reconcile(k) \/ Recover(k) \/ BeginAttempt(k) \/ RetryElapses(k)
         \/ \E p \in PRs : Scan(p)
         \/ EndScan \/ Exit \/ Crash
         \/ \E scope \in {PRs} \cup {{p} : p \in PRs}, d \in Modes : Retry(scope, d)
  PROVE  (Knowing /\ Honest)'
  <1>0. TypeOK /\ Located /\ Knowing /\ Honest /\ jobs \in [JobId -> Job] /\ disk \in [JobId -> Job]
    BY DEF IInv, TypeOK, StoreTypes
  <1>1. \A j : ~SaveFails(j)
    BY DEF SaveFails
  <1>2. ASSUME pc' \notin Reviewing PROVE Knowing'
    BY <1>2 DEF Knowing, Reviewing
  <1>3. ASSUME NEW k \in JobId, Reconcile(k) PROVE (Knowing /\ Honest)'
    <2>1. /\ pc = "reconcile" /\ pc' = pc /\ jobs[k].status = "posting"
          /\ UNCHANGED <<posted, wire>>
      BY <1>0, <1>3 DEF Reconcile, Located, Held, github
    <2>2. CASE UNCHANGED store
      BY <1>0, <1>2, <2>1, <2>2, HonestFrame DEF Reviewing
    <2>3. CASE Mine(k) # {} /\ Saves([jobs EXCEPT ![k] = With(@, "submitted")])
      <3> DEFINE e == With(jobs[k], "submitted")
      <3>1. e.status = "submitted" /\ e.payload = jobs[k].payload /\ e.actor = jobs[k].actor
        BY <1>0, WithFields DEF Status
      <3>2. posted[k] # <<>>
        BY <2>3 DEF Mine
      <3>3. TrueOf(jobs, k) /\ Published(jobs, k)
        BY <1>0, <2>1, MemoryTrue DEF Published
      <3>4. Saves([jobs EXCEPT ![k] = e])
        BY <2>3
      <3> HIDE DEF e
      <3>5. Honest'
        BY <1>0, <2>1, <3>1, <3>2, <3>3, <3>4, HonestEdit DEF TrueOf
      <3> QED BY <1>2, <2>1, <3>5 DEF Reviewing
    <2> QED BY <1>1, <1>3, <2>2, <2>3 DEF Reconcile
  <1>4. ASSUME NEW k \in JobId, Recover(k) PROVE FALSE
    <2>1. ~Published(jobs, k) /\ posted[k] # <<>>
      BY <1>0, <1>4 DEF Recover, Take, Located, Held, Published, Mine
    <2> QED BY <1>0, <2>1, Unpublished DEF Nowhere
  <1>5. ASSUME NEW k \in JobId, BeginAttempt(k) PROVE (Knowing /\ Honest)'
    <2> DEFINE e == Attempted(jobs[k])
    <2>1. ~Published(jobs, k) /\ jobs[k].tries < Attempts
      BY <1>0, <1>5 DEF BeginAttempt, Take, Located, Held, Published
    <2>2. e.status = "pending"
      BY <1>0, <2>1, AttemptedType
    <2>3. Nowhere(k)
      BY <1>0, <2>1, Unpublished
    <2>4. Saves([jobs EXCEPT ![k] = e]) /\ pc' = "review" /\ cur' = k /\ UNCHANGED <<posted, wire>>
      BY <1>1, <1>5, <2>3 DEF BeginAttempt, Nowhere, Mine, Saves, NoFault, github
    <2> HIDE DEF e
    <2>5. Honest'
      BY <1>0, <2>2, <2>3, <2>4, HonestEdit DEF Nowhere
    <2>6. jobs'[k] = e
      BY <1>0, <2>4 DEF Saves
    <2> QED BY <2>2, <2>4, <2>5, <2>6 DEF Knowing, Published, Reviewing
  <1>6. ASSUME NEW k \in JobId, RetryElapses(k) PROVE (Knowing /\ Honest)'
    <2>1. /\ UNCHANGED <<posted, wire, pc, cur, account, reply>>
          /\ jobs' = [jobs EXCEPT ![k] = [jobs[k] EXCEPT !.wait = FALSE]]
          /\ disk' = [disk EXCEPT ![k] = [disk[k] EXCEPT !.wait = FALSE]]
      BY <1>6 DEF RetryElapses, github, loop, work
    <2>2. \A m \in JobId : Same(jobs'[m], jobs[m]) /\ Same(disk'[m], disk[m])
      BY <1>0, <2>1, FieldTypes DEF Same
    <2>3. Honest'
      <3> SUFFICES ASSUME NEW m \in JobId PROVE Agreed(m)' /\ TrueOf(disk, m)'
        BY DEF Honest
      <3>1. Agreed(m) /\ TrueOf(disk, m) /\ Same(jobs'[m], jobs[m]) /\ Same(disk'[m], disk[m])
        BY <1>0, <2>2 DEF Honest
      <3>2. TrueOf(disk, m)'
        BY <2>1, <3>1 DEF TrueOf, Published, Nowhere, Same
      <3>3. Agreed(m)'
        BY <2>1, <3>1 DEF Agreed, Refused, Published, Nowhere, Same
      <3> QED BY <3>2, <3>3
    <2>4. pc \in Reviewing => cur \in JobId
      BY <1>0 DEF Located, Placed
    <2>5. Knowing'
      BY <1>0, <2>1, <2>2, <2>4 DEF Knowing, Published, Nowhere, Same, Reviewing
    <2> QED BY <2>3, <2>5
  <1>7. ASSUME NEW p \in PRs, Scan(p) PROVE (Knowing /\ Honest)'
    <2> DEFINE k == [pr |-> p, rev |-> pr[p].rev, dry |-> dry]
    <2>1. k \in JobId /\ pr[p].body \in Nat
      BY <1>0, ScanType
    <2>2. pc = "scan" /\ pc' = "scan" /\ UNCHANGED <<disk, posted, wire>>
      BY <1>7 DEF Scan, github
    <2>3. Superseded(p, k.rev) \in [JobId -> Job]
      BY <1>0, SupersededType
    <2>4. \A m \in JobId : \/ Superseded(p, k.rev)[m] = jobs[m]
                           \/ /\ jobs[m].status \in {"pending", "failed"}
                              /\ Superseded(p, k.rev)[m].status = "stale"
      BY <1>0, SupersededType
    <2> DEFINE o == Opened(k)
               b == [o EXCEPT !.body = pr[p].body]
    <2>5. /\ o \in Job
          /\ jobs[k].status \in {"posting", "submitted"} => o = jobs[k]
          /\ o.status \in {"posting", "submitted"} => jobs[k].status \in {"posting", "submitted"}
      BY <1>0, <2>1, OpenedType
    <2>6. b.status = o.status
      BY <2>1, <2>5, FieldTypes
    <2>7. b.status # "submitted" \/ ~Ready(o)
      BY <2>6 DEF Ready
    <2>8. CASE jobs' = jobs \/ jobs' = Superseded(p, k.rev)
      <3>1. \A m \in JobId : \/ Same(jobs'[m], jobs[m])
                             \/ ~Published(jobs, m) /\ ~Published(jobs', m)
        BY <2>4, <2>8 DEF Same, Published
      <3> QED BY <1>0, <1>2, <2>2, <3>1, HonestMemory DEF Reviewing
    <2>9. CASE /\ ~Uncertain(p)
               /\ jobs' = [Superseded(p, k.rev) EXCEPT ![k] = IF Ready(o) THEN b ELSE o]
      <3>1. jobs[k].status # "posting"
        BY <1>0, <2>1, <2>9 DEF Uncertain, Located, Quiet, QuietIn, Published
      <3>2. jobs'[k] = IF Ready(o) THEN b ELSE o
        BY <2>1, <2>3, <2>9
      <3>3. \A m \in JobId \ {k} : jobs'[m] = Superseded(p, k.rev)[m]
        BY <2>1, <2>3, <2>9
      <3> HIDE DEF k, o, b
      <3>4. \/ jobs'[k] = jobs[k]
            \/ ~Published(jobs, k) /\ ~Published(jobs', k)
        BY <2>5, <2>6, <2>7, <3>1, <3>2 DEF Published, Ready
      <3>5. \A m \in JobId : \/ Same(jobs'[m], jobs[m])
                             \/ ~Published(jobs, m) /\ ~Published(jobs', m)
        BY <2>4, <3>3, <3>4 DEF Same, Published
      <3> QED BY <1>0, <1>2, <2>2, <3>5, HonestMemory DEF Reviewing
    <2> QED BY <1>7, <2>8, <2>9 DEF Scan
  <1>8. CASE EndScan
    <2>1. jobs' = jobs /\ disk' = jobs /\ pc' = "next" /\ UNCHANGED <<posted, wire>>
      BY <1>1, <1>8 DEF EndScan, Saves, github
    <2>2. \A k \in JobId : TrueOf(jobs', k)
      BY <1>0, <2>1, MemoryTrue DEF TrueOf, Published
    <2> QED BY <1>2, <2>1, <2>2, HonestSave DEF Reviewing
  <1>9. CASE Exit \/ Crash
    <2>1. jobs' = disk /\ pc' = "off" /\ UNCHANGED <<disk, posted, wire>>
      BY <1>9 DEF Exit, Crash, Halt, github
    <2> QED BY <1>0, <1>2, <2>1, HonestHalt DEF Reviewing
  <1>10. ASSUME NEW scope, NEW d, Retry(scope, d) PROVE (Knowing /\ Honest)'
    <2>1. pc' = "off" /\ jobs' = disk' /\ UNCHANGED <<posted, wire>>
      BY <1>10 DEF Retry, Saves, github
    <2>2. \A k \in JobId : \/ disk'[k] = disk[k]
                           \/ disk[k].status = "failed" /\ disk'[k].status = "pending"
      <3>1. \A k \in JobId : Reset(disk[k]).status = "pending"
        BY <1>0, ResetType
      <3> QED BY <1>10, <3>1 DEF Retry, Saves
    <2>3. \A k \in JobId : TrueOf(disk, k)
      BY <1>0 DEF Honest
    <2>4. \A k \in JobId : TrueOf(disk', k)
      BY <2>2, <2>3 DEF TrueOf, Published, Nowhere
    <2> QED BY <1>2, <2>1, <2>4, HonestSave DEF Reviewing
  <1> QED BY <1>3, <1>4, <1>5, <1>6, <1>7, <1>8, <1>9, <1>10

\* The attempt itself, up to its end.
LEMMA AttemptKeeps ==
  ASSUME ~StorageFails, IInv,
         \/ \E f \in Findings : Verify(f)
         \/ Compose \/ Rediscuss \/ LastPull \/ Create \/ Answer \/ HandleError
  PROVE  (Knowing /\ Honest)'
  <1>0. TypeOK /\ Located /\ Knowing /\ Honest /\ jobs \in [JobId -> Job] /\ UNCHANGED posted
    BY DEF IInv, TypeOK, StoreTypes, Verify, Compose, Rediscuss, LastPull, Create, Answer,
       HandleError, github
  <1>1. \A j : ~SaveFails(j)
    BY DEF SaveFails
  <1>2. pc \in Reviewing
    BY DEF Verify, Compose, Rediscuss, LastPull, Create, Answer, HandleError, Reviewing
  <1>3. cur \in JobId /\ jobs[cur] \in Job /\ jobs[cur].tries > 0 /\ cur.dry = dry
    BY <1>0, <1>2, CurType DEF Located, Placed
  <1>4. TrueOf(jobs, cur)
    BY <1>0, <1>3, MemoryTrue
  <1>5. pc \in Reviewing \ {"create", "await", "error"} => ~Published(jobs, cur) /\ Nowhere(cur)
    BY <1>0, <1>3, Unpublished DEF Knowing
  <1>6. pc' \notin Reviewing => Knowing'
    BY DEF Knowing, Reviewing
  <1>7. ASSUME NEW f \in Findings, Verify(f) PROVE (Knowing /\ Honest)'
    <2> DEFINE e == Judged(jobs[cur], f)
    <2>1. /\ Saves([jobs EXCEPT ![cur] = e]) /\ pc = "verify" /\ pc' = pc
          /\ UNCHANGED <<posted, wire, cur>>
      BY <1>1, <1>7 DEF Verify, github
    <2>2. e.status = jobs[cur].status
      BY <1>3, FieldTypes
    <2>3. Nowhere(cur) /\ e.status \notin {"posting", "submitted"}
      BY <1>5, <2>1, <2>2 DEF Reviewing, Published
    <2> HIDE DEF e
    <2>4. Honest'
      BY <1>0, <1>3, <2>1, <2>3, HonestEdit DEF Nowhere
    <2>5. jobs'[cur'] = e
      BY <1>0, <1>3, <2>1 DEF Saves
    <2> QED BY <2>1, <2>3, <2>4, <2>5 DEF Knowing, Published, Reviewing
  <1>8. CASE Compose
    <2> DEFINE e == [jobs[cur] EXCEPT !.payload = confirmed]
    <2>1. /\ jobs' = [jobs EXCEPT ![cur] = e] /\ pc = "verify" /\ pc' = "recheck"
          /\ UNCHANGED <<disk, posted, wire, cur>>
      BY <1>8 DEF Compose, github, work
    <2>2. e.status = jobs[cur].status
      BY <1>0, <1>3, FieldTypes DEF TypeOK, WorkTypes
    <2> HIDE DEF e
    <2>3. jobs'[cur] = e /\ \A m \in JobId : m # cur => jobs'[m] = jobs[m]
      BY <1>0, <1>3, <2>1, Edited
    <2>4. ~Published(jobs, cur) /\ ~Published(jobs', cur)
      BY <1>5, <2>1, <2>2, <2>3 DEF Reviewing, Published
    <2>5. \A m \in JobId : Same(jobs'[m], jobs[m]) \/ (~Published(jobs, m) /\ ~Published(jobs', m))
      BY <2>3, <2>4 DEF Same
    <2>6. Honest'
      BY <1>0, <2>1, <2>5, HonestMemory
    <2> QED BY <2>1, <2>4, <2>6 DEF Knowing, Published, Reviewing
  <1>9. CASE Rediscuss
    <2>1. pc = "rediscuss" /\ UNCHANGED <<posted, wire>> /\ Nowhere(cur) /\ ~Published(jobs, cur)
      BY <1>5, <1>9 DEF Rediscuss, github, Reviewing
    <2>2. CASE UNCHANGED <<store, cur>> /\ pc' \in {"error", "lastpull"}
      BY <1>0, <2>1, <2>2, HonestFrame DEF Knowing, Published, store, Reviewing
    <2>3. CASE Saves([jobs EXCEPT ![cur] = With(@, "dry_run")]) /\ pc' = "next"
      <3> DEFINE e == With(jobs[cur], "dry_run")
      <3>1. e.status = "dry_run"
        BY <1>3, WithFields DEF Status
      <3>2. Saves([jobs EXCEPT ![cur] = e])
        BY <2>3
      <3> HIDE DEF e
      <3>3. Honest'
        BY <1>0, <1>3, <2>1, <3>1, <3>2, HonestEdit DEF Nowhere
      <3> QED BY <1>6, <2>3, <3>3 DEF Reviewing
    <2> QED BY <1>1, <1>9, <2>2, <2>3 DEF Rediscuss, work
  <1>10. CASE LastPull
    <2>1. pc = "lastpull" /\ UNCHANGED <<posted, wire, cur, account>> /\ Nowhere(cur) /\ ~Published(jobs, cur)
      BY <1>5, <1>10 DEF LastPull, github, loop, work, Reviewing
    <2>2. CASE UNCHANGED store /\ pc' = "stale"
      BY <1>0, <2>1, <2>2, HonestFrame DEF Knowing, Published, store, Reviewing
    <2>3. CASE /\ Saves([jobs EXCEPT ![cur] = [With(@, "posting") EXCEPT !.actor = account]])
               /\ pc' = "create"
      <3> DEFINE e == [With(jobs[cur], "posting") EXCEPT !.actor = account]
      <3>1. account \in Accounts /\ ~cur.dry
        BY <1>0, <1>3, <2>1 DEF Located, Placed
      <3>2. With(jobs[cur], "posting") \in Job /\ With(jobs[cur], "posting").status = "posting"
        BY <1>3, WithType, WithFields DEF Status
      <3>3. e.status = "posting" /\ e.actor = account
        BY <3>1, <3>2, FieldTypes
      <3>4. Saves([jobs EXCEPT ![cur] = e])
        BY <2>3
      <3> HIDE DEF e
      <3>5. Len(posted[cur]) + Len(wire[cur]) <= 1 /\ wire[cur] = <<>>
        BY <2>1, EmptySeq DEF Nowhere
      <3>6. Honest'
        BY <1>0, <1>3, <2>1, <3>1, <3>3, <3>4, <3>5, HonestEdit
      <3>7. jobs'[cur] = e
        BY <1>0, <1>3, <3>4 DEF Saves
      <3> QED BY <2>1, <2>3, <3>3, <3>6, <3>7 DEF Knowing, Nowhere, Published, Reviewing
    <2> QED BY <1>1, <1>10, <2>2, <2>3 DEF LastPull
  <1>11. CASE Create
    <2> DEFINE r == [by |-> account, found |-> jobs[cur].payload]
    <2>1. /\ pc = "create" /\ pc' = "await" /\ UNCHANGED <<store, cur, reply>>
          /\ wire' = [wire EXCEPT ![cur] = Append(@, r)]
      BY <1>11 DEF Create, store, work
    <2>2. /\ Nowhere(cur) /\ jobs[cur].actor = account /\ jobs[cur].status = "posting"
          /\ reply = "none" /\ ~cur.dry
      BY <1>0, <1>3, <2>1 DEF Knowing, Located, Placed
    <2>3. Same(jobs[cur], disk[cur])
      BY <1>0, <1>3, <2>1, <2>2, MemoryAgrees DEF Published
    <2>4. r \in Review
      BY <1>0, <1>3, <2>1, <2>2 DEF Located, Placed, Held, Review
    <2>5. wire \in [JobId -> Seq(Review)]
      BY <1>0 DEF TypeOK, GitHubTypes
    <2>6. /\ wire'[cur] = Append(wire[cur], r)
          /\ \A m \in JobId : m # cur => wire'[m] = wire[m]
      BY <1>3, <2>1, <2>5
    <2>7. wire'[cur] # <<>> /\ Len(wire'[cur]) = 1 /\ Head(wire'[cur]) = r
      <3>1. wire'[cur] = <<r>>
        BY <2>2, <2>6, <2>4 DEF Nowhere
      <3> QED BY <3>1
    <2>8. Len(posted'[cur]) + Len(wire'[cur]) <= 1
      <3>1. posted'[cur] = <<>>
        BY <1>0, <2>2 DEF Nowhere
      <3> QED BY <2>7, <3>1, EmptySeq
    <2>9. Head(wire'[cur]).found = disk'[cur].payload /\ Head(wire'[cur]).by = disk'[cur].actor
      BY <2>1, <2>2, <2>3, <2>7 DEF Same, store
    <2> HIDE DEF r
    <2>10. Honest'
      <3> SUFFICES ASSUME NEW m \in JobId PROVE Agreed(m)' /\ TrueOf(disk, m)'
        BY DEF Honest
      <3>1. CASE m = cur
        BY <2>1, <2>2, <2>3, <2>7, <2>8, <2>9, <3>1 DEF Agreed, TrueOf, Same, Published, store
      <3>2. CASE m # cur
        BY <1>0, <2>1, <2>6, <3>2 DEF Honest, Agreed, Refused, TrueOf, Same, Published, Nowhere, store
      <3> QED BY <3>1, <3>2
    <2>11. Knowing'
      BY <2>1, <2>2 DEF Knowing, store, Reviewing
    <2> QED BY <2>10, <2>11
  <1>12. CASE Answer
    <2>1. pc = "await" /\ UNCHANGED <<posted, wire>> /\ jobs[cur].status = "posting"
      BY <1>0, <1>12 DEF Answer, Knowing, github
    <2>2. CASE /\ reply = "accepted" /\ Saves([jobs EXCEPT ![cur] = With(@, "submitted")])
               /\ pc' = "next"
      <3> DEFINE e == With(jobs[cur], "submitted")
      <3>1. e.status = "submitted"
        BY <1>3, WithFields DEF Status
      <3>2. posted[cur] # <<>> /\ wire[cur] = <<>>
        BY <1>0, <2>1, <2>2 DEF Knowing
      <3>3. ~cur.dry /\ Len(posted[cur]) + Len(wire[cur]) <= 1
        BY <1>4, <2>1 DEF TrueOf, Published
      <3>4. Saves([jobs EXCEPT ![cur] = e])
        BY <2>2
      <3> HIDE DEF e
      <3>5. Honest'
        BY <1>0, <1>3, <2>1, <3>1, <3>2, <3>3, <3>4, HonestEdit
      <3> QED BY <1>6, <2>2, <3>5 DEF Reviewing
    <2>3. CASE /\ reply = "rejected" /\ jobs' = [jobs EXCEPT ![cur] = With(@, "failed")]
               /\ pc' = "error" /\ UNCHANGED <<disk, cur, reply>>
      <3> DEFINE e == With(jobs[cur], "failed")
      <3>1. e.status = "failed"
        BY <1>3, WithFields DEF Status
      <3>2. jobs' = [jobs EXCEPT ![cur] = e]
        BY <2>3
      <3> HIDE DEF e
      <3>3. jobs'[cur] = e /\ \A m \in JobId : m # cur => jobs'[m] = jobs[m]
        BY <1>0, <1>3, <3>2, Edited
      <3>4. Nowhere(cur) /\ Same(jobs[cur], disk[cur])
        BY <1>0, <1>3, <2>1, <2>3, MemoryAgrees DEF Knowing, Published
      <3>5. Honest'
        <4> SUFFICES ASSUME NEW m \in JobId PROVE Agreed(m)' /\ TrueOf(disk, m)'
          BY DEF Honest
        <4>1. Agreed(m) /\ TrueOf(disk, m) /\ ~Refused(m)
          BY <1>0, <2>1 DEF Honest, Refused
        <4>2. TrueOf(disk, m)'
          BY <2>1, <2>3, <4>1 DEF TrueOf, Published, Nowhere
        <4>3. CASE m = cur
          <5>1. Refused(m)'
            BY <2>1, <2>3, <3>1, <3>3, <3>4, <4>3 DEF Refused, Nowhere, Same
          <5> QED BY <4>2, <5>1 DEF Agreed
        <4>4. CASE m # cur
          BY <2>3, <3>3, <4>1, <4>2, <4>4 DEF Agreed, Same, Published
        <4> QED BY <4>2, <4>3, <4>4
      <3> QED BY <2>3, <3>1, <3>3, <3>5 DEF Knowing, Reviewing
    <2> QED BY <1>1, <1>12, <2>2, <2>3 DEF Answer, work
  <1>13. CASE HandleError
    <2> DEFINE e == Failed(jobs[cur])
    <2>1. /\ Saves([jobs EXCEPT ![cur] = e]) /\ pc \in {"stale", "setup", "error"}
          /\ pc' \in {"next", "exiting"} /\ UNCHANGED <<posted, wire>>
      BY <1>1, <1>13 DEF HandleError, github
    <2>2. CASE pc = "error" /\ jobs[cur].status = "posting"
      <3>1. e = jobs[cur]
        BY <2>2 DEF Failed
      <3> HIDE DEF e
      <3>2. Honest'
        BY <1>0, <1>3, <1>4, <2>1, <3>1, HonestEdit DEF TrueOf, Published
      <3> QED BY <1>6, <2>1, <3>2 DEF Reviewing
    <2>3. CASE ~(pc = "error" /\ jobs[cur].status = "posting")
      <3>1. ~Published(jobs, cur)
        BY <1>0, <1>5, <2>1, <2>3 DEF Knowing, Published, Reviewing
      <3>2. Nowhere(cur)
        BY <1>4, <3>1 DEF TrueOf
      <3>3. e.status \notin {"posting", "submitted"}
        <4>1. e.status \in {jobs[cur].status, "stale", "failed"}
          BY <1>3, FailedFields
        <4> HIDE DEF e
        <4> QED BY <3>1, <4>1 DEF Published
      <3> HIDE DEF e
      <3>4. Honest'
        BY <1>0, <1>3, <2>1, <3>2, <3>3, HonestEdit DEF Nowhere
      <3> QED BY <1>6, <2>1, <3>4 DEF Reviewing
    <2> QED BY <2>2, <2>3
  <1> QED BY <1>7, <1>8, <1>9, <1>10, <1>11, <1>12, <1>13

-----------------------------------------------------------------------------
(***************************************************************************)
(* What follows.                                                           *)
(***************************************************************************)

LEMMA IInvStep ==
  ASSUME ~StorageFails, ~StateLoss
  PROVE  IInv /\ [Next]_vars => IInv'
  <1> SUFFICES ASSUME IInv, [Next]_vars PROVE IInv'
    OBVIOUS
  <1>1. (TypeOK /\ Located)'
    BY TypeStep DEF IInv
  <1>2. ~LoseState
    BY DEF LoseState
  <1>3. (Knowing /\ Honest)'
    BY <1>2, GitHubKeeps, QuietActions, LoopKeeps, AttemptKeeps DEF Next, Daemon, Operator
  <1> QED BY <1>1, <1>3 DEF IInv

LEMMA Invariance ==
  ASSUME ~StorageFails, ~StateLoss
  PROVE  Spec => []IInv
  <1>1. Init => IInv
    BY InitIInv
  <1>2. IInv /\ [Next]_vars => IInv'
    BY IInvStep
  <1> QED BY <1>1, <1>2, PTL DEF Spec

\* The fate of a saved publication in one step.
LEMMA IntentStep ==
  ASSUME ~StorageFails, ~StateLoss, IInv, [Next]_vars, NEW k \in JobId, Published(disk, k)
  PROVE  \/ disk'[k].status = disk[k].status
         \/ /\ disk[k].status = "posting" /\ disk'[k].status \in {"submitted", "failed"}
            /\ UNCHANGED <<posted, wire>>
  <1> DEFINE Fate == \/ disk'[k].status = disk[k].status
                     \/ /\ disk[k].status = "posting" /\ disk'[k].status \in {"submitted", "failed"}
                        /\ UNCHANGED <<posted, wire>>
  <1>0. /\ TypeOK /\ Located /\ Knowing /\ Honest
        /\ jobs \in [JobId -> Job] /\ disk \in [JobId -> Job] /\ \A j : ~SaveFails(j)
    BY DEF IInv, TypeOK, StoreTypes, SaveFails
  <1>1. ~Refused(k) => Same(jobs[k], disk[k])
    BY <1>0 DEF Honest, Agreed
  <1>2. Refused(k) => pc = "error" /\ k = cur
    BY DEF Refused
  <1>3. CASE UNCHANGED disk
    BY <1>3
  \* An edit of another job, or one that keeps the status, is no edit of k.
  <1>4. ASSUME ~Refused(k), NEW m \in JobId, NEW e, Saves([jobs EXCEPT ![m] = e]),
               m = k => e.status = jobs[k].status
        PROVE  Fate
    <2>1. disk' = [jobs EXCEPT ![m] = e]
      BY <1>4 DEF Saves
    <2>2. disk'[k].status = jobs[k].status
      BY <1>0, <1>4, <2>1
    <2> QED BY <1>1, <1>4, <2>2 DEF Same
  <1>5. ASSUME NEW m \in JobId, Reconcile(m) PROVE Fate
    <2>1. ~Refused(k) /\ UNCHANGED <<posted, wire>> /\ jobs[m].status = "posting"
      BY <1>0, <1>5 DEF Reconcile, Refused, Located, Held, github
    <2>2. UNCHANGED disk \/ Saves([jobs EXCEPT ![m] = With(@, "submitted")])
      BY <1>0, <1>5 DEF Reconcile, store
    <2>3. CASE Saves([jobs EXCEPT ![m] = With(@, "submitted")]) /\ m = k
      <3>1. disk' = [jobs EXCEPT ![k] = With(@, "submitted")]
        BY <2>3 DEF Saves
      <3>2. disk'[k].status = "submitted"
        BY <1>0, <3>1, WithFields DEF Status
      <3> QED BY <1>1, <2>1, <2>3, <3>2 DEF Same
    <2>4. CASE Saves([jobs EXCEPT ![m] = With(@, "submitted")]) /\ m # k
      BY <1>4, <2>1, <2>4
    <2> QED BY <1>3, <2>2, <2>3, <2>4
  <1>6. CASE EndScan
    <2>1. disk' = jobs /\ ~Refused(k)
      BY <1>0, <1>6 DEF EndScan, Saves, Refused
    <2> QED BY <1>1, <2>1 DEF Same
  <1>7. ASSUME NEW m \in JobId, Recover(m) \/ BeginAttempt(m) PROVE Fate
    <2>1. ~Refused(k) /\ m # k
      BY <1>0, <1>1, <1>7 DEF Recover, BeginAttempt, Take, Refused, Located, Held, Same, Published
    <2> QED BY <1>0, <1>1, <1>7, <2>1 DEF Recover, BeginAttempt, Saves, Same
  <1>8. ASSUME pc \in Reviewing \ {"create", "await", "error"} PROVE ~Refused(k) /\ cur \in JobId /\ cur # k
    BY <1>0, <1>1, <1>8 DEF Refused, Knowing, Same, Published, Located, Placed
  <1>9. ASSUME NEW f \in Findings, Verify(f) PROVE Fate
    <2>1. pc = "verify" /\ Saves([jobs EXCEPT ![cur] = Judged(@, f)])
      BY <1>0, <1>9 DEF Verify
    <2> QED BY <1>4, <1>8, <2>1 DEF Reviewing
  <1>10. CASE Rediscuss
    <2>1. pc = "rediscuss" /\ (UNCHANGED disk \/ Saves([jobs EXCEPT ![cur] = With(@, "dry_run")]))
      BY <1>0, <1>10 DEF Rediscuss, store
    <2> QED BY <1>3, <1>4, <1>8, <2>1 DEF Reviewing
  <1>11. CASE LastPull
    <2>1. /\ pc = "lastpull"
          /\ \/ UNCHANGED disk
             \/ Saves([jobs EXCEPT ![cur] = [With(@, "posting") EXCEPT !.actor = account]])
      BY <1>0, <1>11 DEF LastPull, store
    <2> QED BY <1>3, <1>4, <1>8, <2>1 DEF Reviewing
  <1>12. CASE Answer
    <2>1. /\ pc = "await" /\ UNCHANGED <<posted, wire>> /\ ~Refused(k)
          /\ cur \in JobId /\ jobs[cur].status = "posting"
      BY <1>0, <1>12 DEF Answer, Refused, Knowing, Located, Placed, Reviewing, github
    <2>2. UNCHANGED disk \/ Saves([jobs EXCEPT ![cur] = With(@, "submitted")])
      BY <1>0, <1>12 DEF Answer
    <2>3. CASE Saves([jobs EXCEPT ![cur] = With(@, "submitted")]) /\ cur = k
      <3>1. disk' = [jobs EXCEPT ![k] = With(@, "submitted")]
        BY <2>3 DEF Saves
      <3>2. disk'[k].status = "submitted"
        BY <1>0, <3>1, WithFields DEF Status
      <3> QED BY <1>1, <2>1, <2>3, <3>2 DEF Same
    <2>4. CASE Saves([jobs EXCEPT ![cur] = With(@, "submitted")]) /\ cur # k
      BY <1>4, <2>1, <2>4
    <2> QED BY <1>3, <2>2, <2>3, <2>4
  <1>13. CASE HandleError
    <2>1. /\ pc \in {"stale", "setup", "error"} /\ Saves([jobs EXCEPT ![cur] = Failed(jobs[cur])])
          /\ UNCHANGED <<posted, wire>>
      BY <1>0, <1>13 DEF HandleError, github
    <2>2. CASE pc # "error"
      BY <1>4, <1>8, <2>1, <2>2 DEF Reviewing
    <2>3. CASE Refused(k)
      <3>1. disk' = [jobs EXCEPT ![k] = Failed(jobs[k])] /\ pc = "error" /\ jobs[k].status = "failed"
            /\ disk[k].status = "posting"
        BY <2>1, <2>3 DEF Saves, Refused
      <3>2. Failed(jobs[k]).status = "failed"
        BY <1>0, <3>1, DelayedType DEF Failed
      <3>3. disk'[k].status = "failed"
        BY <1>0, <3>1, <3>2
      <3> QED BY <2>1, <3>1, <3>3
    <2>4. CASE pc = "error" /\ ~Refused(k) /\ cur = k
      <3>1. jobs[k].status = "posting"
        BY <1>0, <1>1, <2>4 DEF Knowing, Same, Published
      <3>2. Failed(jobs[k]) = jobs[k]
        BY <2>4, <3>1 DEF Failed
      <3> QED BY <1>4, <2>1, <2>4, <3>2
    <2>5. CASE pc = "error" /\ ~Refused(k) /\ cur # k
      <3>1. cur \in JobId
        BY <1>0, <2>5 DEF Located, Placed, Reviewing
      <3> QED BY <1>4, <2>1, <2>5, <3>1
    <2> QED BY <1>2, <2>2, <2>3, <2>4, <2>5
  <1>14. ASSUME NEW scope, NEW d, Retry(scope, d) PROVE Fate
    <2>1. disk'[k] = disk[k]
      BY <1>14 DEF Retry, Saves, Published
    <2> QED BY <2>1
  <1>15. ASSUME NEW m \in JobId, RetryElapses(m) PROVE Fate
    <2>1. disk' = [disk EXCEPT ![m] = [disk[m] EXCEPT !.wait = FALSE]]
      BY <1>15 DEF RetryElapses
    <2>2. disk'[k].status = disk[k].status
      BY <1>0, <2>1, FieldTypes
    <2> QED BY <2>2
  <1>16. ASSUME Next, ~UNCHANGED disk PROVE
           \/ \E m \in JobId : Reconcile(m) \/ Recover(m) \/ BeginAttempt(m) \/ RetryElapses(m)
           \/ \E f \in Findings : Verify(f)
           \/ EndScan \/ Rediscuss \/ LastPull \/ Answer \/ HandleError
           \/ \E scope, d : Retry(scope, d)
    BY <1>16 DEF Next, Daemon, Operator, GitHub, Accept, Reject, Drop, People, Toggle, Describe,
       Comment, Push, Start, Poll, ToReconcile, ListPulls, EndQueue, LookupFails, ReadDiscussion,
       Snapshot, Investigate, Compose, Recheck, GiveUp, ReviewFails, SetupFails, Scan, Create,
       Exit, Crash, Halt, LoseState, store
  <1> QED BY <1>3, <1>5, <1>6, <1>7, <1>9, <1>10, <1>11, <1>12, <1>13, <1>14, <1>15, <1>16 DEF vars, store

\* On storage that keeps what it was given, no revision is reviewed twice:
\* for any number of pull requests, commits, accounts and attempts, whatever
\* crashes, is lost or comes late, and with a listing that lags (run.go: the
\* posting status, existing, reconcile).
THEOREM OneReviewPerRevision ==
  ASSUME ~StorageFails, ~StateLoss
  PROVE  Spec => []AtMostOnce
  <1>1. IInv => AtMostOnce
    <2> SUFFICES ASSUME IInv, NEW k \in JobId
                 PROVE  Len(posted[k]) + Len(wire[k]) <= (IF k.dry THEN 0 ELSE 1)
      BY DEF AtMostOnce
    <2>1. TrueOf(disk, k)
      BY DEF IInv, Honest
    <2>2. CASE Published(disk, k)
      BY <2>1, <2>2 DEF TrueOf
    <2>3. CASE ~Published(disk, k)
      <3>1. posted[k] = <<>> /\ wire[k] = <<>>
        BY <2>1, <2>3 DEF TrueOf, Nowhere
      <3>2. Len(posted[k]) = 0 /\ Len(wire[k]) = 0
        BY <3>1, EmptySeq
      <3> QED BY <3>2
    <2> QED BY <2>2, <2>3
  <1> QED BY <1>1, Invariance, PTL

\* On such storage a request on its way always has its intent in state.json,
\* with the findings and the account it carries (run.go: the save before
\* create).
THEOREM IntentIsDurable ==
  ASSUME ~StorageFails, ~StateLoss
  PROVE  Spec => []DurableIntent
  <1>1. IInv => DurableIntent
    <2> SUFFICES ASSUME IInv, NEW k \in JobId, wire[k] # <<>>
                 PROVE  /\ disk[k].status = "posting"
                        /\ disk[k].payload = Head(wire[k]).found
                        /\ disk[k].actor = Head(wire[k]).by
      BY DEF DurableIntent
    <2>1. TypeOK /\ Honest /\ TrueOf(disk, k)
      BY DEF IInv, Honest
    <2>2. Published(disk, k) /\ posted[k] = <<>>
      BY <2>1, InFlight, OneRequest
    <2> QED BY <2>1, <2>2 DEF TrueOf, Published
  <1> QED BY <1>1, Invariance, PTL

\* On such storage what state.json says of a publication stands until GitHub
\* has settled it (run.go: only reconcile, the answer to create and a refusal
\* end an intent).
THEOREM PublicationStands ==
  ASSUME ~StorageFails, ~StateLoss
  PROVE  Spec => PublicationsStand
  <1> DEFINE Step(k) ==
        /\ disk[k].status = "submitted" => disk'[k].status = "submitted"
        /\ disk[k].status = "posting" /\ disk'[k].status # "posting" =>
             \/ disk'[k].status = "submitted" /\ posted[k] # <<>>
             \/ disk'[k].status = "failed" /\ posted[k] = <<>> /\ wire[k] = <<>>
  <1>1. IInv /\ IInv' /\ [Next]_vars => \A k \in JobId : Step(k)
    <2> SUFFICES ASSUME IInv, IInv', [Next]_vars, NEW k \in JobId, Published(disk, k)
                 PROVE  Step(k)
      BY DEF Published
    <2>1. \/ disk'[k].status = disk[k].status
          \/ /\ disk[k].status = "posting" /\ disk'[k].status \in {"submitted", "failed"}
             /\ UNCHANGED <<posted, wire>>
      BY IntentStep
    <2>2. TrueOf(disk, k)'
      BY DEF IInv, Honest
    <2> QED BY <2>1, <2>2 DEF TrueOf, Published, Nowhere
  <1> QED BY <1>1, Invariance, PTL DEF Spec, PublicationsStand

-----------------------------------------------------------------------------
(***************************************************************************)
(* PublishOnce.                                                            *)
(***************************************************************************)

\* What the saved state says of a job, and what became of its request.
Phase(e) ==
  CASE e.status = "posting"   -> "intent"
    [] e.status = "submitted" -> "done"
    [] OTHER                  -> "open"
Fate(k) == IF posted[k] # <<>> THEN "published" ELSE IF wire[k] # <<>> THEN "sent" ELSE "none"

LEMMA Mapping ==
  /\ \A e : Phase(e) = "intent" <=> e.status = "posting"
  /\ \A e : Phase(e) = "done" <=> e.status = "submitted"
  /\ \A e : Phase(e) \in {"open", "intent", "done"}
  BY DEF Phase

\* The process and its file agree on the phase of a job, unless a refusal is
\* not saved yet.
LEMMA SamePhase ==
  ASSUME IInv, NEW k \in JobId, ~Refused(k)
  PROVE  Phase(jobs[k]) = Phase(disk[k])
  <1>1. Agreed(k)
    BY DEF IInv, Honest
  <1> QED BY <1>1, Mapping DEF Agreed, Same, Published

\* Every step changes the phase of one job at most.
LEMMA OnePhase ==
  ASSUME ~StorageFails, ~StateLoss, IInv, [Next]_vars
  PROVE  \E m : \A k \in JobId \ {m} : Phase(disk'[k]) = Phase(disk[k])
  <1> DEFINE Goal == \E m : \A k \in JobId \ {m} : Phase(disk'[k]) = Phase(disk[k])
  <1>0. /\ TypeOK /\ Located /\ Knowing /\ Honest
        /\ jobs \in [JobId -> Job] /\ disk \in [JobId -> Job] /\ \A j : ~SaveFails(j)
    BY DEF IInv, TypeOK, StoreTypes, SaveFails
  <1>1. CASE UNCHANGED disk
    BY <1>1
  <1>2. ASSUME NEW m \in JobId, NEW e, Saves([jobs EXCEPT ![m] = e]), pc # "error" \/ m = cur
        PROVE  Goal
    <2>1. \A k \in JobId \ {m} : disk'[k] = jobs[k] /\ ~Refused(k)
      BY <1>0, <1>2 DEF Saves, Refused
    <2>2. \A k \in JobId \ {m} : Phase(disk'[k]) = Phase(disk[k])
      BY <2>1, SamePhase
    <2> QED BY <2>2
  <1>3. ASSUME NEW m \in JobId, Reconcile(m) PROVE Goal
    <2>1. UNCHANGED disk \/ Saves([jobs EXCEPT ![m] = With(@, "submitted")])
      BY <1>0, <1>3 DEF Reconcile, store
    <2> QED BY <1>1, <1>2, <1>3, <2>1 DEF Reconcile
  <1>4. CASE EndScan
    <2>1. \A k \in JobId : disk'[k] = jobs[k] /\ ~Refused(k)
      BY <1>0, <1>4 DEF EndScan, Saves, Refused
    <2>2. \A k \in JobId : Phase(disk'[k]) = Phase(disk[k])
      BY <2>1, SamePhase
    <2> QED BY <2>2
  <1>5. ASSUME NEW m \in JobId, Recover(m) \/ BeginAttempt(m) PROVE Goal
    <2>1. /\ pc = "next"
          /\ \/ UNCHANGED disk
             \/ \A k \in JobId \ {m} : disk'[k] = jobs[k]
      BY <1>0, <1>5 DEF Recover, BeginAttempt, Take, Saves
    <2>2. \A k \in JobId : ~Refused(k)
      BY <2>1 DEF Refused
    <2>3. CASE \A k \in JobId \ {m} : disk'[k] = jobs[k]
      <3>1. \A k \in JobId \ {m} : Phase(disk'[k]) = Phase(disk[k])
        BY <2>2, <2>3, SamePhase
      <3> QED BY <3>1
    <2> QED BY <1>1, <2>1, <2>3
  <1>6. ASSUME NEW e, Saves([jobs EXCEPT ![cur] = e]), pc \in Reviewing PROVE Goal
    <2>1. cur \in JobId
      BY <1>0, <1>6 DEF Located, Placed
    <2> QED BY <1>2, <1>6, <2>1
  <1>7. ASSUME NEW f \in Findings, Verify(f) PROVE Goal
    <2>1. pc \in Reviewing /\ Saves([jobs EXCEPT ![cur] = Judged(@, f)])
      BY <1>0, <1>7 DEF Verify, Reviewing
    <2> QED BY <1>6, <2>1
  <1>8. CASE Rediscuss
    <2>1. pc \in Reviewing /\ (UNCHANGED disk \/ Saves([jobs EXCEPT ![cur] = With(@, "dry_run")]))
      BY <1>0, <1>8 DEF Rediscuss, store, Reviewing
    <2> QED BY <1>1, <1>6, <2>1
  <1>9. CASE LastPull
    <2>1. /\ pc \in Reviewing
          /\ \/ UNCHANGED disk
             \/ Saves([jobs EXCEPT ![cur] = [With(@, "posting") EXCEPT !.actor = account]])
      BY <1>0, <1>9 DEF LastPull, store, Reviewing
    <2> QED BY <1>1, <1>6, <2>1
  <1>10. CASE Answer
    <2>1. /\ pc \in Reviewing
          /\ (UNCHANGED disk \/ Saves([jobs EXCEPT ![cur] = With(@, "submitted")]))
      BY <1>0, <1>10 DEF Answer, Reviewing
    <2> QED BY <1>1, <1>6, <2>1
  <1>11. CASE HandleError
    <2>1. pc \in Reviewing /\ Saves([jobs EXCEPT ![cur] = Failed(jobs[cur])])
      BY <1>0, <1>11 DEF HandleError, Reviewing
    <2> QED BY <1>6, <2>1
  <1>12. ASSUME NEW scope, NEW d, Retry(scope, d) PROVE Goal
    <2>1. \A k \in JobId : \/ disk'[k] = disk[k]
                           \/ disk[k].status = "failed" /\ disk'[k] = Reset(disk[k])
      BY <1>12 DEF Retry, Saves
    <2>2. \A k \in JobId : Reset(disk[k]).status = "pending"
      BY <1>0, ResetType
    <2>3. \A k \in JobId : Phase(disk'[k]) = Phase(disk[k])
      BY <2>1, <2>2 DEF Phase
    <2> QED BY <2>3
  <1>13. ASSUME NEW m \in JobId, RetryElapses(m) PROVE Goal
    <2>1. disk' = [disk EXCEPT ![m] = [disk[m] EXCEPT !.wait = FALSE]]
      BY <1>13 DEF RetryElapses
    <2> QED BY <1>0, <2>1
  <1>14. ASSUME Next, ~UNCHANGED disk PROVE
           \/ \E m \in JobId : Reconcile(m) \/ Recover(m) \/ BeginAttempt(m) \/ RetryElapses(m)
           \/ \E f \in Findings : Verify(f)
           \/ EndScan \/ Rediscuss \/ LastPull \/ Answer \/ HandleError
           \/ \E scope, d : Retry(scope, d)
    BY <1>14 DEF Next, Daemon, Operator, GitHub, Accept, Reject, Drop, People, Toggle, Describe,
       Comment, Push, Start, Poll, ToReconcile, ListPulls, EndQueue, LookupFails, ReadDiscussion,
       Snapshot, Investigate, Compose, Recheck, GiveUp, ReviewFails, SetupFails, Scan, Create,
       Exit, Crash, Halt, LoseState, store
  <1> HIDE DEF Goal
  <1>15. ASSUME Next, ~UNCHANGED disk PROVE Goal
    <2>1. CASE \E m \in JobId : Reconcile(m) \/ Recover(m) \/ BeginAttempt(m) \/ RetryElapses(m)
      BY <1>3, <1>5, <1>13, <2>1
    <2>2. CASE \E f \in Findings : Verify(f)
      BY <1>7, <2>2
    <2>3. CASE \E scope, d : Retry(scope, d)
      BY <1>12, <2>3
    <2> QED BY <1>4, <1>8, <1>9, <1>10, <1>11, <1>14, <1>15, <2>1, <2>2, <2>3 DEF Goal
  <1>16. CASE UNCHANGED vars
    BY <1>1, <1>16 DEF vars, store
  <1> QED BY <1>1, <1>15, <1>16 DEF Goal

\* A step that does not reach GitHub is one of PublishOnce, or none, by what
\* the file says before and after.
LEMMA LocalStep ==
  ASSUME ~StorageFails, ~StateLoss, IInv, IInv', [Next]_vars, UNCHANGED <<posted, wire>>
  PROVE  [Publication!Next]_(Publication!vars)
  <1> DEFINE phase == [k \in Live |-> Phase(disk[k])]
  <1>1. PICK m : \A k \in JobId \ {m} : Phase(disk'[k]) = Phase(disk[k])
    BY OnePhase
  <1>2. \A k \in Live : k \in JobId /\ TrueOf(disk, k) /\ TrueOf(disk, k)'
    BY DEF IInv, Honest, Live
  <1>3. CASE \A k \in Live : Phase(disk'[k]) = Phase(disk[k])
    BY <1>3 DEF Publication!vars, Phase
  <1>4. CASE m \in Live /\ Phase(disk'[m]) # Phase(disk[m])
    <2>1. phase' = [phase EXCEPT ![m] = Phase(disk'[m])]
      BY <1>1, <1>4 DEF Live, Phase
    <2>2. CASE Phase(disk[m]) = "open" /\ Phase(disk'[m]) = "intent"
      <3>1. Fate(m) = "none"
        BY <1>2, <1>4, <2>2, Mapping DEF TrueOf, Published, Nowhere, Fate
      <3>2. Publication!Commit(m)
        BY <1>4, <2>1, <2>2, <3>1 DEF Publication!Commit, Phase, Fate
      <3> QED BY <1>4, <3>2 DEF Publication!Next
    <2>3. CASE Phase(disk[m]) = "intent" /\ Phase(disk'[m]) = "done"
      <3>1. Fate(m) = "published"
        BY <1>2, <1>4, <2>3, Mapping DEF TrueOf, Fate
      <3>2. Publication!Confirm(m)
        BY <1>4, <2>1, <2>3, <3>1 DEF Publication!Confirm, Phase, Fate
      <3> QED BY <1>4, <3>2 DEF Publication!Next
    <2>4. CASE Phase(disk[m]) = "intent" /\ Phase(disk'[m]) = "open"
      <3>1. Fate(m) = "none"
        BY <1>2, <1>4, <2>4, Mapping DEF TrueOf, Published, Nowhere, Fate
      <3>2. Publication!Withdraw(m)
        BY <1>4, <2>1, <2>4, <3>1 DEF Publication!Withdraw, Phase, Fate
      <3> QED BY <1>4, <3>2 DEF Publication!Next
    <2>5. ~(Phase(disk[m]) = "open" /\ Phase(disk'[m]) = "done")
      BY <1>2, <1>4, Mapping DEF TrueOf, Published, Nowhere
    <2>6. Phase(disk[m]) # "done"
      <3>1. SUFFICES ASSUME Phase(disk[m]) = "done" PROVE FALSE
        OBVIOUS
      <3>2. m \in JobId /\ disk[m].status = "submitted" /\ Published(disk, m)
        BY <1>2, <1>4, <3>1, Mapping DEF Published
      <3>3. disk'[m].status = disk[m].status
        BY <3>2, IntentStep
      <3> QED BY <1>4, <3>3 DEF Phase
    <2> QED BY <1>4, <2>2, <2>3, <2>4, <2>5, <2>6, Mapping
  <1> QED BY <1>1, <1>2, <1>3, <1>4

\* A step of a request is one of PublishOnce.
LEMMA RemoteStep ==
  ASSUME IInv, NEW k \in Live, UNCHANGED disk,
         \A m \in JobId \ {k} : posted'[m] = posted[m] /\ wire'[m] = wire[m],
         \/ disk[k].status = "posting" /\ Fate(k) = "none" /\ Fate(k)' = "sent"
         \/ Fate(k) = "sent" /\ Fate(k)' \in {"none", "published"}
  PROVE  Publication!Next
  <1> DEFINE remote == [m \in Live |-> Fate(m)]
  <1>1. remote' = [remote EXCEPT ![k] = Fate(k)']
    BY DEF Live, Fate
  <1>2. CASE disk[k].status = "posting" /\ Fate(k) = "none" /\ Fate(k)' = "sent"
    <2>1. Publication!Send(k)
      BY <1>1, <1>2 DEF Publication!Send, Fate
    <2> QED BY <2>1 DEF Publication!Next
  <1>3. CASE Fate(k) = "sent" /\ Fate(k)' \in {"none", "published"}
    <2>1. Publication!Resolve(k)
      BY <1>1, <1>3 DEF Publication!Resolve, Fate
    <2> QED BY <2>1 DEF Publication!Next
  <1> QED BY <1>2, <1>3

\* GitHub accepts, refuses or forgets the one request that is under way.
LEMMA AnswerStep ==
  ASSUME IInv, GitHub
  PROVE  Publication!Next
  <1>1. PICK k \in JobId : Accept(k) \/ Reject(k) \/ Drop(k)
    BY DEF GitHub
  <1>2. /\ wire[k] # <<>> /\ UNCHANGED disk
        /\ wire \in [JobId -> Seq(Review)] /\ posted \in [JobId -> Seq(Review)]
    BY <1>1 DEF Accept, Reject, Drop, store, IInv, TypeOK, GitHubTypes
  <1>3. Published(disk, k) /\ posted[k] = <<>> /\ Tail(wire[k]) = <<>> /\ Append(posted[k], Head(wire[k])) # <<>>
    BY <1>2, InFlight, OneRequest DEF IInv
  <1>4. k \in Live /\ Fate(k) = "sent"
    BY <1>2, <1>3 DEF IInv, Honest, TrueOf, Live, Fate
  <1>5. \A m \in JobId \ {k} : posted'[m] = posted[m] /\ wire'[m] = wire[m]
    BY <1>1, <1>2 DEF Accept, Reject, Drop
  <1>6. wire'[k] = <<>>
    BY <1>1, <1>2, <1>3 DEF Accept, Reject, Drop
  <1>7. Fate(k)' \in {"none", "published"}
    BY <1>6 DEF Fate
  <1> QED BY <1>2, <1>4, <1>5, <1>7, RemoteStep

\* A request is sent for the intent that was saved.
LEMMA CreateStep ==
  ASSUME IInv, Create, ~UNCHANGED <<posted, wire>>
  PROVE  Publication!Next
  <1>1. /\ pc = "create" /\ UNCHANGED <<disk, posted>>
        /\ wire' = [wire EXCEPT ![cur] = Append(@, [by |-> account, found |-> jobs[cur].payload])]
    BY DEF Create
  <1>2. /\ cur \in JobId /\ jobs[cur].status = "posting" /\ Nowhere(cur)
        /\ wire \in [JobId -> Seq(Review)]
    BY <1>1 DEF IInv, Knowing, Located, Placed, Reviewing, TypeOK, GitHubTypes
  <1>3. disk[cur].status = "posting"
    <2>1. Agreed(cur) /\ ~Refused(cur)
      BY <1>1, <1>2 DEF IInv, Honest, Refused
    <2> QED BY <1>2, <2>1 DEF Agreed, Published, Same
  <1>4. cur \in Live
    BY <1>2, <1>3 DEF IInv, Honest, TrueOf, Published, Live
  <1>5. wire'[cur] # <<>>
    BY <1>1, <1>2 DEF Nowhere
  <1>6. Fate(cur) = "none" /\ posted'[cur] = <<>> /\ \A m \in JobId \ {cur} : wire'[m] = wire[m]
    BY <1>1, <1>2 DEF Nowhere, Fate
  <1>7. ASSUME NEW k \in Live, k = cur PROVE Publication!Next
    <2>1. Fate(k)' = "sent"
      BY <1>5, <1>6, <1>7 DEF Fate
    <2> QED BY <1>1, <1>3, <1>6, <1>7, <2>1, RemoteStep
  <1> QED BY <1>4, <1>7

LEMMA PublicationInit == Init => Publication!Init
  BY DEF Init, Publication!Init, Live, NoJob

LEMMA PublicationStep ==
  ASSUME ~StorageFails, ~StateLoss, IInv, IInv', [Next]_vars
  PROVE  [Publication!Next]_(Publication!vars)
  <1>1. CASE UNCHANGED <<posted, wire>>
    BY <1>1, LocalStep
  <1>2. CASE GitHub
    BY <1>2, AnswerStep
  <1>3. CASE Create /\ ~UNCHANGED <<posted, wire>>
    BY <1>3, CreateStep
  <1>4. ASSUME Next, ~UNCHANGED <<posted, wire>> PROVE GitHub \/ Create
    BY <1>4 DEF Next, Daemon, Operator, People, Toggle, Describe, Comment, Push, Start, Poll,
       ToReconcile, ListPulls, EndScan, EndQueue, Reconcile, LookupFails, Recover, BeginAttempt, Scan,
       ReadDiscussion, Snapshot, Investigate, Compose, Verify, Recheck, Rediscuss, LastPull, Answer,
       GiveUp, ReviewFails, SetupFails, HandleError, Retry, RetryElapses, Exit, Crash, Halt, LoseState,
       github
  <1> QED BY <1>1, <1>2, <1>3, <1>4 DEF vars, github

\* On storage that keeps what it was given, the daemon implements PublishOnce:
\* it commits before it asks, asks once per commitment, and leaves the
\* commitment when it knows the outcome (run.go: step, review, reconcile).
THEOREM ImplementsPublishOnce ==
  ASSUME ~StorageFails, ~StateLoss
  PROVE  Spec => PublishesOnce
  <1>1. IInv /\ IInv' /\ [Next]_vars => [Publication!Next]_(Publication!vars)
    BY PublicationStep
  <1> QED BY <1>1, PublicationInit, Invariance, PTL DEF Spec, PublishesOnce, Publication!Spec
=============================================================================
