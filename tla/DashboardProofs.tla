--------------------------- MODULE DashboardProofs ---------------------------
(***************************************************************************)
(* Proofs about Dashboard: for any number of reviews, log lines and keys,  *)
(* any limits and any heights, and reports, records, keys and renderings   *)
(* in every order.  And about Keys: for any presses, any lengths of a read *)
(* and any splits of the bytes, on a link that keeps the bytes of a press  *)
(* together.                                                               *)
(***************************************************************************)
EXTENDS Dashboard, Keys, SequenceTheorems, FiniteSetTheorems, TLAPS

\* The newest review that was reported.
LastId == IF reviews = <<>> THEN 0 ELSE reviews[Len(reviews)].id

\* The reviews on the screen are the last ones up to LastId.
RangeInv ==
  /\ LastId <= Len(jobs) /\ Len(reviews) = Lesser(LastId, ReportLimit)
  /\ \A i \in 1..Len(reviews) : reviews[i].id = LastId - Len(reviews) + i

\* The activity is the last lines.
LogInv ==
  /\ Len(activity) = Lesser(lines, ActivityLimit)
  /\ \A i \in 1..Len(activity) : activity[i].line = lines - Len(activity) + i

\* An open review was reported, and is not shown over the activity.
OpenInv == detail => view # 2 /\ reviews # <<>> /\ chosen <= LastId

\* An attempt is at a review that is not submitted.
PublishingInv == attempt # 0 => jobs[attempt] \in {"pending", "posting"}

\* What the last report said of a submitted review, and the first one of those
\* that the run found submitted.
SaidOf(r) ==
  /\ r.status = "submitted" => r.id \in SubmittedIn(jobs)
  /\ r.id \in recorded => r.status = "submitted"
  /\ r.id \in before => \E i \in DOMAIN initial : initial[i] = r

BeforeInv ==
  /\ ~reported => reviews = <<>> /\ initial = <<>> /\ attempt = 0 /\ before = SubmittedIn(jobs)
  /\ reported => \A n \in before : n <= LastId
  /\ before \subseteq recorded
  /\ \A i \in DOMAIN reviews : SaidOf(reviews[i])
  /\ \A i \in DOMAIN initial : initial[i].status = "submitted" => initial[i].id \in before

DashInv ==
  DashTypeOK /\ RangeInv /\ LogInv /\ OpenInv /\ OpenedStays /\ PublishingInv /\ BeforeInv

-----------------------------------------------------------------------------
(***************************************************************************)
(* What is kept of a list.                                                 *)
(***************************************************************************)

LEMMA LatestProperties ==
  ASSUME NEW S, NEW s \in Seq(S), NEW n \in Nat
  PROVE  LET l == Lesser(Len(s), n) IN
         /\ Latest(s, n) \in Seq(S) /\ Len(Latest(s, n)) = l
         /\ \A i \in 1..l : Latest(s, n)[i] = s[Len(s) - l + i]
<1> DEFINE l == Lesser(Len(s), n)  m == AtLeast0(Len(s) - n) + 1
<1>1. Len(s) \in Nat /\ m \in Nat \ {0} /\ l \in Nat /\ Len(s) - m + 1 = l
  <2>1. Len(s) \in Nat
    BY LenProperties
  <2>2. CASE Len(s) < n
    <3>1. m = 1 /\ l = Len(s)
      BY <2>1, <2>2 DEF Lesser, AtLeast0
    <3> QED BY <2>1, <3>1
  <2>3. CASE ~(Len(s) < n)
    <3>1. m = Len(s) - n + 1 /\ l = n
      BY <2>1, <2>3 DEF Lesser, AtLeast0
    <3> QED BY <2>1, <2>3, <3>1
  <2> QED BY <2>2, <2>3
<1>2. \A i \in m..Len(s) : s[i] \in S
  BY <1>1, ElementOfSeq
<1>3. Latest(s, n) = SubSeq(s, m, Len(s))
  BY DEF Latest
<1> HIDE DEF l, m
<1>4. /\ SubSeq(s, m, Len(s)) \in Seq(S)
      /\ Len(SubSeq(s, m, Len(s))) = IF m <= Len(s) THEN Len(s) - m + 1 ELSE 0
      /\ \A i \in 1..(Len(s) - m + 1) : SubSeq(s, m, Len(s))[i] = s[m + i - 1]
  BY <1>1, <1>2, SubSeqProperties
<1>5. Len(SubSeq(s, m, Len(s))) = l
  BY <1>1, <1>4
<1>6. \A i \in 1..l : m + i - 1 = Len(s) - l + i
  BY <1>1
<1>7. \A i \in 1..l : Latest(s, n)[i] = s[Len(s) - l + i]
  BY <1>1, <1>3, <1>4, <1>6
<1> QED BY <1>3, <1>4, <1>5, <1>7 DEF l

\* A report has the last reviews.
LEMMA ReportProperties ==
  ASSUME NEW st \in Seq(JobStatuses)
  PROVE  LET l == Lesser(Len(st), ReportLimit) IN
         /\ ReportOf(st) \in Seq([id : DOMAIN st, status : JobStatuses])
         /\ Len(ReportOf(st)) = l /\ l \in Nat /\ l <= Len(st)
         /\ \A i \in 1..l : ReportOf(st)[i] = [id |-> Len(st) - l + i, status |-> st[Len(st) - l + i]]
<1> DEFINE all == [n \in DOMAIN st |-> [id |-> n, status |-> st[n]]]
           l == Lesser(Len(st), ReportLimit)
<1>1. Len(st) \in Nat /\ DOMAIN st = 1..Len(st) /\ \A i \in 1..Len(st) : st[i] \in JobStatuses
  BY LenProperties
<1>2. all \in [1..Len(st) -> [id : DOMAIN st, status : JobStatuses]]
  BY <1>1
<1>3. all \in Seq([id : DOMAIN st, status : JobStatuses]) /\ Len(all) = Len(st)
  BY <1>1, <1>2
<1>4. ReportLimit \in Nat
  BY DashboardAssumption
<1>5. l \in Nat /\ l <= Len(st)
  BY <1>1, <1>4 DEF Lesser
<1>6. \A i \in 1..l : Len(st) - l + i \in DOMAIN st
  BY <1>1, <1>5
<1>7. ReportOf(st) = Latest(all, ReportLimit)
  BY DEF ReportOf
<1>8. \A k \in DOMAIN st : all[k] = [id |-> k, status |-> st[k]]
  OBVIOUS
<1> HIDE DEF all
<1>9. /\ Latest(all, ReportLimit) \in Seq([id : DOMAIN st, status : JobStatuses])
      /\ Len(Latest(all, ReportLimit)) = Lesser(Len(all), ReportLimit)
      /\ \A i \in 1..Lesser(Len(all), ReportLimit) :
           Latest(all, ReportLimit)[i] = all[Len(all) - Lesser(Len(all), ReportLimit) + i]
  BY <1>3, <1>4, LatestProperties
<1> HIDE DEF l
<1>10. \A i \in 1..l : ReportOf(st)[i] = [id |-> Len(st) - l + i, status |-> st[Len(st) - l + i]]
  BY <1>3, <1>6, <1>7, <1>8, <1>9 DEF l
<1> QED BY <1>3, <1>5, <1>7, <1>9, <1>10 DEF l

\* The IDs on the screen are an interval.
IdsInv ==
  /\ LastId \in Nat /\ Len(reviews) \in Nat /\ Len(reviews) <= LastId
  /\ IdsOf(reviews) = (LastId - Len(reviews) + 1)..LastId

LEMMA IdsAreRange == DashTypeOK /\ RangeInv => IdsInv
<1> SUFFICES ASSUME DashTypeOK, RangeInv PROVE IdsInv
  OBVIOUS
<1>1. reviews \in Seq([id : DOMAIN jobs, status : JobStatuses]) /\ jobs \in Seq(JobStatuses)
  BY DEF DashTypeOK, JobStatuses
<1>2. Len(reviews) \in Nat /\ DOMAIN reviews = 1..Len(reviews) /\ DOMAIN jobs = 1..Len(jobs)
  BY <1>1, LenProperties
<1>3. LastId \in Nat
  <2>1. CASE reviews = <<>>
    BY <2>1 DEF LastId
  <2>2. CASE reviews # <<>>
    <3>1. Len(reviews) \in 1..Len(reviews)
      BY <1>1, <1>2, <2>2, EmptySeq
    <3>2. reviews[Len(reviews)] \in [id : DOMAIN jobs, status : JobStatuses]
      BY <1>1, <3>1, ElementOfSeq
    <3> QED BY <1>2, <2>2, <3>2 DEF LastId
  <2> QED BY <2>1, <2>2
<1>4. ReportLimit \in Nat \ {0}
  BY DashboardAssumption
<1>5. Len(reviews) <= LastId
  <2>1. Len(reviews) = Lesser(LastId, ReportLimit)
    BY DEF RangeInv
  <2> QED BY <1>3, <1>4, <2>1 DEF Lesser
<1>6. \A i \in 1..Len(reviews) : reviews[i].id = LastId - Len(reviews) + i
  BY DEF RangeInv
<1>7. \A k \in (LastId - Len(reviews) + 1)..LastId : k - (LastId - Len(reviews)) \in 1..Len(reviews)
  BY <1>2, <1>3
<1>8. \A k \in (LastId - Len(reviews) + 1)..LastId : k \in IdsOf(reviews)
  <2> SUFFICES ASSUME NEW k \in (LastId - Len(reviews) + 1)..LastId PROVE k \in IdsOf(reviews)
    OBVIOUS
  <2> DEFINE i == k - (LastId - Len(reviews))
  <2>1. i \in 1..Len(reviews) /\ LastId - Len(reviews) + i = k
    BY <1>2, <1>3, <1>7
  <2>2. reviews[i].id = k
    BY <1>6, <2>1
  <2> QED BY <1>2, <2>1, <2>2 DEF IdsOf
<1>9. \A k \in IdsOf(reviews) : k \in (LastId - Len(reviews) + 1)..LastId
  BY <1>2, <1>3, <1>6 DEF IdsOf
<1> QED BY <1>2, <1>3, <1>5, <1>8, <1>9 DEF IdsInv
-----------------------------------------------------------------------------
(***************************************************************************)
(* Reports.                                                                *)
(***************************************************************************)

\* A report brings the range up to date, and moves the selected position with
\* the review it follows.
LEMMA UpdateStep ==
  ASSUME DashTypeOK, jobs' \in Seq(JobStatuses), Update(ReportOf(jobs'))
  PROVE  /\ reviews' \in Seq([id : DOMAIN jobs', status : JobStatuses])
         /\ RangeInv' /\ LastId' = Len(jobs')
         /\ \A i \in DOMAIN reviews' : /\ reviews'[i].id \in DOMAIN jobs'
                                       /\ reviews'[i].status = jobs'[reviews'[i].id]
         /\ selected' \in 0..AtLeast0(Len(reviews') - 1)
         /\ Follows(reviews') => Shown' = Shown
         /\ ~Follows(reviews') /\ selected = 0 => selected' = 0
<1> DEFINE new == ReportOf(jobs')
           l == Lesser(Len(jobs'), ReportLimit)
<1>1. /\ reviews' = new
      /\ selected' = AtLeast0(Lesser(IF Follows(new) THEN PositionIn(new) ELSE selected, Len(new) - 1))
  BY DEF Update
<1>2. /\ new \in Seq([id : DOMAIN jobs', status : JobStatuses]) /\ Len(new) = l /\ l \in Nat /\ l <= Len(jobs')
      /\ \A i \in 1..l : new[i] = [id |-> Len(jobs') - l + i, status |-> jobs'[Len(jobs') - l + i]]
  BY ReportProperties
<1>3. Len(jobs') \in Nat /\ DOMAIN new = 1..l /\ ReportLimit \in Nat \ {0} /\ selected \in Nat
  <2>1. Len(reviews) \in Nat
    BY LenProperties DEF DashTypeOK
  <2>2. selected \in Nat
    BY <2>1 DEF DashTypeOK, AtLeast0
  <2> QED BY <1>2, <2>2, LenProperties, DashboardAssumption
<1> HIDE DEF new
<1>4. new = <<>> <=> l = 0
  BY <1>2, EmptySeq
<1>5. LastId' = Len(jobs')
  <2>1. CASE l = 0
    <3>1. Len(jobs') = 0
      BY <1>3, <2>1 DEF Lesser
    <3> QED BY <1>1, <1>4, <2>1, <3>1 DEF LastId
  <2>2. CASE l # 0
    <3>1. new[l].id = Len(jobs') - l + l
      BY <1>2, <2>2
    <3>2. LastId' = new[l].id
      BY <1>1, <1>2, <1>4, <2>2 DEF LastId
    <3> QED BY <1>2, <1>3, <3>1, <3>2
  <2> QED BY <2>1, <2>2
<1>6. RangeInv'
  <2>1. LastId' <= Len(jobs') /\ Len(reviews') = Lesser(LastId', ReportLimit)
    BY <1>1, <1>2, <1>3, <1>5
  <2>2. \A i \in 1..Len(reviews') : reviews'[i].id = LastId' - Len(reviews') + i
    <3> HIDE DEF l
    <3> QED BY <1>1, <1>2, <1>5
  <2> QED BY <2>1, <2>2 DEF RangeInv
<1>61. \A i \in DOMAIN reviews' : /\ reviews'[i].id \in DOMAIN jobs'
                                  /\ reviews'[i].status = jobs'[reviews'[i].id]
  <2>1. DOMAIN jobs' = 1..Len(jobs')
    BY LenProperties
  <2>2. \A i \in 1..l : Len(jobs') - l + i \in 1..Len(jobs')
    BY <1>2, <1>3
  <2> HIDE DEF l
  <2> QED BY <1>1, <1>2, <1>3, <2>1, <2>2
<1>7. CASE Follows(new)
  <2> DEFINE c == CHOOSE i \in DOMAIN new : new[i].id = Shown
  <2>1. \E i \in DOMAIN new : new[i].id = Shown
    BY <1>7 DEF Follows, IdsOf
  <2>2. c \in 1..l /\ new[c].id = Shown
    BY <1>3, <2>1
  <2>3. PositionIn(new) = l - c
    BY <1>2 DEF PositionIn
  <2> HIDE DEF c
  <2>4. selected' = l - c
    BY <1>1, <1>2, <1>7, <2>2, <2>3 DEF Lesser, AtLeast0
  <2>5. l - (l - c) = c
    BY <1>2, <2>2
  <2>6. Shown' = Shown
    BY <1>1, <1>2, <2>2, <2>4, <2>5 DEF Shown
  <2>7. selected' \in 0..AtLeast0(Len(reviews') - 1)
    BY <1>1, <1>2, <2>2, <2>4 DEF AtLeast0
  <2> QED BY <1>1, <1>2, <1>5, <1>6, <1>61, <1>7, <2>6, <2>7
<1>8. CASE ~Follows(new)
  <2>1. selected' = AtLeast0(Lesser(selected, l - 1))
    BY <1>1, <1>2, <1>8
  <2>2. /\ selected' \in 0..AtLeast0(l - 1)
        /\ selected = 0 => selected' = 0
    <3> HIDE DEF l
    <3>1. CASE l = 0
      BY <1>3, <2>1, <3>1 DEF Lesser, AtLeast0
    <3>2. CASE l # 0
      BY <1>2, <1>3, <2>1, <3>2 DEF Lesser, AtLeast0
    <3> QED BY <3>1, <3>2
  <2> QED BY <1>1, <1>2, <1>5, <1>6, <1>61, <1>8, <2>2
<1> QED BY <1>7, <1>8

\* A review that is on the screen after a report and is not newer was there before.
LEMMA RangeMoves ==
  ASSUME DashTypeOK, RangeInv, DashTypeOK', RangeInv', LastId <= LastId',
         NEW k \in IdsOf(reviews'), k <= LastId
  PROVE  k \in IdsOf(reviews)
<1>1. LastId \in Nat /\ Len(reviews) \in Nat /\ IdsOf(reviews) = (LastId - Len(reviews) + 1)..LastId
  BY IdsAreRange DEF IdsInv
<1>2. LastId' \in Nat /\ Len(reviews') \in Nat /\ IdsOf(reviews') = (LastId' - Len(reviews') + 1)..LastId'
  <2>1. IdsInv'
    BY IdsAreRange, PTL
  <2> QED BY <2>1 DEF IdsInv
<1>3. Len(reviews) = Lesser(LastId, ReportLimit) /\ Len(reviews') = Lesser(LastId', ReportLimit)
  BY DEF RangeInv
<1>4. ReportLimit \in Nat
  BY DashboardAssumption
<1> QED BY <1>1, <1>2, <1>3, <1>4 DEF Lesser
-----------------------------------------------------------------------------
(***************************************************************************)
(* The steps.                                                              *)
(***************************************************************************)

\* The parts of the type that are about reviews, about the log and about the rest.
ReviewTypes ==
  /\ jobs \in Seq(JobStatuses) /\ before \cup recorded \subseteq SubmittedIn(jobs) /\ attempt \in 0..Len(jobs)
  /\ reviews \in Seq([id : DOMAIN jobs, status : JobStatuses])
  /\ initial \in Seq([id : DOMAIN jobs, status : JobStatuses])
  /\ selected \in 0..AtLeast0(Len(reviews) - 1)
LogTypes ==
  /\ lines \in Nat /\ activity \in Seq([line : 1..lines, size : 1..ClipAt])
  /\ Len(activity) <= ActivityLimit
RestTypes ==
  /\ worker \in {"running", "ended"} /\ dashSession \in {"open", "over"}
  /\ {reported, detail, canceled, stopping, streamOpen} \subseteq BOOLEAN
  /\ view \in 0..2 /\ scroll \in Nat /\ chosen \in Nat /\ pressed \in Nat

LEMMA Types == DashTypeOK <=> ReviewTypes /\ LogTypes /\ RestTypes
  BY Zenon DEF DashTypeOK, ReviewTypes, LogTypes, RestTypes

LEMMA TypesNext == DashTypeOK' <=> ReviewTypes' /\ LogTypes' /\ RestTypes'
  BY Types, PTL

LEMMA InitDash == DashInit => DashInv
<1> SUFFICES ASSUME DashInit PROVE DashInv
  OBVIOUS
<1>1. Saved \in Nat /\ jobs \in [1..Saved -> JobStatuses]
  BY DashboardAssumption DEF DashInit
<1>2. jobs \in Seq(JobStatuses) /\ Len(jobs) = Saved
  BY <1>1
<1>3. ReviewTypes
  BY <1>2 DEF DashInit, ReviewTypes, AtLeast0
<1>4. LogTypes
  BY DashboardAssumption DEF DashInit, LogTypes
<1>5. RestTypes
  <2>1. {reported, detail, canceled, stopping, streamOpen} \subseteq BOOLEAN
    BY Zenon DEF DashInit
  <2> QED BY <2>1 DEF DashInit, RestTypes
<1>6. RangeInv
  BY <1>1, <1>2, DashboardAssumption DEF DashInit, RangeInv, LastId, Lesser
<1>7. LogInv
  BY DashboardAssumption DEF DashInit, LogInv, Lesser
<1>8. OpenInv /\ OpenedStays /\ PublishingInv /\ BeforeInv
  BY DEF DashInit, OpenInv, OpenedStays, PublishingInv, BeforeInv
<1> QED BY <1>3, <1>4, <1>5, <1>6, <1>7, <1>8, Types DEF DashInv

-----------------------------------------------------------------------------
(***************************************************************************)
(* The engine.                                                             *)
(***************************************************************************)

\* A step of the engine: reviews are added, and none that is submitted becomes
\* anything else.
EngineMoves ==
  /\ jobs' \in Seq(JobStatuses) /\ Len(jobs) <= Len(jobs') /\ SubmittedIn(jobs) \subseteq SubmittedIn(jobs')
  /\ attempt' \in 0..Len(jobs') /\ (attempt' # 0 => jobs'[attempt'] \in {"pending", "posting"})
  /\ ~reported => UNCHANGED <<jobs, attempt>>

Others == <<worker, before, log, view, scroll, detail, stop, dashSession, pressed, chosen>>

LEMMA SeqGrows ==
  ASSUME NEW S, NEW T, S \subseteq T, NEW s \in Seq(S)
  PROVE  s \in Seq(T)
<1>1. Len(s) \in Nat /\ s \in [1..Len(s) -> S]
  BY LenProperties
<1>2. s \in [1..Len(s) -> T]
  BY <1>1
<1> QED BY <1>1, <1>2

\* What was reported stays within the jobs.
LEMMA ReportsGrow ==
  ASSUME ReviewTypes, EngineMoves, NEW r \in Seq([id : DOMAIN jobs, status : JobStatuses])
  PROVE  r \in Seq([id : DOMAIN jobs', status : JobStatuses])
<1>1. Len(jobs) \in Nat /\ DOMAIN jobs = 1..Len(jobs) /\ Len(jobs') \in Nat /\ DOMAIN jobs' = 1..Len(jobs')
  BY LenProperties DEF ReviewTypes, EngineMoves
<1>2. [id : DOMAIN jobs, status : JobStatuses] \subseteq [id : DOMAIN jobs', status : JobStatuses]
  BY <1>1 DEF EngineMoves
<1> QED BY <1>2, SeqGrows

\* A step that is reported, saved or not.
LEMMA ReportStep ==
  ASSUME DashInv, EngineMoves, Update(ReportOf(jobs')), recorded' \in {recorded, SubmittedIn(jobs')},
         UNCHANGED Others
  PROVE  DashInv'
<1>1. /\ DashTypeOK /\ RangeInv /\ LogInv /\ OpenInv /\ OpenedStays /\ PublishingInv /\ BeforeInv
      /\ ReviewTypes /\ LogTypes /\ RestTypes
  BY Types DEF DashInv
<1>2. /\ reviews' \in Seq([id : DOMAIN jobs', status : JobStatuses])
      /\ RangeInv' /\ LastId' = Len(jobs')
      /\ \A i \in DOMAIN reviews' : /\ reviews'[i].id \in DOMAIN jobs'
                                    /\ reviews'[i].status = jobs'[reviews'[i].id]
      /\ selected' \in 0..AtLeast0(Len(reviews') - 1)
      /\ Follows(reviews') => Shown' = Shown
  BY <1>1, UpdateStep DEF EngineMoves
<1>3. /\ Len(jobs) \in Nat /\ DOMAIN jobs = 1..Len(jobs) /\ LastId <= Len(jobs)
      /\ Len(jobs') \in Nat /\ DOMAIN jobs' = 1..Len(jobs') /\ Len(jobs) <= Len(jobs')
  BY <1>1, LenProperties DEF ReviewTypes, RangeInv, EngineMoves
<1>4. reviews' = ReportOf(jobs') /\ reported' = TRUE /\ initial' = FirstReport(reviews')
  BY DEF Update
<1>5. initial' \in Seq([id : DOMAIN jobs', status : JobStatuses])
  BY <1>1, <1>2, <1>4, ReportsGrow DEF FirstReport, ReviewTypes
<1>6. before' = before /\ before \subseteq recorded' /\ recorded' \subseteq SubmittedIn(jobs')
      /\ before \subseteq SubmittedIn(jobs)
  BY <1>1 DEF Others, ReviewTypes, BeforeInv, EngineMoves
<1>7. ReviewTypes' /\ PublishingInv'
  BY <1>2, <1>5, <1>6 DEF ReviewTypes, PublishingInv, EngineMoves
<1>8. LogTypes' /\ LogInv'
  BY <1>1, Zenon DEF LogTypes, LogInv, log, Others
<1>9. RestTypes'
  BY <1>1, <1>4, Zenon DEF RestTypes, stop, log, Others
<1>10. DashTypeOK'
  BY <1>7, <1>8, <1>9, TypesNext
<1>11. LastId \in Nat /\ IdsInv /\ IdsInv'
  <2>1. IdsInv
    BY <1>1, IdsAreRange
  <2>2. IdsInv'
    BY <1>2, <1>10, IdsAreRange, PTL
  <2> QED BY <2>1, <2>2 DEF IdsInv
<1>12. \A k \in IdsOf(reviews') : k <= LastId => k \in IdsOf(reviews)
  <2>1. LastId <= LastId'
    BY <1>2, <1>3, <1>11
  <2> QED BY <1>1, <1>2, <1>10, <2>1, RangeMoves
<1>13. OpenInv' /\ OpenedStays'
  <2>1. CASE ~detail
    BY <2>1 DEF OpenInv, OpenedStays, Others
  <2>2. CASE detail
    <3>1. view' # 2 /\ reviews # <<>> /\ chosen <= LastId /\ chosen' = chosen /\ detail'
      BY <1>1, <2>2 DEF OpenInv, Others
    <3>2. Len(reviews) # 0 /\ Len(reviews) \in Nat /\ Len(reviews) <= LastId
      BY <1>1, <1>11, <3>1, EmptySeq DEF ReviewTypes, IdsInv
    <3>3. selected < Len(reviews) /\ Len(jobs') # 0
      BY <1>1, <1>3, <1>11, <3>2 DEF ReviewTypes, AtLeast0
    <3>4. reviews' # <<>>
      BY <1>2, <3>3, EmptySeq DEF LastId
    <3>5. chosen' <= LastId'
      BY <1>1, <1>2, <1>3, <1>11, <3>1 DEF RestTypes
    <3>6. OpenInv'
      BY <3>1, <3>4, <3>5 DEF OpenInv
    <3>7. ASSUME chosen \in IdsOf(reviews') PROVE Shown' = chosen
      <4>1. chosen \in IdsOf(reviews)
        BY <1>12, <3>1, <3>7
      <4>2. Shown = chosen
        BY <1>1, <2>2, <4>1 DEF OpenedStays
      <4>3. Follows(reviews')
        BY <2>2, <3>3, <3>7, <4>2 DEF Follows
      <4> QED BY <1>2, <4>2, <4>3
    <3>8. OpenedStays'
      BY <3>1, <3>7 DEF OpenedStays
    <3> QED BY <3>6, <3>8
  <2> QED BY <2>1, <2>2
<1>14. BeforeInv'
  <2>1. \A n \in before' : n <= LastId'
    BY <1>2, <1>3, <1>6 DEF SubmittedIn
  <2>2. ASSUME NEW i \in DOMAIN reviews' PROVE SaidOf(reviews[i])'
    <3> DEFINE r == reviews'[i]
    <3>1. r = [id |-> r.id, status |-> r.status] /\ r.id \in DOMAIN jobs' /\ r.status = jobs'[r.id] /\ r.id \in IdsOf(reviews')
      <4>1. i \in 1..Len(reviews')
        BY <1>2, LenProperties
      <4>2. r \in [id : DOMAIN jobs', status : JobStatuses]
        BY <1>2, <4>1, ElementOfSeq
      <4> QED BY <1>2, <4>2 DEF IdsOf
    <3>2. r.status = "submitted" <=> r.id \in SubmittedIn(jobs')
      BY <3>1 DEF SubmittedIn
    <3>3. ASSUME r.id \in before PROVE \E k \in DOMAIN initial' : initial'[k] = r
      <4>1. CASE reported
        <5>1. r.id <= LastId /\ r.id \in IdsOf(reviews)
          BY <1>1, <1>12, <3>1, <3>3, <4>1 DEF BeforeInv
        <5>2. PICK o \in DOMAIN reviews : reviews[o].id = r.id
          BY <5>1 DEF IdsOf
        <5>3. PICK k \in DOMAIN initial : initial[k] = reviews[o]
          BY <1>1, <3>3, <5>2 DEF BeforeInv, SaidOf
        <5>4. reviews[o].status = "submitted" /\ r.status = "submitted"
          BY <1>1, <1>6, <3>2, <3>3, <5>2 DEF BeforeInv, SaidOf, EngineMoves
        <5>5. reviews[o] = [id |-> reviews[o].id, status |-> reviews[o].status]
          <6>1. o \in 1..Len(reviews)
            BY <1>1, LenProperties DEF ReviewTypes
          <6>2. reviews[o] \in [id : DOMAIN jobs, status : JobStatuses]
            BY <1>1, <6>1, ElementOfSeq DEF ReviewTypes
          <6> QED BY <6>2
        <5>6. reviews[o] = r
          BY <3>1, <5>2, <5>4, <5>5
        <5>7. initial' = initial
          BY <1>4, <4>1 DEF FirstReport
        <5> QED BY <5>3, <5>6, <5>7
      <4>2. CASE ~reported
        BY <1>4, <4>2 DEF FirstReport
      <4> QED BY <4>1, <4>2
    <3> QED BY <1>6, <3>2, <3>3 DEF SaidOf
  <2>3. ASSUME NEW i \in DOMAIN initial', initial'[i].status = "submitted"
        PROVE  initial'[i].id \in before
    <3>1. CASE reported
      BY <1>1, <1>4, <2>3, <3>1 DEF FirstReport, BeforeInv
    <3>2. CASE ~reported
      <4>1. initial' = reviews' /\ jobs' = jobs /\ before = SubmittedIn(jobs)
        BY <1>1, <1>4, <3>2 DEF FirstReport, BeforeInv, EngineMoves
      <4> QED BY <1>2, <2>3, <4>1 DEF SubmittedIn
    <3> QED BY <3>1, <3>2
  <2> QED BY <1>4, <1>6, <2>1, <2>2, <2>3 DEF BeforeInv
<1> QED BY <1>2, <1>7, <1>8, <1>10, <1>13, <1>14 DEF DashInv

\* A step that is neither saved nor reported.
LEMMA SilentStep ==
  ASSUME DashInv, EngineMoves, Unsaved, UNCHANGED Others, reported
  PROVE  DashInv'
<1>1. /\ RangeInv /\ LogInv /\ OpenInv /\ OpenedStays /\ BeforeInv
      /\ ReviewTypes /\ LogTypes /\ RestTypes /\ IdsInv
  BY Types, IdsAreRange DEF DashInv
<1>2. UNCHANGED <<worker, before, recorded, activity, streamOpen, lines, reviews, initial, reported, view, scroll,
                  selected, detail, canceled, stopping, dashSession, chosen, pressed>>
  BY DEF Unsaved, Others, progress, log, stop
<1>3. reviews' \in Seq([id : DOMAIN jobs', status : JobStatuses]) /\ initial' \in Seq([id : DOMAIN jobs', status : JobStatuses])
  BY <1>1, <1>2, ReportsGrow DEF ReviewTypes
<1>4. ReviewTypes' /\ PublishingInv'
  BY <1>1, <1>2, <1>3 DEF ReviewTypes, PublishingInv, EngineMoves
<1>5. LogTypes' /\ LogInv' /\ RestTypes'
  BY <1>1, <1>2, Zenon DEF LogTypes, LogInv, RestTypes
<1>6. LastId' = LastId /\ Shown' = Shown
  BY <1>2 DEF LastId, Shown
<1>7. OpenInv' /\ OpenedStays'
  BY <1>1, <1>2, <1>6, Zenon DEF OpenInv, OpenedStays
<1>8. RangeInv'
  <2>1. LastId <= Len(jobs')
    <3>1. LastId \in Nat /\ Len(jobs) \in Nat /\ Len(jobs') \in Nat /\ LastId <= Len(jobs) /\ Len(jobs) <= Len(jobs')
      BY <1>1, LenProperties DEF IdsInv, RangeInv, ReviewTypes, EngineMoves
    <3> QED BY <3>1
  <2> QED BY <1>1, <1>2, <1>6, <2>1 DEF RangeInv
<1>9. BeforeInv'
  <2>1. \A i \in DOMAIN reviews' : SaidOf(reviews[i])'
    BY <1>1, <1>2 DEF BeforeInv, SaidOf, EngineMoves
  <2> QED BY <1>1, <1>2, <1>6, <2>1 DEF BeforeInv
<1> QED BY <1>4, <1>5, <1>7, <1>8, <1>9, TypesNext DEF DashInv

\* A status that changes to another, or a review that becomes submitted.
LEMMA BecomesMoves ==
  ASSUME ReviewTypes, NEW n \in DOMAIN jobs, NEW st \in JobStatuses, Becomes(n, st),
         jobs[n] # "submitted" \/ st = "submitted"
  PROVE  /\ jobs' \in Seq(JobStatuses) /\ Len(jobs') = Len(jobs) /\ jobs'[n] = st
         /\ SubmittedIn(jobs) \subseteq SubmittedIn(jobs') /\ n \in 1..Len(jobs) /\ Len(jobs) \in Nat
<1>1. jobs \in Seq(JobStatuses) /\ jobs' = [jobs EXCEPT ![n] = st]
      /\ Len(jobs) \in Nat /\ DOMAIN jobs = 1..Len(jobs)
  BY LenProperties DEF ReviewTypes, Becomes
<1>2. jobs' \in Seq(JobStatuses) /\ Len(jobs') = Len(jobs) /\ DOMAIN jobs' = DOMAIN jobs
  BY <1>1, ExceptSeq
<1>3. \A k \in DOMAIN jobs : jobs'[k] = IF k = n THEN st ELSE jobs[k]
  BY <1>1
<1> QED BY <1>1, <1>2, <1>3 DEF SubmittedIn

\* The actions of the engine are such steps, with a report or without.
EngineAction ==
  \/ Report \/ Save \/ Enqueue \/ Intend \/ Posted \/ AttemptEnds
  \/ \E n \in DOMAIN jobs : Revise(n) \/ Recover(n) \/ AttemptBegins(n)

LEMMA EngineActions ==
  ASSUME DashInv, EngineAction
  PROVE  /\ EngineMoves /\ UNCHANGED Others
         /\ \/ Update(ReportOf(jobs')) /\ recorded' \in {recorded, SubmittedIn(jobs')}
            \/ Unsaved /\ reported
<1>1. /\ ReviewTypes /\ PublishingInv /\ BeforeInv
      /\ jobs \in Seq(JobStatuses) /\ Len(jobs) \in Nat /\ DOMAIN jobs = 1..Len(jobs) /\ attempt \in 0..Len(jobs)
      /\ {"pending", "posting", "submitted", "failed"} = JobStatuses
  <2>1. ReviewTypes /\ PublishingInv /\ BeforeInv
    BY Types DEF DashInv
  <2> QED BY <2>1, LenProperties DEF ReviewTypes, JobStatuses
<1>2. attempt # 0 => /\ attempt \in DOMAIN jobs /\ jobs[attempt] # "submitted" /\ reported
                     /\ jobs[attempt] \in {"pending", "posting"}
  BY <1>1 DEF PublishingInv, BeforeInv
<1>3. UNCHANGED Others
  BY DEF EngineAction, Report, Save, Enqueue, Intend, Posted, AttemptEnds, Revise, Recover, AttemptBegins,
     Between, Engine, Others
<1>4. CASE Report \/ Save
  <2>1. UNCHANGED <<jobs, attempt>> /\ Update(ReportOf(jobs')) /\ recorded' \in {recorded, SubmittedIn(jobs')}
    BY <1>4 DEF Report, Save, Saves
  <2>2. EngineMoves
    BY <1>1, <2>1 DEF EngineMoves, PublishingInv
  <2> QED BY <1>3, <2>1, <2>2
<1>5. CASE Enqueue
  <2>1. jobs' = Append(jobs, "pending") /\ attempt' = 0 /\ reported /\ Unsaved
    BY <1>5 DEF Enqueue, Between
  <2>2. /\ jobs' \in Seq(JobStatuses) /\ Len(jobs') = Len(jobs) + 1 /\ DOMAIN jobs' = 1..Len(jobs')
        /\ \A k \in 1..Len(jobs) : jobs'[k] = jobs[k]
    <3>1. "pending" \in JobStatuses
      BY <1>1
    <3>2. /\ jobs' \in Seq(JobStatuses) /\ Len(jobs') = Len(jobs) + 1
          /\ \A k \in 1..Len(jobs) : jobs'[k] = jobs[k]
      BY <1>1, <2>1, <3>1, AppendProperties
    <3> QED BY <3>2, LenProperties
  <2>3. EngineMoves
    BY <1>1, <2>1, <2>2 DEF EngineMoves, SubmittedIn
  <2> QED BY <1>3, <2>1, <2>3
<1>6. ASSUME NEW n \in DOMAIN jobs, Revise(n) \/ Recover(n) \/ AttemptBegins(n)
      PROVE  /\ EngineMoves
             /\ \/ Update(ReportOf(jobs')) /\ recorded' \in {recorded, SubmittedIn(jobs')}
                \/ Unsaved /\ reported
  <2>1. reported /\ attempt = 0 /\ jobs[n] # "submitted"
    BY <1>6 DEF Revise, Recover, AttemptBegins, Between
  <2>2. (Update(ReportOf(jobs')) /\ recorded' = SubmittedIn(jobs')) \/ Unsaved
    BY <1>6 DEF Revise, Recover, AttemptBegins, Saves
  <2>3. PICK st \in JobStatuses : Becomes(n, st) /\ (attempt' = 0 \/ (attempt' = n /\ st = "pending"))
    <3>1. CASE Revise(n)
      <4>1. attempt' = 0 /\ (Becomes(n, "pending") \/ Becomes(n, "failed"))
        BY <2>1, <3>1 DEF Revise
      <4> QED BY <1>1, <4>1
    <3>2. CASE Recover(n)
      <4>1. attempt' = 0 /\ Becomes(n, "submitted")
        BY <2>1, <3>2 DEF Recover
      <4> QED BY <1>1, <4>1
    <3>3. CASE AttemptBegins(n)
      BY <1>1, <3>3 DEF AttemptBegins
    <3> QED BY <1>6, <3>1, <3>2, <3>3
  <2>4. /\ jobs' \in Seq(JobStatuses) /\ Len(jobs') = Len(jobs) /\ jobs'[n] = st
        /\ SubmittedIn(jobs) \subseteq SubmittedIn(jobs') /\ n \in 1..Len(jobs)
    BY <1>1, <2>1, <2>3, BecomesMoves
  <2>5. EngineMoves
    BY <1>1, <2>1, <2>3, <2>4 DEF EngineMoves
  <2> QED BY <2>1, <2>2, <2>5
<1>7. CASE Intend \/ Posted \/ AttemptEnds
  <2>1. attempt # 0 /\ attempt' \in {attempt, 0} /\ reported
    BY <1>2, <1>7 DEF Intend, Posted, AttemptEnds
  <2>2. (Update(ReportOf(jobs')) /\ recorded' = SubmittedIn(jobs')) \/ Unsaved
    BY <1>7 DEF Intend, Posted, AttemptEnds, Saves
  <2>3. CASE UNCHANGED jobs /\ attempt' = 0
    BY <1>1, <1>3, <2>1, <2>2, <2>3 DEF EngineMoves
  <2>4. CASE ~(UNCHANGED jobs /\ attempt' = 0)
    <3>1. PICK st \in JobStatuses : Becomes(attempt, st) /\ (attempt' = 0 \/ st = "posting")
      <4>1. CASE Intend
        BY <1>1, <4>1 DEF Intend
      <4>2. CASE Posted
        BY <1>1, <4>2 DEF Posted
      <4>3. CASE AttemptEnds
        BY <1>1, <2>4, <4>3 DEF AttemptEnds
      <4> QED BY <1>7, <4>1, <4>2, <4>3
    <3>2. /\ jobs' \in Seq(JobStatuses) /\ Len(jobs') = Len(jobs) /\ jobs'[attempt] = st
          /\ SubmittedIn(jobs) \subseteq SubmittedIn(jobs')
      BY <1>1, <1>2, <2>1, <3>1, BecomesMoves
    <3>3. EngineMoves
      BY <1>1, <2>1, <3>1, <3>2 DEF EngineMoves
    <3> QED BY <1>3, <2>1, <2>2, <3>3
  <2> QED BY <2>3, <2>4
<1> QED BY <1>3, <1>4, <1>5, <1>6, <1>7 DEF EngineAction

LEMMA EngineStays == DashInv /\ EngineAction => DashInv'
<1> SUFFICES ASSUME DashInv, EngineAction PROVE DashInv'
  OBVIOUS
<1>1. /\ EngineMoves /\ UNCHANGED Others
      /\ \/ Update(ReportOf(jobs')) /\ recorded' \in {recorded, SubmittedIn(jobs')}
         \/ Unsaved /\ reported
  BY EngineActions
<1> QED BY <1>1, ReportStep, SilentStep

-----------------------------------------------------------------------------
(***************************************************************************)
(* The log.                                                                *)
(***************************************************************************)

\* A place that is not the last one is below it.
LEMMA BelowTheLast ==
  ASSUME NEW a \in Nat, NEW b \in Nat, NEW n \in Nat, NEW m \in 1..n,
         m # n, b = a + 1, n <= b
  PROVE  b - n + m \in 1..a
OBVIOUS

\* A line moves every line of the activity by one place; Moved says where the
\* lines that are kept were.
Moved(entry) ==
  LET l == Len(activity') IN
    /\ l \in Nat \ {0} /\ l <= Len(activity) + 1 /\ activity'[l] = entry
    /\ \A i \in 1..l : i # l => /\ Len(activity) + 1 - l + i \in 1..Len(activity)
                                /\ activity'[i] = activity[Len(activity) + 1 - l + i]

LogLeaves == <<jobs, worker, attempt, before, recorded, reviews, initial, reported, view, selected, detail,
               canceled, stopping, dashSession, chosen, pressed>>

LEMMA LogStep ==
  ASSUME DashInv, NEW size \in Sizes, Log(size)
  PROVE  /\ LogTypes' /\ LogInv' /\ UNCHANGED LogLeaves /\ streamOpen' \in BOOLEAN
         /\ lines' = lines + 1 /\ scroll' = PlaceAfter(scroll) /\ scroll' \in Nat
         /\ \E n \in 1..ClipAt : Moved([line |-> lines + 1, size |-> n])
<1>1. LogInv /\ LogTypes /\ RestTypes
  BY Types DEF DashInv
<1> DEFINE n == Lesser(size, ClipAt)
           entry == [line |-> lines + 1, size |-> n]
<1>2. /\ lines' = lines + 1 /\ activity' = Latest(Append(activity, entry), ActivityLimit)
      /\ scroll' = PlaceAfter(scroll) /\ streamOpen' \in BOOLEAN /\ UNCHANGED LogLeaves
  BY DEF Log, engine, progress, stop, LogLeaves
<1>3. ActivityLimit \in Nat \ {0} /\ n \in 1..ClipAt
  BY DashboardAssumption DEF Lesser
<1> HIDE DEF n
<1>4. /\ lines \in Nat /\ activity \in Seq([line : 1..lines, size : 1..ClipAt]) /\ Len(activity) \in Nat
      /\ Len(activity) = Lesser(lines, ActivityLimit)
      /\ \A i \in 1..Len(activity) : activity[i].line = lines - Len(activity) + i
  BY <1>1, LenProperties DEF LogTypes, LogInv
<1> DEFINE S == [line : 1..(lines + 1), size : 1..ClipAt]
           all == Append(activity, entry)
           l == Lesser(Len(all), ActivityLimit)
<1>5. activity \in Seq(S) /\ entry \in S
  <2>1. [line : 1..lines, size : 1..ClipAt] \subseteq S
    BY <1>4
  <2>2. entry \in S
    BY <1>3, <1>4
  <2> QED BY <1>4, <2>1, <2>2, SeqGrows
<1>6. entry.line = lines + 1
  OBVIOUS
<1> HIDE DEF S, entry
<1>7. /\ all \in Seq(S) /\ Len(all) = Len(activity) + 1
      /\ \A i \in 1..Len(activity) : all[i] = activity[i]
      /\ all[Len(activity) + 1] = entry
  BY <1>4, <1>5, AppendProperties
<1> HIDE DEF all
<1>8. /\ activity' \in Seq(S) /\ Len(activity') = l
      /\ \A i \in 1..l : activity'[i] = all[Len(all) - l + i]
  BY <1>2, <1>3, <1>7, LatestProperties DEF all
<1>9. l = Lesser(lines + 1, ActivityLimit) /\ l \in Nat \ {0} /\ l <= Len(all) /\ l <= ActivityLimit
  BY <1>3, <1>4, <1>7 DEF Lesser
<1> HIDE DEF l
<1>10. Moved(entry)
  <2>1. activity'[l] = entry
    <3>1. Len(all) - l + l = Len(activity) + 1 /\ l \in 1..l
      BY <1>4, <1>7, <1>9
    <3> QED BY <1>7, <1>8, <3>1
  <2>2. ASSUME NEW i \in 1..l, i # l
        PROVE  /\ Len(activity) + 1 - l + i \in 1..Len(activity)
               /\ activity'[i] = activity[Len(activity) + 1 - l + i]
    <3>1. Len(all) - l + i \in 1..Len(activity)
      <4>1. Len(all) \in Nat /\ Len(activity) \in Nat /\ l \in Nat /\ l <= Len(all)
        BY <1>4, <1>7, <1>9
      <4> QED BY <1>7, <2>2, <4>1, BelowTheLast
    <3> QED BY <1>7, <1>8, <2>2, <3>1
  <2> QED BY <1>7, <1>8, <1>9, <2>1, <2>2 DEF Moved
<1>11. \A i \in 1..l : activity'[i].line = lines + 1 - l + i
  <2> SUFFICES ASSUME NEW i \in 1..l PROVE activity'[i].line = lines + 1 - l + i
    OBVIOUS
  <2>1. lines \in Nat /\ Len(activity) \in Nat /\ l \in Nat /\ i \in Nat
    BY <1>4, <1>9
  <2>2. CASE i = l
    BY <1>6, <1>8, <1>10, <2>1, <2>2 DEF Moved
  <2>3. CASE i # l
    <3>1. /\ Len(activity) + 1 - l + i \in 1..Len(activity)
          /\ activity'[i] = activity[Len(activity) + 1 - l + i]
      BY <1>8, <1>10, <2>3 DEF Moved
    <3>2. activity'[i].line = lines - Len(activity) + (Len(activity) + 1 - l + i)
      BY <1>4, <3>1
    <3> QED BY <2>1, <3>2
  <2> QED BY <2>2, <2>3
<1>12. LogTypes' /\ LogInv'
  <2>1. lines' \in Nat /\ activity' \in Seq([line : 1..lines', size : 1..ClipAt]) /\ Len(activity') <= ActivityLimit
    BY <1>2, <1>4, <1>8, <1>9 DEF S
  <2>2. Len(activity') = Lesser(lines', ActivityLimit)
    BY <1>2, <1>8, <1>9
  <2>3. \A i \in 1..Len(activity') : activity'[i].line = lines' - Len(activity') + i
    <3>1. lines' = lines + 1 /\ lines \in Nat /\ l \in Nat
      BY <1>2, <1>4, <1>9
    <3>2. Len(activity') = l
      BY <1>8
    <3>3. \A i \in 1..l : activity'[i].line = lines' - l + i
      BY <1>11, <3>1
    <3> QED BY <3>2, <3>3
  <2> QED BY <2>1, <2>2, <2>3 DEF LogTypes, LogInv
<1>13. scroll' \in Nat
  BY <1>1, <1>2 DEF RestTypes, PlaceAfter
<1> QED BY <1>2, <1>3, <1>10, <1>12, <1>13 DEF entry

\* A piece that continues the last line changes no other line.
LEMMA ContinueStep ==
  ASSUME DashInv, NEW size \in Nat, Continue(size)
  PROVE  /\ LogTypes' /\ LogInv' /\ UNCHANGED LogLeaves /\ streamOpen' \in BOOLEAN
         /\ lines' = lines /\ scroll' = scroll
<1>1. LogInv /\ LogTypes
  BY Types DEF DashInv
<1> DEFINE l == Len(activity)
           n == Lesser(activity[l].size + size, ClipAt)
<1>2. /\ lines' = lines /\ scroll' = scroll /\ streamOpen' \in BOOLEAN /\ UNCHANGED LogLeaves
      /\ activity # <<>> /\ activity' = [activity EXCEPT ![l] = [activity[l] EXCEPT !.size = n]]
  BY DEF Continue, engine, progress, screen, stop, LogLeaves
<1>3. /\ activity \in Seq([line : 1..lines, size : 1..ClipAt]) /\ l \in Nat /\ DOMAIN activity = 1..l
      /\ l <= ActivityLimit
  BY <1>1, LenProperties DEF LogTypes
<1>4. l \in 1..l /\ activity[l] \in [line : 1..lines, size : 1..ClipAt]
  <2>1. l # 0
    BY <1>2, <1>3, EmptySeq
  <2>2. l \in 1..l
    BY <1>3, <2>1
  <2> QED BY <1>3, <2>2, ElementOfSeq
<1>5. n \in 1..ClipAt
  BY <1>4, DashboardAssumption DEF Lesser
<1> HIDE DEF n
<1>6. [activity[l] EXCEPT !.size = n] \in [line : 1..lines, size : 1..ClipAt]
      /\ [activity[l] EXCEPT !.size = n].line = activity[l].line
  BY <1>4, <1>5
<1>7. activity' \in Seq([line : 1..lines, size : 1..ClipAt]) /\ Len(activity') = l
  BY <1>2, <1>3, <1>4, <1>6, ExceptSeq
<1>8. \A i \in 1..l : activity'[i].line = activity[i].line
  BY <1>2, <1>3, <1>4, <1>6
<1>9. LogTypes' /\ LogInv'
  BY <1>1, <1>2, <1>3, <1>7, <1>8 DEF LogTypes, LogInv
<1> QED BY <1>2, <1>9

LEMMA LogInvStep == DashInv /\ LogAny => DashInv'
<1> SUFFICES ASSUME DashInv, LogAny PROVE DashInv'
  OBVIOUS
<1>1. RangeInv /\ OpenInv /\ OpenedStays /\ PublishingInv /\ BeforeInv /\ ReviewTypes /\ RestTypes
  BY Types DEF DashInv
<1>2. LogTypes' /\ LogInv' /\ scroll' \in Nat /\ UNCHANGED LogLeaves /\ streamOpen' \in BOOLEAN
  <2>1. CASE \E size \in Sizes : Log(size)
    BY <2>1, LogStep
  <2>2. CASE \E size \in Sizes \cup {0} : Continue(size)
    <3>1. Sizes \cup {0} \subseteq Nat
      BY DashboardAssumption
    <3> QED BY <1>1, <2>2, <3>1, ContinueStep DEF RestTypes
  <2> QED BY <2>1, <2>2 DEF LogAny
<1>3. ReviewTypes' /\ RestTypes'
  <2>1. {reported', detail', canceled', stopping', streamOpen'} \subseteq BOOLEAN
    BY <1>1, <1>2, Zenon DEF RestTypes, LogLeaves
  <2>2. RestTypes'
    BY <1>1, <1>2, <2>1 DEF RestTypes, LogLeaves
  <2> QED BY <1>1, <1>2, <2>2, Zenon DEF ReviewTypes, LogLeaves
<1>4. RangeInv' /\ OpenInv' /\ OpenedStays' /\ PublishingInv'
  BY <1>1, <1>2, Zenon DEF RangeInv, OpenInv, OpenedStays, PublishingInv, LastId, Shown, LogLeaves
<1>5. BeforeInv'
  BY <1>1, <1>2, Zenon DEF BeforeInv, SaidOf, LastId, LogLeaves
<1> QED BY <1>2, <1>3, <1>4, <1>5, TypesNext DEF DashInv

-----------------------------------------------------------------------------
(***************************************************************************)
(* The rows.                                                               *)
(***************************************************************************)

\* A row is one of a line of the activity.
LEMMA RowIs ==
  ASSUME LogTypes, NEW w \in Nat, NEW r \in Rows(activity, w)
  PROVE  /\ \E i \in 1..Len(activity) : r \in RowsOf(activity[i], w) /\ r[1] = activity[i].line
         /\ r = <<r[1], r[2]>> /\ r[1] \in 1..lines /\ r[2] \in 0..ClipAt
<1>1. DOMAIN activity = 1..Len(activity)
  BY LenProperties DEF LogTypes
<1>2. PICK i \in 1..Len(activity) : r \in RowsOf(activity[i], w)
  BY <1>1 DEF Rows
<1>3. activity[i] \in [line : 1..lines, size : 1..ClipAt]
  BY ElementOfSeq DEF LogTypes
<1>4. PICK k \in 0..activity[i].size : r = <<activity[i].line, k>>
  BY <1>2 DEF RowsOf
<1> QED BY <1>2, <1>3, <1>4, DashboardAssumption

LEMMA RowsAreFinite ==
  ASSUME LogTypes, NEW w \in Nat
  PROVE  IsFiniteSet(Rows(activity, w))
<1>1. lines \in Nat /\ ClipAt \in Nat
  BY DashboardAssumption DEF LogTypes
<1>2. IsFiniteSet(1..lines) /\ IsFiniteSet(0..ClipAt)
  BY <1>1, FS_Interval
<1>3. IsFiniteSet((1..lines) \X (0..ClipAt))
  BY <1>2, FS_Product
<1>4. Rows(activity, w) \subseteq (1..lines) \X (0..ClipAt)
  BY RowIs
<1> QED BY <1>3, <1>4, FS_Subset

\* A line that is no wider than the screen has one row.
LEMMA OneRowOf ==
  ASSUME NEW w \in Nat \ {0}, NEW line, NEW n \in Nat \ {0}, n <= w
  PROVE  RowsOf([line |-> line, size |-> n], w) = {<<line, 0>>}
<1>1. ASSUME NEW k \in 0..n PROVE k * w < n <=> k = 0
  <2>1. CASE k = 0
    BY <2>1
  <2>2. CASE k # 0
    <3>1. k * w >= w
      BY <1>1, <2>2
    <3>2. k * w \in Nat
      BY <1>1
    <3> QED BY <2>2, <3>1, <3>2
  <2> QED BY <2>1, <2>2
<1>2. {k \in 0..n : k * w < n} = {0}
  BY <1>1
<1> QED BY <1>2 DEF RowsOf

\* A new line of one row is one more row below any other that is kept.
LEMMA NewRow ==
  ASSUME LogTypes, LogInv, LogTypes', LogInv', lines' = lines + 1, NEW w \in Nat \ {0},
         \E n \in 1..ClipAt : Moved([line |-> lines + 1, size |-> n]),
         activity'[Len(activity')].size <= w,
         NEW row \in Rows(activity, w) \cap Rows(activity', w)
  PROVE  Cardinality(Below(activity', row, w)) = Cardinality(Below(activity, row, w)) + 1
<1> DEFINE l == Len(activity)
           m == Len(activity')
           new == <<lines + 1, 0>>
<1>1. PICK n \in 1..ClipAt : Moved([line |-> lines + 1, size |-> n])
  OBVIOUS
<1>2. /\ l \in Nat /\ m \in Nat \ {0} /\ lines \in Nat /\ activity'[m] = [line |-> lines + 1, size |-> n]
      /\ \A i \in 1..m : i # m => l + 1 - m + i \in 1..l /\ activity'[i] = activity[l + 1 - m + i]
  BY <1>1, LenProperties DEF Moved, LogTypes
<1>3. DOMAIN activity = 1..l /\ DOMAIN activity' = 1..m /\ w \in Nat
  BY LenProperties DEF LogTypes
<1>4. /\ \A i \in 1..l : activity[i].line = lines - l + i
      /\ \A i \in 1..m : activity'[i].line = lines + 1 - m + i
  <2>1. \A i \in 1..l : activity[i].line = lines - l + i
    BY DEF LogInv
  <2>2. \A i \in 1..m : activity'[i].line = lines' - m + i
    BY DEF LogInv
  <2>3. lines' = lines + 1 /\ lines \in Nat /\ m \in Nat
    BY <1>2
  <2> HIDE DEF l, m
  <2> QED BY <2>1, <2>2, <2>3
<1>5. RowsOf(activity'[m], w) = {new}
  <2>1. n \in Nat \ {0} /\ n <= w
    BY <1>2
  <2> QED BY <1>2, <2>1, OneRowOf
<1>6. row[1] \in 1..lines /\ \E i \in 1..m : row[1] = activity'[i].line
  <2>1. row[1] \in 1..lines
    BY <1>3, RowIs
  <2>2. PICK i \in 1..m : row \in RowsOf(activity'[i], w)
    BY <1>3 DEF Rows
  <2>3. row[1] = activity'[i].line
    BY <2>2 DEF RowsOf
  <2> QED BY <2>1, <2>3
<1>7. Below(activity', row, w) \subseteq Below(activity, row, w) \cup {new}
  <2> SUFFICES ASSUME NEW r \in Below(activity', row, w), r # new PROVE r \in Below(activity, row, w)
    OBVIOUS
  <2>1. PICK i \in 1..m : r \in RowsOf(activity'[i], w)
    BY <1>3 DEF Below, Rows
  <2>2. i # m
    BY <1>5, <2>1
  <2>3. r \in Rows(activity, w)
    BY <1>2, <1>3, <2>1, <2>2 DEF Rows
  <2> QED BY <2>3 DEF Below
<1>8. new \in Below(activity', row, w)
  <2>1. new \in Rows(activity', w)
    <3>1. new \in RowsOf(activity'[m], w)
      BY <1>5
    <3>2. m \in DOMAIN activity'
      <4> HIDE DEF m
      <4> QED BY <1>2, <1>3
    <3> HIDE DEF new, m
    <3> QED BY <3>1, <3>2, Zenon DEF Rows
  <2> QED BY <1>2, <1>6, <2>1 DEF Below
<1>9. Below(activity, row, w) \subseteq Below(activity', row, w)
  <2> SUFFICES ASSUME NEW r \in Below(activity, row, w) PROVE r \in Rows(activity', w)
    BY DEF Below
  <2>1. r \in Rows(activity, w) /\ r[1] \in 1..lines /\ r[1] >= row[1]
    <3>1. r \in Rows(activity, w) /\ (r[1] > row[1] \/ r[1] = row[1])
      BY DEF Below
    <3>2. r[1] \in 1..lines
      BY <1>3, <3>1, RowIs
    <3> QED BY <1>2, <1>6, <3>1, <3>2
  <2>2. PICK j \in 1..l : r \in RowsOf(activity[j], w) /\ r[1] = activity[j].line
    BY <1>3, <2>1, RowIs
  <2>3. PICK i \in 1..m : row[1] = lines + 1 - m + i
    BY <1>4, <1>6
  <2> DEFINE k == r[1] - (lines + 1) + m
  <2>4. r[1] = lines - l + j
    BY <1>4, <2>2
  <2>5. k \in 1..m /\ k # m /\ l + 1 - m + k = j
    <3>1. l \in Nat /\ m \in Nat /\ lines \in Nat /\ i \in 1..m /\ j \in 1..l /\ r[1] \in 1..lines /\ r[1] >= row[1]
      BY <1>2, <2>1
    <3> HIDE DEF l, m
    <3>2. k = m - l - 1 + j /\ k <= m - 1
      BY <2>4, <3>1
    <3>3. k >= i
      BY <2>3, <3>1
    <3> QED BY <3>1, <3>2, <3>3
  <2>6. activity'[k] = activity[j]
    BY <1>2, <2>5
  <2> QED BY <1>3, <2>2, <2>5, <2>6 DEF Rows
<1>10. new \notin Below(activity, row, w)
  <2>1. lines + 1 \notin 1..lines
    BY <1>2
  <2> QED BY <1>3, <2>1, RowIs DEF Below
<1>11. IsFiniteSet(Below(activity, row, w))
  <2>1. Below(activity, row, w) \subseteq Rows(activity, w)
    BY DEF Below
  <2> QED BY <1>3, <2>1, RowsAreFinite, FS_Subset
<1>12. Below(activity', row, w) = Below(activity, row, w) \cup {new}
  BY <1>7, <1>8, <1>9
<1> HIDE DEF new
<1> QED BY <1>10, <1>11, <1>12, FS_AddElement

-----------------------------------------------------------------------------
(***************************************************************************)
(* The session.                                                            *)
(***************************************************************************)

\* What only the screen and the session change.
LEMMA ScreenStep ==
  ASSUME DashInv, UNCHANGED <<jobs, attempt, before, recorded, progress, log>>,
         RestTypes', selected' \in 0..AtLeast0(Len(reviews) - 1), OpenInv', OpenedStays'
  PROVE  DashInv'
<1>1. /\ RangeInv /\ LogInv /\ PublishingInv /\ BeforeInv /\ ReviewTypes /\ LogTypes
      /\ UNCHANGED <<jobs, attempt, before, recorded, reviews, initial, reported, activity, lines>>
  BY Types DEF DashInv, progress, log
<1>2. ReviewTypes' /\ LogTypes'
  BY <1>1, Zenon DEF ReviewTypes, LogTypes
<1>3. RangeInv' /\ LogInv' /\ PublishingInv' /\ BeforeInv'
  BY <1>1, Zenon DEF RangeInv, LogInv, PublishingInv, BeforeInv, SaidOf, LastId
<1> QED BY <1>2, <1>3, TypesNext DEF DashInv

\* The keys.
LEMMA KeyStep ==
  ASSUME DashInv, KeyAny
  PROVE  DashInv'
<1>1. /\ OpenInv /\ OpenedStays /\ ReviewTypes /\ RestTypes /\ IdsInv
      /\ selected \in 0..AtLeast0(Len(reviews) - 1) /\ selected \in Nat /\ Len(reviews) \in Nat
  <2>1. OpenInv /\ OpenedStays /\ ReviewTypes /\ RestTypes /\ IdsInv
    BY Types, IdsAreRange DEF DashInv
  <2>2. selected \in 0..AtLeast0(Len(reviews) - 1) /\ Len(reviews) \in Nat
    BY <2>1 DEF ReviewTypes, IdsInv
  <2> QED BY <2>1, <2>2 DEF AtLeast0
<1>2. CASE KeyStop
  <2>1. UNCHANGED <<jobs, attempt, before, recorded, worker, progress, log, reviews, reported, view, selected, scroll, detail, dashSession, chosen>>
        /\ canceled' = TRUE /\ stopping' = TRUE /\ pressed' = pressed + 1
    BY <1>2 DEF KeyStop, Key, engine, screen, progress
  <2>2. RestTypes' /\ OpenInv' /\ OpenedStays'
    <3>1. {reported', detail', canceled', stopping', streamOpen'} \subseteq BOOLEAN
      BY <1>1, <2>1, Zenon DEF RestTypes, log, progress
    <3>2. OpenInv' /\ OpenedStays'
      BY <1>1, <2>1, Zenon DEF OpenInv, OpenedStays, LastId, Shown
    <3> QED BY <1>1, <2>1, <3>1, <3>2 DEF RestTypes
  <2> QED BY <1>1, <2>1, <2>2, ScreenStep
<1>3. CASE KeyBack
  <2>1. UNCHANGED <<jobs, attempt, before, recorded, worker, progress, log, reviews, reported, view, selected, canceled, stopping, dashSession, chosen>>
        /\ detail' = FALSE /\ scroll' = 0 /\ pressed' = pressed + 1
    BY <1>3 DEF KeyBack, Key, engine, stop, progress
  <2>2. RestTypes' /\ OpenInv' /\ OpenedStays'
    <3>1. {reported', detail', canceled', stopping', streamOpen'} \subseteq BOOLEAN
      BY <1>1, <2>1, Zenon DEF RestTypes, log, progress
    <3>2. OpenInv' /\ OpenedStays'
      BY <2>1 DEF OpenInv, OpenedStays
    <3> QED BY <1>1, <2>1, <3>1, <3>2 DEF RestTypes
  <2> QED BY <1>1, <2>1, <2>2, ScreenStep
<1>4. CASE KeyScroll
  <2>1. UNCHANGED <<jobs, attempt, before, recorded, worker, progress, log, reviews, reported, view, selected, detail, canceled, stopping, dashSession, chosen>>
        /\ pressed' = pressed + 1
    BY <1>4 DEF KeyScroll, Key, engine, stop, progress
  <2>2. scroll' \in Nat
    <3>1. scroll \in Nat
      BY <1>1 DEF RestTypes
    <3>2. scroll' \in {scroll + 1, AtLeast0(scroll - 1), 0, Far, scroll + 10, AtLeast0(scroll - 10)}
      BY <1>4 DEF KeyScroll
    <3> QED BY <3>1, <3>2 DEF AtLeast0, Far
  <2>3. RestTypes' /\ OpenInv' /\ OpenedStays'
    <3>1. {reported', detail', canceled', stopping', streamOpen'} \subseteq BOOLEAN
      BY <1>1, <2>1, Zenon DEF RestTypes, log, progress
    <3>2. OpenInv' /\ OpenedStays'
      BY <1>1, <2>1, Zenon DEF OpenInv, OpenedStays, LastId, Shown
    <3> QED BY <1>1, <2>1, <2>2, <3>1, <3>2 DEF RestTypes
  <2> QED BY <1>1, <2>1, <2>3, ScreenStep
<1>5. ASSUME NEW v \in 0..2, KeyView(v) PROVE DashInv'
  <2>1. UNCHANGED <<jobs, attempt, before, recorded, worker, progress, log, reviews, reported, selected, detail, canceled, stopping, dashSession, chosen>>
        /\ ~detail /\ view' = v /\ scroll' = 0 /\ pressed' = pressed + 1
    BY <1>5 DEF KeyView, Key, engine, stop, progress
  <2>2. RestTypes' /\ OpenInv' /\ OpenedStays'
    <3>1. {reported', detail', canceled', stopping', streamOpen'} \subseteq BOOLEAN
      BY <1>1, <2>1, Zenon DEF RestTypes, log, progress
    <3>2. OpenInv' /\ OpenedStays'
      BY <2>1 DEF OpenInv, OpenedStays
    <3> QED BY <1>1, <2>1, <3>1, <3>2 DEF RestTypes
  <2> QED BY <1>1, <2>1, <2>2, ScreenStep
<1>6. CASE KeyOpen
  <2>1. UNCHANGED <<jobs, attempt, before, recorded, worker, progress, log, reviews, reported, view, selected, canceled, stopping, dashSession>>
        /\ detail' = TRUE /\ scroll' = 0 /\ chosen' = Shown /\ pressed' = pressed + 1
        /\ reviews # <<>> /\ view # 2
    BY <1>6 DEF KeyOpen, Key, engine, stop, progress
  <2>2. Len(reviews) # 0 /\ selected < Len(reviews) /\ Len(reviews) - selected \in 1..Len(reviews)
    <3>1. Len(reviews) # 0
      BY <1>1, <2>1, EmptySeq DEF ReviewTypes
    <3> QED BY <1>1, <3>1 DEF AtLeast0
  <2>3. Shown \in Nat /\ Shown <= LastId
    <3>1. Len(reviews) - selected \in DOMAIN reviews
      BY <1>1, <2>2, LenProperties DEF ReviewTypes
    <3>2. Shown \in IdsOf(reviews)
      BY <3>1 DEF Shown, IdsOf
    <3>3. IdsOf(reviews) = (LastId - Len(reviews) + 1)..LastId /\ LastId \in Nat /\ Len(reviews) <= LastId
      BY <1>1 DEF IdsInv
    <3> QED BY <1>1, <3>2, <3>3
  <2>4. RestTypes' /\ OpenInv' /\ OpenedStays'
    <3>1. {reported', detail', canceled', stopping', streamOpen'} \subseteq BOOLEAN
      BY <1>1, <2>1, Zenon DEF RestTypes, log, progress
    <3>2. Shown' = Shown /\ LastId' = LastId
      BY <2>1 DEF Shown, LastId
    <3>3. OpenInv' /\ OpenedStays'
      BY <2>1, <2>3, <3>2 DEF OpenInv, OpenedStays
    <3> QED BY <1>1, <2>1, <2>3, <3>1, <3>3 DEF RestTypes
  <2> QED BY <1>1, <2>1, <2>4, ScreenStep
<1>7. CASE KeyBrowse
  <2>1. UNCHANGED <<jobs, attempt, before, recorded, worker, progress, log, reviews, reported, view, scroll, detail, canceled, stopping, dashSession, chosen>>
        /\ ~detail /\ pressed' = pressed + 1
    BY <1>7 DEF KeyBrowse, Key, engine, stop, progress
  <2>2. selected' \in 0..AtLeast0(Len(reviews) - 1)
    <3>1. selected' \in {AtLeast0(Lesser(Len(reviews) - 1, selected + 1)), AtLeast0(selected - 1),
                         0, AtLeast0(Len(reviews) - 1)}
      BY <1>7 DEF KeyBrowse
    <3>2. CASE Len(reviews) = 0
      BY <1>1, <3>1, <3>2 DEF AtLeast0, Lesser
    <3>3. CASE Len(reviews) # 0
      BY <1>1, <3>1, <3>3 DEF AtLeast0, Lesser
    <3> QED BY <3>2, <3>3
  <2>3. RestTypes' /\ OpenInv' /\ OpenedStays'
    <3>1. {reported', detail', canceled', stopping', streamOpen'} \subseteq BOOLEAN
      BY <1>1, <2>1, Zenon DEF RestTypes, log, progress
    <3>2. OpenInv' /\ OpenedStays'
      BY <2>1 DEF OpenInv, OpenedStays
    <3> QED BY <1>1, <2>1, <3>1, <3>2 DEF RestTypes
  <2> QED BY <1>1, <2>1, <2>2, <2>3, ScreenStep
<1> QED BY <1>2, <1>3, <1>4, <1>5, <1>6, <1>7 DEF KeyAny

\* Renderings, and the end of the engine and of the session.
LEMMA DashSessionStep ==
  ASSUME DashInv, RenderAny \/ Cancel \/ Return \/ EngineEnds
  PROVE  DashInv'
<1>1. /\ OpenInv /\ OpenedStays /\ ReviewTypes /\ RestTypes
      /\ selected \in 0..AtLeast0(Len(reviews) - 1)
  <2>1. OpenInv /\ OpenedStays /\ ReviewTypes /\ RestTypes
    BY Types DEF DashInv
  <2> QED BY <2>1 DEF ReviewTypes
<1>2. ASSUME UNCHANGED <<jobs, attempt, before, recorded, progress, log, view, selected, detail, chosen, pressed>>, scroll' \in Nat,
             worker' \in {"running", "ended"}, dashSession' \in {"open", "over"},
             {canceled', stopping'} \subseteq BOOLEAN
      PROVE  DashInv'
  <2>1. RestTypes'
    <3>1. {reported', detail', canceled', stopping', streamOpen'} \subseteq BOOLEAN
      BY <1>1, <1>2, Zenon DEF RestTypes, progress, log
    <3> QED BY <1>1, <1>2, <3>1 DEF RestTypes
  <2>2. OpenInv' /\ OpenedStays'
    BY <1>1, <1>2, Zenon DEF OpenInv, OpenedStays, LastId, Shown, progress
  <2> QED BY <1>1, <1>2, <2>1, <2>2, ScreenStep
<1>3. ASSUME NEW h \in Heights, NEW w \in Widths, Render(h, w) PROVE DashInv'
  <2>1. /\ UNCHANGED <<jobs, attempt, before, recorded, worker, progress, log, view, selected, detail, canceled, dashSession, chosen, pressed>>
        /\ stopping' = (stopping \/ canceled) /\ (DetailDrawn(h) \/ ActivityDrawn(h, w) \/ ListDrawn)
    BY <1>3 DEF Render, engine
  <2>2. scroll' \in Nat
    <3>1. scroll \in Nat /\ h \in Nat /\ DetailRows \subseteq Nat /\ Cardinality(Rows(activity, w)) \in Nat
      <4>1. w \in Nat /\ h \in Nat /\ DetailRows \subseteq Nat
        BY DashboardAssumption
      <4>2. LogTypes /\ RestTypes
        BY Types DEF DashInv
      <4> QED BY <4>1, <4>2, RowsAreFinite, FS_CardinalityType DEF RestTypes
    <3>2. \A n \in Nat : Skips(n, h) \in Nat
      BY <3>1 DEF Skips, Lesser, AtLeast0
    <3> QED BY <2>1, <3>1, <3>2 DEF DetailDrawn, ActivityDrawn, ListDrawn
  <2>3. {canceled', stopping'} \subseteq BOOLEAN
    BY <1>1, <2>1, Zenon DEF RestTypes
  <2>4. worker' \in {"running", "ended"} /\ dashSession' \in {"open", "over"}
    BY <1>1, <2>1 DEF RestTypes
  <2> QED BY <1>2, <2>1, <2>2, <2>3, <2>4
<1>4. CASE Cancel
  <2>1. /\ UNCHANGED <<jobs, attempt, before, recorded, worker, progress, log, view, selected, scroll, detail, stopping, dashSession, chosen, pressed>>
        /\ canceled' = TRUE
    BY <1>4 DEF Cancel, engine, screen
  <2>2. {canceled', stopping'} \subseteq BOOLEAN
    BY <1>1, <2>1, Zenon DEF RestTypes
  <2>3. worker' \in {"running", "ended"} /\ dashSession' \in {"open", "over"} /\ scroll' \in Nat
    BY <1>1, <2>1 DEF RestTypes
  <2> QED BY <1>2, <2>1, <2>2, <2>3
<1>5. CASE Return \/ EngineEnds
  <2>1. /\ UNCHANGED <<jobs, attempt, before, recorded, progress, log, view, selected, scroll, detail, canceled, stopping, chosen, pressed>>
        /\ worker' \in {worker, "ended"} /\ dashSession' \in {dashSession, "over"}
    BY <1>5 DEF Return, EngineEnds, engine, screen, stop
  <2>2. {canceled', stopping'} \subseteq BOOLEAN
    BY <1>1, <2>1, Zenon DEF RestTypes
  <2>3. worker' \in {"running", "ended"} /\ dashSession' \in {"open", "over"} /\ scroll' \in Nat
    BY <1>1, <2>1 DEF RestTypes
  <2> QED BY <1>2, <2>1, <2>2, <2>3
<1> QED BY <1>3, <1>4, <1>5 DEF RenderAny

LEMMA NextDash == DashInv /\ [DashNext]_dashVars => DashInv'
<1> SUFFICES ASSUME DashInv, [DashNext]_dashVars PROVE DashInv'
  OBVIOUS
<1>1. CASE UNCHANGED dashVars
  <2>1. UNCHANGED <<jobs, attempt, before, recorded, progress, log>> /\ RestTypes' /\ OpenInv' /\ OpenedStays'
    BY <1>1, Types, Zenon DEF DashInv, RestTypes, OpenInv, OpenedStays, LastId, Shown, dashVars, engine, progress, log,
       screen, stop
  <2>2. selected' \in 0..AtLeast0(Len(reviews) - 1)
    BY <1>1, Types DEF DashInv, ReviewTypes, dashVars, screen
  <2> QED BY <2>1, <2>2, ScreenStep
<1>2. CASE EngineAction
  BY <1>2, EngineStays
<1>3. CASE LogAny
  BY <1>3, LogInvStep
<1>4. CASE KeyAny
  BY <1>4, KeyStep
<1>5. CASE RenderAny \/ Cancel \/ Return \/ EngineEnds
  BY <1>5, DashSessionStep
<1>6. EngineStep => EngineAction \/ EngineEnds
  BY DEF EngineStep, EngineAction
<1> QED BY <1>1, <1>2, <1>3, <1>4, <1>5, <1>6 DEF DashNext

LEMMA Invariance == DashSpec => []DashInv
  BY InitDash, NextDash, PTL DEF DashSpec

-----------------------------------------------------------------------------
(***************************************************************************)
(* The theorems.                                                           *)
(***************************************************************************)

\* Every variable keeps its type, and the selected position has a review
\* whenever there is one.
THEOREM DashTypeCorrect == DashSpec => []DashTypeOK
<1>1. DashInv => DashTypeOK
  BY DEF DashInv
<1> QED BY <1>1, Invariance, PTL

\* The review on the screen is the one the user opened (dashboard.go: "Keep a
\* review open while new results arrive").
THEOREM OpenReviewStays == DashSpec => []OpenedStays
<1>1. DashInv => OpenedStays
  BY DEF DashInv
<1> QED BY <1>1, Invariance, PTL

\* The summary names as posted the reviews whose posting this run recorded, and
\* none that was recorded before it (dashboard.go: summary).
THEOREM SummaryTellsThisRun == DashSpec => []SummaryIsOfThisRun
<1>1. DashInv => SummaryIsOfThisRun
  <2> SUFFICES ASSUME DashInv
               PROVE  /\ (recorded \ before) \cap IdsOf(reviews) \subseteq NamedAsPosted
                      /\ NamedAsPosted \subseteq SubmittedIn(jobs) \ before
    BY DEF SummaryIsOfThisRun
  <2>1. \A i \in DOMAIN reviews : SaidOf(reviews[i])
    BY DEF DashInv, BeforeInv
  <2>2. \A i \in DOMAIN initial : initial[i].status = "submitted" => initial[i].id \in before
    BY DEF DashInv, BeforeInv
  <2>3. ASSUME NEW i \in DOMAIN reviews, reviews[i].id \in recorded \ before
        PROVE  reviews[i].id \in NamedAsPosted
    <3>1. reviews[i].status = "submitted"
      BY <2>1, <2>3 DEF SaidOf
    <3>2. \A k \in DOMAIN initial : initial[k] # reviews[i]
      BY <2>2, <2>3, <3>1
    <3>3. reviews[i] \in Summary
      BY <3>2 DEF Summary
    <3> QED BY <3>1, <3>3 DEF NamedAsPosted
  <2>4. ASSUME NEW i \in DOMAIN reviews, reviews[i] \in Summary, reviews[i].status = "submitted"
        PROVE  reviews[i].id \in SubmittedIn(jobs) \ before
    <3>1. reviews[i].id \in SubmittedIn(jobs)
      BY <2>1, <2>4 DEF SaidOf
    <3>2. \A k \in DOMAIN initial : initial[k] # reviews[i]
      BY <2>4 DEF Summary
    <3> QED BY <2>1, <3>1, <3>2 DEF SaidOf
  <2> QED BY <2>3, <2>4 DEF NamedAsPosted, Summary, IdsOf
<1> QED BY <1>1, Invariance, PTL

\* A report moves the selection with its review, and the overview follows the
\* newest (dashboard.go: update).
THEOREM SelectionFollows == DashSpec => SelectionStays
<1> DEFINE A == reviews' # reviews =>
       IF detail \/ selected > 0
       THEN Len(reviews) > 0 /\ Shown \in IdsOf(reviews') => Shown' = Shown
       ELSE selected' = 0
<1>1. DashInv /\ [DashNext]_dashVars => [A]_dashVars
  <2> SUFFICES ASSUME DashInv, DashNext, reviews' # reviews PROVE A
    OBVIOUS
  <2>1. EngineAction
    BY DEF DashNext, EngineStep, EngineAction, LogAny, KeyAny, RenderAny, Log, Continue, EngineEnds, KeyStop,
       KeyBack, KeyScroll, KeyView, KeyOpen, KeyBrowse, Render, Cancel, Return, progress
  <2>2. DashTypeOK /\ jobs' \in Seq(JobStatuses) /\ Update(ReportOf(jobs'))
    BY <2>1, EngineActions DEF EngineMoves, DashInv, Unsaved, progress
  <2>3. /\ Follows(reviews') => Shown' = Shown
        /\ ~Follows(reviews') /\ selected = 0 => selected' = 0
    BY <2>2, UpdateStep
  <2>4. Len(reviews) \in Nat /\ selected \in 0..AtLeast0(Len(reviews) - 1)
    BY <2>2, LenProperties DEF DashTypeOK
  <2>5. selected \in Nat /\ (Len(reviews) > 0 => Len(reviews) > selected)
    BY <2>4 DEF AtLeast0
  <2>6. CASE detail \/ selected > 0
    BY <2>3, <2>5, <2>6 DEF Follows
  <2>7. CASE ~(detail \/ selected > 0)
    BY <2>3, <2>5, <2>7 DEF Follows
  <2> QED BY <2>6, <2>7
<1> QED BY <1>1, Invariance, PTL DEF DashSpec, SelectionStays

\* A log record that takes a row, and a piece that takes none, does not move
\* what the user is reading, at any width (dashboard.go: addActivity).
THEOREM PlaceStays == DashSpec => ReadingStays
<1> DEFINE A == activity' # activity =>
       /\ detail => scroll' = scroll
       /\ view = 2 /\ scroll > 0 =>
            \A width \in Widths : \A row \in Rows(activity, width) \cap Rows(activity', width) :
              OneRow(width) /\ Cardinality(Below(activity, row, width)) = scroll
                => Cardinality(Below(activity', row, width)) = scroll'
<1>1. DashInv /\ [DashNext]_dashVars => [A]_dashVars
  <2> SUFFICES ASSUME DashInv, DashNext, activity' # activity PROVE A
    OBVIOUS
  <2>1. LogAny
    BY DEF DashNext, EngineStep, KeyAny, RenderAny, Report, Save, Enqueue, Revise, Recover, AttemptBegins, Intend,
       Posted, AttemptEnds, Between, Engine, EngineEnds, KeyStop, KeyBack, KeyScroll, KeyView, KeyOpen, KeyBrowse,
       Render, Cancel, Return, log
  <2>2. OpenInv /\ LogTypes /\ LogInv /\ RestTypes
    BY Types DEF DashInv
  <2>3. ASSUME NEW size \in Sizes, Log(size) PROVE A
    <3>1. /\ LogTypes' /\ LogInv' /\ lines' = lines + 1 /\ scroll' = PlaceAfter(scroll)
          /\ \E n \in 1..ClipAt : Moved([line |-> lines + 1, size |-> n])
      BY <2>3, LogStep
    <3>2. detail => scroll' = scroll
      BY <2>2, <3>1 DEF OpenInv, PlaceAfter
    <3>3. ASSUME view = 2, scroll > 0, NEW width \in Widths, OneRow(width),
                 NEW row \in Rows(activity, width) \cap Rows(activity', width),
                 Cardinality(Below(activity, row, width)) = scroll
          PROVE  Cardinality(Below(activity', row, width)) = scroll'
      <4>1. lines' # lines /\ width \in Nat \ {0} /\ scroll' = scroll + 1
        BY <2>2, <3>1, <3>3, DashboardAssumption DEF LogTypes, PlaceAfter
      <4>2. activity'[Len(activity')].size <= width
        BY <3>3, <4>1 DEF OneRow
      <4> QED BY <2>2, <3>1, <3>3, <4>1, <4>2, NewRow
    <3> QED BY <3>2, <3>3
  <2>4. ASSUME NEW size \in Sizes \cup {0}, Continue(size) PROVE A
    <3>1. lines' = lines /\ scroll' = scroll
      BY <2>4 DEF Continue, screen
    <3>2. ASSUME NEW width \in Widths, OneRow(width), NEW row
          PROVE  Below(activity', row, width) = Below(activity, row, width)
      BY <3>1, <3>2 DEF OneRow, Below
    <3> QED BY <3>1, <3>2
  <2> QED BY <2>1, <2>3, <2>4 DEF LogAny
<1> QED BY <1>1, Invariance, PTL DEF DashSpec, ReadingStays

-----------------------------------------------------------------------------
\* The place in meant of what comes after the press of b.
KeyAfter(b) == b.key + Len(Meant(b.press))

\* Byte i is the first of a press, or the next to be sent, and k its place.
Begins(i, k) == IF i = Len(sent) + 1 THEN k = Len(meant) + 1 ELSE sent[i].nth = 1 /\ sent[i].key = k

\* The bytes are those of one press after the other.
SentInv ==
  /\ Begins(1, 1)
  /\ \A i \in 1..Len(sent) :
       /\ sent[i].press # "paste" => sent[i].key \in 1..Len(meant) /\ Meant(sent[i].press) = <<meant[sent[i].key]>>
       /\ IF Ending(sent[i]) THEN Begins(i + 1, KeyAfter(sent[i]))
          ELSE i < Len(sent) /\ sent[i + 1] = [sent[i] EXCEPT !.nth = @ + 1]

\* The bytes that the decoder is done with.
Done == read - Len(pending)

\* The decoder is between two presses, or within a paste between two of its parts.
PlaceInv ==
  IF paste THEN /\ Done < Len(sent) /\ sent[Done + 1].press = "paste"
                /\ sent[Done + 1].nth \in 5..7 /\ sent[Done + 1].key = Len(keys) + 1
  ELSE Begins(Done + 1, Len(keys) + 1)

PendingInv == Done >= 0 /\ \A i \in 1..Len(pending) : pending[i] = ByteOf(sent[Done + i])

GivenInv == Len(keys) <= Len(meant) /\ \A i \in 1..Len(keys) : keys[i] = meant[i]

KeysInv == KeysTypeOK /\ SentInv /\ PendingInv /\ PlaceInv /\ GivenInv

ByteSent == {b \in [press : Presses, nth : Nat, key : Nat] : b.nth \in DOMAIN Sent(b.press)}

-----------------------------------------------------------------------------
\* What each press sends.
LEMMA SentIs ==
  /\ Sent("up")     = <<"ESC", "[", "A">>
  /\ Sent("appUp")  = <<"ESC", "O", "A">>
  /\ Sent("down")   = <<"ESC", "[", "B">>
  /\ Sent("pgup")   = <<"ESC", "[", "5", "~">>
  /\ Sent("esc")    = <<"ESC">>
  /\ Sent("q")      = <<"q">>
  /\ Sent("ctrl+c") = <<"^C">>
  /\ Sent("paste")  = <<"ESC", "[", "200", "~", "q", "^C", "ESC", "[", "201", "~">>
  BY DEF Sent

LEMMA SentShape ==
  ASSUME NEW p \in KeyPresses \cup {"paste"}
  PROVE  /\ Sent(p) \in Seq(Byte) /\ Len(Sent(p)) \in 1..10 /\ DOMAIN Sent(p) = 1..Len(Sent(p))
         /\ Meant(p) \in Seq(KeyPresses) /\ Len(Meant(p)) = IF p = "paste" THEN 0 ELSE 1
         /\ p \in {"esc", "q", "ctrl+c"} => Len(Sent(p)) = 1
         /\ p \in {"up", "appUp", "down"} => Len(Sent(p)) = 3
         /\ p = "pgup" => Len(Sent(p)) = 4
         /\ p = "paste" => Len(Sent(p)) = 10
         /\ Meant(p) = CASE p = "paste" -> <<>> [] p = "appUp" -> <<"up">> [] OTHER -> <<p>>
<1>1. Sent(p) \in Seq(Byte) /\ Len(Sent(p)) \in 1..10
  <2>1. /\ "ESC" \in Byte /\ "[" \in Byte /\ "O" \in Byte /\ "A" \in Byte /\ "B" \in Byte /\ "~" \in Byte
        /\ "5" \in Byte /\ "q" \in Byte /\ "^C" \in Byte /\ "200" \in Byte /\ "201" \in Byte
    BY DEF Byte, Final
  <2>2. CASE p = "up"
    <3>1. Sent(p) = <<"ESC", "[", "A">>
      BY <2>2, SentIs
    <3> QED BY <2>1, <3>1
  <2>3. CASE p = "appUp"
    <3>1. Sent(p) = <<"ESC", "O", "A">>
      BY <2>3, SentIs
    <3> QED BY <2>1, <3>1
  <2>4. CASE p = "down"
    <3>1. Sent(p) = <<"ESC", "[", "B">>
      BY <2>4, SentIs
    <3> QED BY <2>1, <3>1
  <2>5. CASE p = "pgup"
    <3>1. Sent(p) = <<"ESC", "[", "5", "~">>
      BY <2>5, SentIs
    <3> QED BY <2>1, <3>1
  <2>6. CASE p \in {"esc", "q", "ctrl+c"}
    <3>1. \E b \in Byte : Sent(p) = <<b>>
      BY <2>1, <2>6, SentIs
    <3> QED BY <2>1, <3>1
  <2>7. CASE p = "paste"
    <3>1. Sent(p) = <<"ESC", "[", "200", "~", "q", "^C", "ESC", "[", "201", "~">>
      BY <2>7, SentIs
    <3> QED BY <2>1, <3>1
  <2> QED BY <2>2, <2>3, <2>4, <2>5, <2>6, <2>7 DEF KeyPresses
<1>2. /\ p \in {"esc", "q", "ctrl+c"} => Len(Sent(p)) = 1
      /\ p \in {"up", "appUp", "down"} => Len(Sent(p)) = 3
      /\ p = "pgup" => Len(Sent(p)) = 4
      /\ p = "paste" => Len(Sent(p)) = 10
  BY SentIs
<1>3. /\ Meant(p) \in Seq(KeyPresses) /\ Len(Meant(p)) = IF p = "paste" THEN 0 ELSE 1
      /\ Meant(p) = CASE p = "paste" -> <<>> [] p = "appUp" -> <<"up">> [] OTHER -> <<p>>
  <2>1. CASE p = "paste"
    BY <2>1 DEF Meant
  <2>2. CASE p = "appUp"
    BY <2>2 DEF Meant, KeyPresses
  <2>3. CASE p \notin {"paste", "appUp"}
    <3>1. Meant(p) = <<p>> /\ p \in KeyPresses
      BY <2>3 DEF Meant
    <3> QED BY <2>3, <3>1
  <2> QED BY <2>1, <2>2, <2>3
<1> QED BY <1>1, <1>2, <1>3

\* The types, read off the sequences.
LEMMA KeyTypes ==
  ASSUME KeysTypeOK
  PROVE  /\ sent \in Seq(ByteSent) /\ meant \in Seq(KeyPresses) /\ pending \in Seq(Byte)
         /\ keys \in Seq(Byte \cup KeyPresses) /\ read \in 0..Len(sent)
         /\ paste \in BOOLEAN /\ feeding \in BOOLEAN
         /\ Len(sent) \in Nat /\ Len(meant) \in Nat /\ Len(pending) \in Nat /\ Len(keys) \in Nat
         /\ Done \in Int
         /\ \A i \in 1..Len(sent) :
              /\ sent[i] \in [press : Presses, nth : Nat, key : Nat]
              /\ sent[i].press \in KeyPresses \cup {"paste"}
              /\ sent[i].nth \in 1..Len(Sent(sent[i].press)) /\ ByteOf(sent[i]) \in Byte
<1>1. /\ sent \in Seq(ByteSent) /\ meant \in Seq(KeyPresses) /\ pending \in Seq(Byte)
      /\ keys \in Seq(Byte \cup KeyPresses) /\ read \in 0..Len(sent)
      /\ paste \in BOOLEAN /\ feeding \in BOOLEAN
  BY DEF KeysTypeOK, ByteSent
<1>2. Len(sent) \in Nat /\ Len(meant) \in Nat /\ Len(pending) \in Nat /\ Len(keys) \in Nat
  BY <1>1, LenProperties
<1>3. ASSUME NEW i \in 1..Len(sent)
      PROVE  /\ sent[i] \in [press : Presses, nth : Nat, key : Nat]
             /\ sent[i].press \in KeyPresses \cup {"paste"}
             /\ sent[i].nth \in 1..Len(Sent(sent[i].press)) /\ ByteOf(sent[i]) \in Byte
  <2>1. sent[i] \in ByteSent
    BY <1>1, ElementOfSeq
  <2>2. sent[i].press \in KeyPresses \cup {"paste"}
    BY <2>1, KeysAssumption DEF ByteSent
  <2>3. sent[i].nth \in 1..Len(Sent(sent[i].press))
    BY <2>1, <2>2, SentShape DEF ByteSent
  <2>4. Sent(sent[i].press) \in Seq(Byte)
    BY <2>2, SentShape
  <2>5. ByteOf(sent[i]) \in Byte
    BY <2>3, <2>4, ElementOfSeq DEF ByteOf
  <2> QED BY <2>1, <2>2, <2>3, <2>5 DEF ByteSent
<1> QED BY <1>1, <1>2, <1>3 DEF Done

\* The bytes that follow one of a press.
LEMMA SamePress ==
  ASSUME KeysTypeOK, SentInv, NEW i \in 1..Len(sent), NEW d \in 0..3,
         sent[i].nth + d <= Len(Sent(sent[i].press))
  PROVE  /\ i + d <= Len(sent) /\ sent[i + d].press = sent[i].press
         /\ sent[i + d].nth = sent[i].nth + d /\ sent[i + d].key = sent[i].key
<1> DEFINE P(e) == /\ i + e \in 1..Len(sent) /\ sent[i + e].press = sent[i].press
                   /\ sent[i + e].nth = sent[i].nth + e /\ sent[i + e].key = sent[i].key
<1>1. Len(sent) \in Nat /\ sent[i].nth \in Nat /\ P(0) /\ Len(Sent(sent[i].press)) \in Nat
  BY KeyTypes, SentShape
<1>2. ASSUME NEW e \in {0, 1, 2}, e < d, P(e) PROVE P(e + 1)
  <2>1. ~Ending(sent[i + e])
    BY <1>1, <1>2 DEF Ending
  <2>2. i + e < Len(sent) /\ sent[(i + e) + 1] = [sent[i + e] EXCEPT !.nth = @ + 1]
    BY <1>2, <2>1 DEF SentInv
  <2>3. sent[i + e] \in [press : Presses, nth : Nat, key : Nat]
    BY <1>2, KeyTypes
  <2>4. (i + e) + 1 = i + (e + 1) /\ i + (e + 1) \in 1..Len(sent)
    BY <1>1, <2>2
  <2>5. /\ sent[(i + e) + 1].press = sent[i + e].press /\ sent[(i + e) + 1].key = sent[i + e].key
        /\ sent[(i + e) + 1].nth = sent[i + e].nth + 1
    BY <2>2, <2>3
  <2>6. sent[i].nth + e + 1 = sent[i].nth + (e + 1)
    BY <1>1
  <2> QED BY <1>2, <2>4, <2>5, <2>6
<1> HIDE DEF P
<1>3. d = 0 \/ d = 1 \/ d = 2 \/ d = 3
  OBVIOUS
<1>4. P(d)
  <2>1. d > 0 => P(1)
    BY <1>1, <1>2
  <2>2. d > 1 => P(2)
    BY <2>1, <1>2
  <2>3. d > 2 => P(3)
    BY <2>1, <2>2, <1>2
  <2> QED BY <1>1, <1>3, <2>1, <2>2, <2>3
<1> QED BY <1>1, <1>4 DEF P
\* What the decoder can tell from the first bytes of a press.
LEMMA SentBytes ==
  ASSUME NEW p \in KeyPresses \cup {"paste"}
  PROVE  /\ p \notin {"q", "ctrl+c"} => Sent(p)[1] = "ESC"
         /\ p = "q" => Sent(p)[1] = "q"
         /\ p = "ctrl+c" => Sent(p)[1] = "^C"
         /\ Sent(p)[Len(Sent(p))] = "ESC" => p = "esc"
         /\ p \notin {"esc", "q", "ctrl+c"} => Sent(p)[2] \in {"[", "O"}
         /\ p \in {"up", "appUp", "down"} => Sent(p)[3] \in Final
         /\ p \in {"pgup", "paste"} => Sent(p)[3] \notin Final /\ Sent(p)[4] \in Final
         /\ p = "paste" => /\ Sent(p)[5] = "q" /\ Sent(p)[6] = "^C" /\ Sent(p)[7] = "ESC"
                           /\ Sent(p)[8] = "[" /\ Sent(p)[9] \notin Final /\ Sent(p)[10] \in Final
<1>1. p \in {"up", "appUp", "down", "pgup", "esc", "q", "ctrl+c", "paste"}
  BY DEF KeyPresses
<1>2. CASE p = "up"
  <2>1. Sent(p) = <<"ESC", "[", "A">>
    BY <1>2, SentIs
  <2>2. /\ Len(Sent(p)) = 3
        /\ Sent(p)[1] = "ESC" /\ Sent(p)[2] = "[" /\ Sent(p)[3] = "A"
    BY <2>1
  <2> QED BY <1>2, <2>2 DEF Final
<1>3. CASE p = "appUp"
  <2>1. Sent(p) = <<"ESC", "O", "A">>
    BY <1>3, SentIs
  <2>2. /\ Len(Sent(p)) = 3
        /\ Sent(p)[1] = "ESC" /\ Sent(p)[2] = "O" /\ Sent(p)[3] = "A"
    BY <2>1
  <2> QED BY <1>3, <2>2 DEF Final
<1>4. CASE p = "down"
  <2>1. Sent(p) = <<"ESC", "[", "B">>
    BY <1>4, SentIs
  <2>2. /\ Len(Sent(p)) = 3
        /\ Sent(p)[1] = "ESC" /\ Sent(p)[2] = "[" /\ Sent(p)[3] = "B"
    BY <2>1
  <2> QED BY <1>4, <2>2 DEF Final
<1>5. CASE p = "pgup"
  <2>1. Sent(p) = <<"ESC", "[", "5", "~">>
    BY <1>5, SentIs
  <2>2. /\ Len(Sent(p)) = 4
        /\ Sent(p)[1] = "ESC" /\ Sent(p)[2] = "[" /\ Sent(p)[3] = "5" /\ Sent(p)[4] = "~"
    BY <2>1
  <2> QED BY <1>5, <2>2 DEF Final
<1>6. CASE p = "esc"
  BY <1>6, SentIs
<1>7. CASE p = "q"
  BY <1>7, SentIs
<1>8. CASE p = "ctrl+c"
  BY <1>8, SentIs
<1>9. CASE p = "paste"
  <2>1. Sent(p) = <<"ESC", "[", "200", "~", "q", "^C", "ESC", "[", "201", "~">>
    BY <1>9, SentIs
  <2>2. /\ Len(Sent(p)) = 10
        /\ Sent(p)[1] = "ESC" /\ Sent(p)[2] = "[" /\ Sent(p)[3] = "200" /\ Sent(p)[4] = "~" /\ Sent(p)[5] = "q"
        /\ Sent(p)[6] = "^C" /\ Sent(p)[7] = "ESC" /\ Sent(p)[8] = "[" /\ Sent(p)[9] = "201" /\ Sent(p)[10] = "~"
    BY <2>1
  <2> QED BY <1>9, <2>2 DEF Final
<1> QED BY <1>1, <1>2, <1>3, <1>4, <1>5, <1>6, <1>7, <1>8, <1>9

\* What is pending of a press.
LEMMA Ahead ==
  ASSUME KeysInv, NEW d \in 0..3, d < Len(pending), NEW b, b = sent[Done + 1],
         b.nth + d <= Len(Sent(b.press))
  PROVE  pending[d + 1] = Sent(b.press)[b.nth + d]
<1>1. /\ Done \in Int /\ Len(pending) \in Nat /\ read \in 0..Len(sent) /\ Len(sent) \in Nat
      /\ Done >= 0 /\ Done + 1 \in 1..Len(sent) /\ Done + (d + 1) = (Done + 1) + d
  <2>1. /\ Len(pending) \in Nat /\ read \in 0..Len(sent) /\ Len(sent) \in Nat /\ Done \in Int
    BY KeyTypes DEF KeysInv
  <2>2. Done >= 0 /\ Done = read - Len(pending)
    BY DEF KeysInv, PendingInv, Done
  <2> HIDE DEF Done
  <2> QED BY <2>1, <2>2
<1>2. sent[(Done + 1) + d].press = b.press /\ sent[(Done + 1) + d].nth = b.nth + d
  <2>1. PICK i \in 1..Len(sent) : i = Done + 1
    BY <1>1
  <2>2. b = sent[i] /\ sent[i].nth + d <= Len(Sent(sent[i].press))
    BY <2>1
  <2>3. sent[i + d].press = sent[i].press /\ sent[i + d].nth = sent[i].nth + d
    BY <2>2, SamePress DEF KeysInv
  <2> QED BY <2>1, <2>2, <2>3
<1>3. pending[d + 1] = ByteOf(sent[Done + (d + 1)])
  <2>1. d + 1 \in 1..Len(pending)
    BY <1>1
  <2> QED BY <2>1 DEF KeysInv, PendingInv
<1>4. sent[Done + (d + 1)] = sent[(Done + 1) + d]
  BY <1>1
<1> QED BY <1>2, <1>3, <1>4 DEF ByteOf

\* The next byte, where there is one, and outside of a paste the first of a press.
LEMMA NextByte ==
  ASSUME KeysInv, pending # <<>>
  PROVE  /\ Done \in Nat /\ Done + 1 \in 1..Len(sent) /\ Len(pending) \in Nat \ {0}
         /\ sent[Done + 1].press \in KeyPresses \cup {"paste"}
         /\ sent[Done + 1].key = Len(keys) + 1
         /\ sent[Done + 1].nth \in 1..Len(Sent(sent[Done + 1].press))
         /\ pending[1] = Sent(sent[Done + 1].press)[sent[Done + 1].nth]
         /\ IF paste THEN sent[Done + 1].press = "paste" /\ sent[Done + 1].nth \in 5..7
            ELSE sent[Done + 1].nth = 1
<1>1. Len(pending) \in Nat \ {0}
  BY KeyTypes, EmptySeq DEF KeysInv
<1>2. Done \in Nat /\ Done + 1 \in 1..Len(sent)
  BY <1>1, KeyTypes DEF KeysInv, PendingInv, Done
<1>3. IF paste THEN sent[Done + 1].press = "paste" /\ sent[Done + 1].nth \in 5..7 ELSE sent[Done + 1].nth = 1
  BY <1>2, KeyTypes DEF KeysInv, PlaceInv, Begins
<1>4. sent[Done + 1].key = Len(keys) + 1
  BY <1>2, KeyTypes DEF KeysInv, PlaceInv, Begins
<1>5. sent[Done + 1].press \in KeyPresses \cup {"paste"} /\ sent[Done + 1].nth \in 1..Len(Sent(sent[Done + 1].press))
  BY <1>2, KeyTypes DEF KeysInv
<1>6. pending[1] = ByteOf(sent[Done + 1])
  BY <1>1, <1>2 DEF KeysInv, PendingInv
<1> QED BY <1>1, <1>2, <1>3, <1>4, <1>5, <1>6 DEF ByteOf

\* What is left when n bytes have been decoded.
LEMMA Decoded ==
  ASSUME KeysInv, NEW n \in 1..Len(pending), UNCHANGED <<sent, read>>,
         pending' \in Seq(Byte), Len(pending') = Len(pending) - n,
         \A i \in 1..Len(pending') : pending'[i] = pending[n + i]
  PROVE  Done' = Done + n /\ PendingInv'
<1>1. Len(pending) \in Nat /\ Done \in Nat /\ read \in Nat /\ Len(pending') \in Nat
  BY KeyTypes DEF KeysInv, PendingInv
<1>2. Done' = Done + n
  BY <1>1 DEF Done
<1>3. ASSUME NEW i \in 1..Len(pending') PROVE pending'[i] = ByteOf(sent[Done' + i])
  <2>1. n + i \in 1..Len(pending) /\ Done + (n + i) = Done' + i
    BY <1>1, <1>2
  <2>2. pending[n + i] = ByteOf(sent[Done + (n + i)])
    BY <2>1 DEF KeysInv, PendingInv
  <2> QED BY <2>1, <2>2
<1> QED BY <1>1, <1>2, <1>3 DEF PendingInv, ByteOf

LEMMA OneDecoded ==
  ASSUME KeysInv, pending # <<>>, UNCHANGED <<sent, read>>, pending' = Tail(pending)
  PROVE  Done' = Done + 1 /\ PendingInv' /\ pending' \in Seq(Byte)
<1>1. pending \in Seq(Byte) /\ Len(pending) \in Nat \ {0}
  BY KeyTypes, NextByte DEF KeysInv
<1>2. /\ pending' \in Seq(Byte) /\ Len(pending') = Len(pending) - 1
      /\ \A i \in 1..Len(pending') : pending'[i] = pending[1 + i]
  BY <1>1, HeadTailProperties
<1> QED BY <1>1, <1>2, Decoded

\* A press that is no paste has been decoded, and its key given.
LEMMA PressDecoded ==
  ASSUME KeysInv, pending # <<>>, ~paste, NEW p, p = sent[Done + 1].press, p # "paste",
         UNCHANGED <<terminal, paste>>, Done' = Done + Len(Sent(p)), keys' = keys \o Meant(p)
  PROVE  PlaceInv' /\ GivenInv' /\ keys' \in Seq(Byte \cup KeyPresses)
<1> DEFINE n == Len(Sent(p))  i == Done + 1  b == sent[i]
<1>1. /\ i \in 1..Len(sent) /\ Done \in Nat /\ p \in KeyPresses /\ b.nth = 1 /\ b.key = Len(keys) + 1
      /\ n \in 1..4 /\ b.press = p
  BY NextByte, SentShape DEF KeyPresses
<1>2. /\ Len(keys) \in Nat /\ Len(meant) \in Nat /\ meant \in Seq(KeyPresses)
      /\ keys \in Seq(Byte \cup KeyPresses) /\ Len(sent) \in Nat
  BY KeyTypes DEF KeysInv
<1>3. b.key \in 1..Len(meant) /\ Meant(p) = <<meant[b.key]>> /\ meant[b.key] \in KeyPresses
  BY <1>1, <1>2, ElementOfSeq DEF KeysInv, SentInv
<1>4. /\ i + (n - 1) \in 1..Len(sent) /\ sent[i + (n - 1)].press = p
      /\ sent[i + (n - 1)].nth = n /\ sent[i + (n - 1)].key = b.key
  <2>1. PICK d \in 0..3 : d = n - 1
    BY <1>1
  <2>2. sent[i].nth + d <= Len(Sent(sent[i].press)) /\ sent[i].nth + d = n
    BY <1>1, <2>1
  <2> HIDE DEF n, i
  <2>3. /\ i + d <= Len(sent) /\ sent[i + d].press = sent[i].press
        /\ sent[i + d].nth = sent[i].nth + d /\ sent[i + d].key = sent[i].key
    BY <1>1, <2>2, SamePress DEF KeysInv
  <2>4. i + d \in 1..Len(sent) /\ i + d = i + (n - 1)
    BY <1>1, <1>2, <2>1, <2>3
  <2> QED BY <1>1, <2>2, <2>3, <2>4
<1>5. Begins(i + (n - 1) + 1, b.key + 1)
  <2>1. Ending(sent[i + (n - 1)]) /\ KeyAfter(sent[i + (n - 1)]) = b.key + 1
    BY <1>1, <1>4, SentShape DEF Ending, KeyAfter
  <2> QED BY <1>4, <2>1 DEF KeysInv, SentInv
<1>6. /\ keys' \in Seq(Byte \cup KeyPresses) /\ Len(keys') = Len(keys) + 1
      /\ \A j \in 1..Len(keys) : keys'[j] = keys[j]
      /\ keys'[Len(keys) + 1] = meant[b.key]
  <2>1. keys' = Append(keys, meant[b.key])
    BY <1>2, <1>3
  <2> QED BY <1>2, <1>3, <2>1, AppendProperties
<1>7. GivenInv'
  <2>1. meant' = meant /\ Len(keys) <= Len(meant) /\ \A j \in 1..Len(keys) : keys[j] = meant[j]
    BY DEF KeysInv, GivenInv, terminal
  <2>2. Len(keys') <= Len(meant)
    BY <1>1, <1>2, <1>3, <1>6
  <2>3. ASSUME NEW j \in 1..Len(keys') PROVE keys'[j] = meant[j]
    <3>1. j \in 1..Len(keys) \/ j = Len(keys) + 1
      BY <1>2, <1>6
    <3> QED BY <1>1, <1>6, <2>1, <3>1
  <2> QED BY <2>1, <2>2, <2>3 DEF GivenInv
<1>8. PlaceInv'
  <2>1. i + (n - 1) + 1 = Done' + 1 /\ b.key + 1 = Len(keys') + 1
    BY <1>1, <1>6
  <2>2. Begins(Done' + 1, Len(keys') + 1)
    BY <1>5, <2>1
  <2> QED BY <2>2 DEF PlaceInv, Begins, terminal, Done
<1> QED BY <1>6, <1>7, <1>8

\* The sequence that an Escape opens, as far as it is pending: that of a key, or
\* the start or the end of a paste.  It ends at byte e.
LEMMA Opening ==
  ASSUME KeysInv, Opened, NEW b, b = sent[Done + 1],
         NEW e, e = IF b.press \in {"up", "appUp", "down"} THEN 3 ELSE 4
  PROVE  /\ pending # <<>> /\ Len(pending) > 1
         /\ IF paste THEN b.press = "paste" /\ b.nth = 7
            ELSE b.press \in {"up", "appUp", "down", "pgup", "paste"} /\ b.nth = 1
         /\ b.nth + e - 1 <= Len(Sent(b.press))
         /\ \A j \in 1..e : j <= Len(pending) => pending[j] = Sent(b.press)[b.nth + (j - 1)]
         /\ \A j \in 3..e : j <= Len(pending) => (pending[j] \in Final <=> j = e)
<1>1. pending # <<>> /\ Len(pending) \in Nat /\ Len(pending) > 1 /\ pending[1] = "ESC" /\ pending[2] \in {"[", "O"}
  BY KeyTypes DEF Opened, Escape, KeysInv
<1>2. /\ b.press \in KeyPresses \cup {"paste"} /\ pending[1] = Sent(b.press)[b.nth]
      /\ IF paste THEN b.press = "paste" /\ b.nth \in 5..7 ELSE b.nth = 1
      /\ Done \in Nat /\ Done + 1 \in 1..Len(sent) /\ Len(sent) \in Nat
  BY <1>1, NextByte, KeyTypes DEF KeysInv
<1>3. paste => b.nth = 7
  <2>1. paste => b.nth = 5 \/ b.nth = 6 \/ b.nth = 7
    BY <1>2
  <2> QED BY <1>1, <1>2, <2>1, SentBytes
<1>4. ~paste => b.press \notin {"q", "ctrl+c"}
  BY <1>1, <1>2, SentBytes
<1>5. ~paste => b.press # "esc"
  <2> SUFFICES ASSUME ~paste, b.press = "esc" PROVE FALSE
    OBVIOUS
  <2>1. Ending(sent[Done + 1])
    BY <1>2, SentShape DEF Ending
  <2>2. Begins(Done + 2, KeyAfter(b)) /\ Done + 2 <= Len(sent)
    <3>1. Begins((Done + 1) + 1, KeyAfter(b))
      BY <1>2, <2>1 DEF KeysInv, SentInv
    <3>2. Done + 2 <= read /\ read <= Len(sent)
      BY <1>1, <1>2, KeyTypes DEF KeysInv, Done
    <3> QED BY <1>2, <3>1, <3>2, KeyTypes DEF KeysInv
  <2>3. sent[Done + 2].nth = 1 /\ sent[Done + 2].press \in KeyPresses \cup {"paste"}
    BY <1>2, <2>2, KeyTypes DEF Begins, KeysInv
  <2>4. pending[2] = Sent(sent[Done + 2].press)[1]
    BY <1>1, <2>3 DEF KeysInv, PendingInv, ByteOf
  <2> QED BY <1>1, <2>3, <2>4, SentBytes
<1>6. IF paste THEN b.press = "paste" /\ b.nth = 7
      ELSE b.press \in {"up", "appUp", "down", "pgup", "paste"} /\ b.nth = 1
  BY <1>2, <1>3, <1>4, <1>5 DEF KeyPresses
<1>7. e \in {3, 4} /\ b.nth \in Nat /\ b.nth + e - 1 <= Len(Sent(b.press)) /\ Len(Sent(b.press)) \in Nat
  <2>1. e \in {3, 4} /\ b.nth \in {1, 7}
    BY <1>6
  <2>2. b.nth + e - 1 <= 10 /\ (b.nth = 1 => b.nth + e - 1 = e)
    BY <2>1
  <2>3. b.press = "paste" => Len(Sent(b.press)) = 10
    BY <1>2, SentShape
  <2>4. b.press # "paste" => b.nth = 1 /\ Len(Sent(b.press)) = e
    <3>1. b.press # "paste" => b.nth = 1 /\ b.press \in {"up", "appUp", "down", "pgup"}
      BY <1>6
    <3> QED BY <1>2, <3>1, SentShape
  <2>5. Len(Sent(b.press)) \in Nat /\ b.nth \in Nat
    BY <1>2, <2>1, SentShape
  <2> QED BY <2>1, <2>2, <2>3, <2>4, <2>5
<1>8. \A j \in 1..e : j <= Len(pending) => pending[j] = Sent(b.press)[b.nth + (j - 1)]
  <2> SUFFICES ASSUME NEW j \in 1..e, j <= Len(pending) PROVE pending[j] = Sent(b.press)[b.nth + (j - 1)]
    OBVIOUS
  <2>1. PICK d \in 0..3 : d = j - 1
    BY <1>7
  <2>2. d < Len(pending) /\ b.nth + d <= Len(Sent(b.press)) /\ d + 1 = j
    BY <1>1, <1>7, <2>1
  <2>3. pending[d + 1] = Sent(b.press)[b.nth + d]
    BY <2>2, Ahead
  <2> QED BY <2>1, <2>2, <2>3
<1>9. \A j \in 3..e : j <= Len(pending) => (pending[j] \in Final <=> j = e)
  <2> SUFFICES ASSUME NEW j \in 3..e, j <= Len(pending) PROVE pending[j] \in Final <=> j = e
    OBVIOUS
  <2>1. pending[j] = Sent(b.press)[b.nth + (j - 1)]
    BY <1>7, <1>8
  <2>2. CASE e = 3
    BY <1>2, <1>6, <2>1, <2>2, SentBytes
  <2>3. CASE e = 4 /\ ~paste
    <3>1. b.press \in {"pgup", "paste"} /\ b.nth = 1 /\ j \in {3, 4}
      BY <1>6, <2>3
    <3> QED BY <1>2, <2>1, <2>3, <3>1, SentBytes
  <2>4. CASE e = 4 /\ paste
    <3>1. b.press = "paste" /\ b.nth = 7 /\ j \in {3, 4}
      BY <1>6, <2>4
    <3> QED BY <1>2, <2>1, <2>4, <3>1, SentBytes
  <2> QED BY <1>7, <2>2, <2>3, <2>4
<1> QED BY <1>1, <1>6, <1>7, <1>8, <1>9
\* What a step that leaves the terminal alone has to keep.
LEMMA TerminalKept ==
  ASSUME KeysInv, UNCHANGED terminal, feeding' \in BOOLEAN, paste' \in BOOLEAN,
         pending' \in Seq(Byte), keys' \in Seq(Byte \cup KeyPresses)
  PROVE  KeysTypeOK' /\ SentInv'
<1>1. KeysTypeOK'
  BY DEF KeysInv, KeysTypeOK, terminal
<1>2. SentInv'
  BY DEF KeysInv, SentInv, Begins, KeyAfter, Ending, terminal
<1> QED BY <1>1, <1>2

LEMMA QuietStep ==
  ASSUME KeysInv, ~SlowLink, Quiet
  PROVE  KeysInv'
<1>1. pending = <<"ESC">> /\ ~Midway /\ UNCHANGED <<terminal, paste, feeding>>
      /\ pending' = <<>> /\ keys' = Append(keys, "esc")
  BY DEF Quiet
<1> DEFINE p == sent[Done + 1].press
<1>2. /\ Done + 1 = read /\ read > 0 /\ p \in KeyPresses \cup {"paste"}
      /\ pending[1] = Sent(p)[sent[Done + 1].nth] /\ pending # <<>> /\ Len(pending) = 1
  BY <1>1, NextByte, KeyTypes DEF KeysInv, Done
<1>3. p = "esc"
  <2>1. Ending(sent[Done + 1])
    BY <1>1, <1>2 DEF Midway
  <2>2. Sent(p)[Len(Sent(p))] = "ESC"
    BY <1>1, <1>2, <2>1 DEF Ending
  <2> QED BY <1>2, <2>2, SentBytes
<1>4. ~paste
  BY <1>2, <1>3, NextByte
<1>5. keys' = keys \o Meant("esc") /\ Len(Sent("esc")) = 1
  <2>1. Meant("esc") = <<"esc">> /\ Len(Sent("esc")) = 1
    BY SentShape DEF Meant, KeyPresses
  <2>2. keys \in Seq(Byte \cup KeyPresses) /\ "esc" \in Byte \cup KeyPresses
    BY KeyTypes DEF KeysInv, KeyPresses
  <2>3. Append(keys, "esc") = keys \o <<"esc">>
    BY <2>2, AppendIsConcat
  <2> QED BY <1>1, <2>1, <2>3
<1>6. Done' = Done + 1 /\ PendingInv' /\ pending' \in Seq(Byte)
  <2>1. pending' = Tail(pending)
    BY <1>1
  <2> QED BY <1>1, <1>2, <2>1, OneDecoded DEF terminal
<1>7. PlaceInv' /\ GivenInv' /\ keys' \in Seq(Byte \cup KeyPresses)
  BY <1>1, <1>2, <1>3, <1>4, <1>5, <1>6, PressDecoded
<1> QED BY <1>1, <1>6, <1>7, TerminalKept, KeyTypes DEF KeysInv

LEMMA PlainStep ==
  ASSUME KeysInv, Plain
  PROVE  KeysInv'
<1> DEFINE b == sent[Done + 1]  p == b.press
<1>1. /\ pending # <<>> /\ pending[1] # "ESC" /\ pending' = Tail(pending)
      /\ Emit(IF pending[1] = "^C" THEN <<"ctrl+c">> ELSE <<pending[1]>>)
      /\ UNCHANGED <<terminal, paste, feeding>>
  BY DEF Plain, Escape
<1>2. /\ p \in KeyPresses \cup {"paste"} /\ pending[1] = Sent(p)[b.nth]
      /\ IF paste THEN p = "paste" /\ b.nth \in 5..7 ELSE b.nth = 1
      /\ Done \in Nat /\ Done + 1 \in 1..Len(sent) /\ b.key = Len(keys) + 1 /\ Len(sent) \in Nat
  BY <1>1, NextByte, KeyTypes DEF KeysInv
<1>3. Done' = Done + 1 /\ PendingInv' /\ pending' \in Seq(Byte)
  BY <1>1, OneDecoded DEF terminal
<1>4. CASE ~paste
  <2>1. p \in {"q", "ctrl+c"}
    BY <1>1, <1>2, <1>4, SentBytes
  <2>0. Len(Sent(p)) = 1
    BY <1>2, <2>1, SentShape
  <2>2. keys' = keys \o Meant(p)
    <3>1. p = "q" => pending[1] = "q" /\ Meant(p) = <<"q">>
      BY <1>2, <1>4, SentBytes DEF Meant
    <3>2. p = "ctrl+c" => pending[1] = "^C" /\ Meant(p) = <<"ctrl+c">>
      BY <1>2, <1>4, SentBytes DEF Meant
    <3>3. keys' = keys \o (IF pending[1] = "^C" THEN <<"ctrl+c">> ELSE <<pending[1]>>)
      BY <1>1, <1>4 DEF Emit
    <3> QED BY <2>1, <3>1, <3>2, <3>3
  <2>3. PlaceInv' /\ GivenInv' /\ keys' \in Seq(Byte \cup KeyPresses)
    BY <1>1, <1>3, <1>4, <2>0, <2>1, <2>2, PressDecoded
  <2> QED BY <1>1, <1>3, <2>3, TerminalKept, KeyTypes DEF KeysInv
<1>5. CASE paste
  <2>1. UNCHANGED keys /\ p = "paste" /\ Len(Sent(p)) = 10
    BY <1>1, <1>2, <1>5, SentShape DEF Emit
  <2>2. b.nth \in {5, 6}
    <3>1. b.nth = 5 \/ b.nth = 6 \/ b.nth = 7
      BY <1>2, <1>5
    <3> QED BY <1>1, <1>2, <2>1, <3>1, SentBytes
  <2>3. ~Ending(sent[Done + 1])
    <3>1. b.nth # 10
      BY <2>2
    <3> QED BY <2>1, <3>1 DEF Ending
  <2>4. Done + 1 < Len(sent) /\ sent[(Done + 1) + 1] = [b EXCEPT !.nth = @ + 1]
    BY <1>2, <2>3 DEF KeysInv, SentInv
  <2>5. b \in [press : Presses, nth : Nat, key : Nat]
    BY <1>2, KeyTypes DEF KeysInv
  <2>6. PlaceInv'
    BY <1>1, <1>2, <1>3, <1>5, <2>1, <2>2, <2>4, <2>5 DEF PlaceInv, terminal
  <2>7. GivenInv' /\ keys' \in Seq(Byte \cup KeyPresses)
    BY <1>1, <2>1, KeyTypes DEF KeysInv, GivenInv, terminal
  <2> QED BY <1>1, <1>3, <2>6, <2>7, TerminalKept, KeyTypes DEF KeysInv
<1> QED BY <1>4, <1>5, KeyTypes DEF KeysInv

LEMMA LoneEscapeStep ==
  ASSUME KeysInv, LoneEscape
  PROVE  KeysInv'
<1> DEFINE b == sent[Done + 1]  p == b.press
<1>1. /\ pending # <<>> /\ pending[1] = "ESC" /\ Len(pending) > 1 /\ pending[2] \notin {"[", "O"}
      /\ pending' = Tail(pending) /\ Emit(<<"esc">>) /\ UNCHANGED <<terminal, paste, feeding>>
  BY DEF LoneEscape, Escape, Opened
<1>2. /\ p \in KeyPresses \cup {"paste"} /\ pending[1] = Sent(p)[b.nth]
      /\ IF paste THEN p = "paste" /\ b.nth \in 5..7 ELSE b.nth = 1
  BY <1>1, NextByte
<1>3. p = "esc" /\ ~paste
  <2>1. CASE paste
    <3>1. b.nth = 5 \/ b.nth = 6 \/ b.nth = 7
      BY <1>2, <2>1
    <3>2. b.nth = 7 /\ Len(Sent(p)) = 10
      <4>1. b.nth = 7
        BY <1>1, <1>2, <2>1, <3>1, SentBytes
      <4>2. Len(Sent(p)) = 10
        BY <1>2, <2>1, SentShape
      <4> QED BY <4>1, <4>2
    <3>3. pending[2] = Sent(p)[8]
      <4>1. pending[1 + 1] = Sent(p)[b.nth + 1]
        BY <1>1, <3>2, Ahead
      <4> QED BY <3>2, <4>1
    <3> QED BY <1>1, <1>2, <2>1, <3>3, SentBytes
  <2>2. CASE ~paste /\ p # "esc"
    <3>1. p \notin {"q", "ctrl+c"}
      BY <1>1, <1>2, <2>2, SentBytes
    <3>2. Len(Sent(p)) >= 2 /\ b.nth = 1
      <4>1. p \in {"up", "appUp", "down", "pgup", "paste"}
        BY <1>2, <2>2, <3>1 DEF KeyPresses
      <4>2. PICK n \in {3, 4, 10} : Len(Sent(p)) = n
        BY <1>2, <4>1, SentShape
      <4>3. Len(Sent(p)) >= 2
        <5>1. n >= 2
          OBVIOUS
        <5> QED BY <4>2, <5>1
      <4> QED BY <1>2, <2>2, <4>3
    <3>3. pending[2] = Sent(p)[2]
      <4>1. pending[1 + 1] = Sent(p)[b.nth + 1]
        BY <1>1, <3>2, Ahead
      <4> QED BY <3>2, <4>1
    <3> QED BY <1>1, <1>2, <2>2, <3>1, <3>3, SentBytes
  <2> QED BY <2>1, <2>2
<1>4. Done' = Done + 1 /\ PendingInv' /\ pending' \in Seq(Byte)
  BY <1>1, OneDecoded DEF terminal
<1>5. keys' = keys \o Meant("esc") /\ Len(Sent("esc")) = 1
  <2>1. Meant("esc") = <<"esc">>
    BY DEF Meant
  <2> QED BY <1>1, <1>3, <2>1, SentIs DEF Emit
<1>6. PlaceInv' /\ GivenInv' /\ keys' \in Seq(Byte \cup KeyPresses)
  BY <1>1, <1>3, <1>4, <1>5, PressDecoded
<1> QED BY <1>1, <1>4, <1>6, TerminalKept, KeyTypes DEF KeysInv

\* Nothing is dropped: what is unfinished has three bytes at most.
LEMMA UnfinishedStep ==
  ASSUME KeysInv, Unfinished
  PROVE  KeysInv'
<1> DEFINE b == sent[Done + 1]
           e == IF b.press \in {"up", "appUp", "down"} THEN 3 ELSE 4
<1>1. Opened /\ Ends = {} /\ feeding' = FALSE /\ UNCHANGED <<terminal, paste, keys>>
      /\ pending' = IF Len(pending) > MaxPending THEN <<>> ELSE pending
  BY DEF Unfinished
<1>2. Len(pending) < e
  <2>1. e \in {3, 4} /\ Len(pending) \in Nat
    BY KeyTypes DEF KeysInv
  <2>2. e <= Len(pending) => pending[e] \in Final
    BY <1>1, <2>1, Opening
  <2>3. e <= Len(pending) => e \in Ends
    BY <2>1, <2>2 DEF Ends
  <2> QED BY <1>1, <2>1, <2>3
<1>3. UNCHANGED pending
  BY <1>1, <1>2, KeyTypes, KeysAssumption DEF KeysInv
<1>4. UNCHANGED Done
  BY <1>1, <1>3 DEF Done, terminal
<1>5. PlaceInv' /\ GivenInv' /\ PendingInv'
  BY <1>1, <1>3, <1>4 DEF KeysInv, PlaceInv, GivenInv, PendingInv, Begins, ByteOf, terminal
<1> QED BY <1>1, <1>3, <1>5, TerminalKept, KeyTypes DEF KeysInv

\* The first n bytes that are pending, and what is left without them.
LEMMA Cut ==
  ASSUME NEW s \in Seq(Byte), NEW n \in 1..Len(s)
  PROVE  /\ SubSeq(s, 1, n) \in Seq(Byte) /\ Len(SubSeq(s, 1, n)) = n
         /\ \A i \in 1..n : SubSeq(s, 1, n)[i] = s[i]
         /\ SubSeq(s, n + 1, Len(s)) \in Seq(Byte) /\ Len(SubSeq(s, n + 1, Len(s))) = Len(s) - n
         /\ \A i \in 1..(Len(s) - n) : SubSeq(s, n + 1, Len(s))[i] = s[n + i]
<1>1. Len(s) \in Nat /\ \A i \in 1..Len(s) : s[i] \in Byte
  BY LenProperties, ElementOfSeq
<1>2. /\ SubSeq(s, 1, n) \in Seq(Byte) /\ Len(SubSeq(s, 1, n)) = n
      /\ \A i \in 1..n : SubSeq(s, 1, n)[i] = s[i]
  <2>1. /\ SubSeq(s, 1, n) \in Seq(Byte) /\ Len(SubSeq(s, 1, n)) = IF 1 <= n THEN n - 1 + 1 ELSE 0
        /\ \A i \in 1..(n - 1 + 1) : SubSeq(s, 1, n)[i] = s[1 + i - 1]
    BY <1>1, SubSeqProperties
  <2> QED BY <1>1, <2>1
<1>3. /\ SubSeq(s, n + 1, Len(s)) \in Seq(Byte)
      /\ Len(SubSeq(s, n + 1, Len(s))) = IF n + 1 <= Len(s) THEN Len(s) - (n + 1) + 1 ELSE 0
      /\ \A i \in 1..(Len(s) - (n + 1) + 1) : SubSeq(s, n + 1, Len(s))[i] = s[n + 1 + i - 1]
  <2>1. \A i \in (n + 1)..Len(s) : s[i] \in Byte
    BY <1>1
  <2> QED BY <1>1, <2>1, SubSeqProperties
<1>4. \A i \in 1..(Len(s) - n) : n + 1 + i - 1 = n + i
  BY <1>1
<1> QED BY <1>1, <1>2, <1>3, <1>4

LEMMA FinishedStep ==
  ASSUME KeysInv, Finished
  PROVE  KeysInv'
<1> DEFINE b == sent[Done + 1]
           p == b.press
           e == IF b.press \in {"up", "appUp", "down"} THEN 3 ELSE 4
           seq == SubSeq(pending, 1, e)
<1>1. Opened /\ UNCHANGED <<terminal, feeding>>
  BY DEF Finished
<1>2. /\ pending # <<>> /\ Len(pending) > 1 /\ b.nth + e - 1 <= Len(Sent(p))
      /\ IF paste THEN p = "paste" /\ b.nth = 7
         ELSE p \in {"up", "appUp", "down", "pgup", "paste"} /\ b.nth = 1
      /\ \A j \in 1..e : j <= Len(pending) => pending[j] = Sent(p)[b.nth + (j - 1)]
      /\ \A j \in 3..e : j <= Len(pending) => (pending[j] \in Final <=> j = e)
  <2>1. PICK c, f : c = sent[Done + 1] /\ f = IF c.press \in {"up", "appUp", "down"} THEN 3 ELSE 4
    OBVIOUS
  <2>2. /\ pending # <<>> /\ Len(pending) > 1 /\ c.nth + f - 1 <= Len(Sent(c.press))
        /\ IF paste THEN c.press = "paste" /\ c.nth = 7
           ELSE c.press \in {"up", "appUp", "down", "pgup", "paste"} /\ c.nth = 1
    <3> HIDE DEF b, e, p, seq
    <3> QED BY <1>1, <2>1, Opening
  <2>3. \A j \in 1..f : j <= Len(pending) => pending[j] = Sent(c.press)[c.nth + (j - 1)]
    <3> SUFFICES ASSUME NEW j \in 1..f, j <= Len(pending) PROVE pending[j] = Sent(c.press)[c.nth + (j - 1)]
      OBVIOUS
    <3> HIDE DEF b, e, p, seq
    <3> QED BY <1>1, <2>1, Opening
  <2>4. \A j \in 3..f : j <= Len(pending) => (pending[j] \in Final <=> j = f)
    <3> HIDE DEF b, e, p, seq
    <3> QED BY <1>1, <2>1, Opening
  <2>5. b = c /\ e = f /\ p = c.press
    BY <2>1
  <2> HIDE DEF b, e, p, seq
  <2> QED BY <2>2, <2>3, <2>4, <2>5
<1>3. /\ pending \in Seq(Byte) /\ Len(pending) \in Nat /\ e \in {3, 4} /\ Done \in Nat
      /\ Done + 1 \in 1..Len(sent) /\ Len(sent) \in Nat /\ b.key = Len(keys) + 1
      /\ p \in KeyPresses \cup {"paste"} /\ b \in [press : Presses, nth : Nat, key : Nat]
      /\ keys \in Seq(Byte \cup KeyPresses)
  BY <1>2, NextByte, KeyTypes DEF KeysInv
<1>4. /\ e <= Len(pending) /\ pending' = SubSeq(pending, e + 1, Len(pending)) /\ paste' = Pastes(seq)
      /\ IF \E n \in Named : n.seq = seq THEN \E n \in Named : n.seq = seq /\ Emit(<<n.key>>) ELSE UNCHANGED keys
  <2>1. PICK end \in Ends :
          /\ \A i \in Ends : end <= i
          /\ pending' = SubSeq(pending, end + 1, Len(pending))
          /\ paste' = Pastes(SubSeq(pending, 1, end))
          /\ IF \E n \in Named : n.seq = SubSeq(pending, 1, end)
             THEN \E n \in Named : n.seq = SubSeq(pending, 1, end) /\ Emit(<<n.key>>)
             ELSE UNCHANGED keys
    BY DEF Finished
  <2>2. end \in 3..Len(pending) /\ pending[end] \in Final
    BY DEF Ends
  <2>3. end = e
    <3>1. CASE end <= e
      BY <1>2, <1>3, <2>2, <3>1
    <3>2. CASE end > e
      <4>1. e \in 3..Len(pending) /\ pending[e] \in Final
        BY <1>2, <1>3, <2>2, <3>2
      <4>2. end <= e
        BY <2>1, <4>1 DEF Ends
      <4> QED BY <1>3, <2>2, <3>2, <4>2
    <3> QED BY <1>3, <2>2, <3>1, <3>2
  <2> QED BY <2>1, <2>2, <2>3
<1>5. /\ seq \in Seq(Byte) /\ Len(seq) = e
      /\ \A j \in 1..e : seq[j] = Sent(p)[b.nth + (j - 1)]
  BY <1>2, <1>3, <1>4, Cut
<1>6. Done' = Done + e /\ PendingInv' /\ pending' \in Seq(Byte)
  <2>1. e \in 1..Len(pending)
    BY <1>3, <1>4
  <2>2. /\ pending' \in Seq(Byte) /\ Len(pending') = Len(pending) - e
        /\ \A i \in 1..Len(pending') : pending'[i] = pending[e + i]
    <3>1. pending' = SubSeq(pending, e + 1, Len(pending))
      BY <1>4
    <3> HIDE DEF e
    <3>2. /\ pending' \in Seq(Byte) /\ Len(pending') = Len(pending) - e
          /\ \A i \in 1..(Len(pending) - e) : pending'[i] = pending[e + i]
      BY <1>3, <2>1, <3>1, Cut
    <3> QED BY <3>2
  <2> HIDE DEF e
  <2> QED BY <1>1, <2>1, <2>2, Decoded DEF terminal
<1>7. ASSUME p \in {"up", "appUp", "down", "pgup"}, ~paste PROVE KeysInv'
  <2>1. seq = Sent(p) /\ e = Len(Sent(p)) /\ p # "paste"
    <3>1. e = Len(Sent(p)) /\ Sent(p) \in Seq(Byte)
      BY <1>3, <1>7, SentShape
    <3>2. \A j \in 1..e : seq[j] = Sent(p)[j]
      <4>1. b.nth = 1 /\ \A j \in 1..e : 1 + (j - 1) = j
        BY <1>2, <1>3, <1>7
      <4> QED BY <1>5, <4>1
    <3> HIDE DEF seq, e, p
    <3>3. seq = Sent(p)
      BY <1>5, <3>1, <3>2, SeqEqual
    <3> QED BY <1>7, <3>1, <3>3
  <2>2. keys' = keys \o Meant(p) /\ paste' = FALSE
    <3>1. \E n \in Named : n.seq = Sent(p) /\ <<n.key>> = Meant(p)
      BY <1>7, SentIs DEF Named, Meant
    <3>2. \A n \in Named : n.seq = Sent(p) => <<n.key>> = Meant(p)
      BY <1>7, SentIs DEF Named, Meant
    <3>3. Sent(p) # PasteStart
      BY <1>7, SentIs DEF PasteStart
    <3> QED BY <1>4, <1>7, <2>1, <3>1, <3>2, <3>3 DEF Emit, Pastes
  <2>3. PlaceInv' /\ GivenInv' /\ keys' \in Seq(Byte \cup KeyPresses)
    <3>1. Done' = Done + Len(Sent(p))
      BY <1>6, <2>1
    <3>2. UNCHANGED <<terminal, paste>>
      BY <1>1, <1>7, <2>2, KeyTypes DEF KeysInv
    <3> HIDE DEF e, seq
    <3> QED BY <1>2, <1>7, <2>1, <2>2, <3>1, <3>2, PressDecoded
  <2> QED BY <1>1, <1>6, <2>2, <2>3, TerminalKept, KeyTypes DEF KeysInv
\* The start or the end of a paste gives no key.
<1>8. ASSUME p = "paste", b.nth = IF paste THEN 7 ELSE 1 PROVE KeysInv'
  <2>1. e = 4 /\ Len(Sent(p)) = 10 /\ b.nth \in {1, 7} /\ (b.nth = 7 <=> paste)
    BY <1>3, <1>8, SentShape, KeyTypes DEF KeysInv
  <2>2. seq = IF paste THEN PasteEnd ELSE PasteStart
    <3>1. /\ seq[1] = Sent(p)[b.nth + 0] /\ seq[2] = Sent(p)[b.nth + 1]
          /\ seq[3] = Sent(p)[b.nth + 2] /\ seq[4] = Sent(p)[b.nth + 3]
      BY <1>5, <2>1
    <3>2. seq = <<seq[1], seq[2], seq[3], seq[4]>>
      <4> HIDE DEF seq
      <4> QED BY <1>5, <2>1
    <3>3. Sent(p) = <<"ESC", "[", "200", "~", "q", "^C", "ESC", "[", "201", "~">>
      BY <1>8, SentIs
    <3>4. /\ Sent(p)[1] = "ESC" /\ Sent(p)[2] = "[" /\ Sent(p)[3] = "200" /\ Sent(p)[4] = "~"
          /\ Sent(p)[7] = "ESC" /\ Sent(p)[8] = "[" /\ Sent(p)[9] = "201" /\ Sent(p)[10] = "~"
      <4> HIDE DEF p
      <4> QED BY <3>3
    <3> HIDE DEF seq, b, p
    <3>5. b.nth = 1 => /\ seq[1] = Sent(p)[1] /\ seq[2] = Sent(p)[2]
                       /\ seq[3] = Sent(p)[3] /\ seq[4] = Sent(p)[4]
      BY <3>1
    <3>6. b.nth = 7 => /\ seq[1] = Sent(p)[7] /\ seq[2] = Sent(p)[8]
                       /\ seq[3] = Sent(p)[9] /\ seq[4] = Sent(p)[10]
      BY <3>1
    <3> QED BY <2>1, <3>2, <3>4, <3>5, <3>6 DEF PasteStart, PasteEnd
  <2>3. UNCHANGED keys /\ paste' = ~paste
    <3>1. \A n \in Named : n.seq # PasteStart /\ n.seq # PasteEnd
      BY DEF Named, PasteStart, PasteEnd
    <3>2. PasteStart # PasteEnd
      BY DEF PasteStart, PasteEnd
    <3>3. paste \in BOOLEAN
      BY KeyTypes DEF KeysInv
    <3> QED BY <1>4, <2>2, <3>1, <3>2, <3>3 DEF Pastes
  <2>4. /\ (Done + 1) + 3 <= Len(sent) /\ sent[(Done + 1) + 3].press = p
        /\ sent[(Done + 1) + 3].nth = b.nth + 3 /\ sent[(Done + 1) + 3].key = b.key
    <3>1. b.nth + 3 <= Len(Sent(b.press)) /\ 3 \in 0..3
      BY <2>1
    <3> QED BY <1>3, <3>1, SamePress DEF KeysInv
  <2>5. PlaceInv'
    <3> DEFINE i == (Done + 1) + 3
    <3>1. i \in 1..Len(sent) /\ i + 1 = Done' + 1 /\ Done' = i
      BY <1>3, <1>6, <2>1, <2>4
    <3>2. CASE paste
      <4>1. Ending(sent[i]) /\ KeyAfter(sent[i]) = b.key
        BY <1>3, <1>8, <2>1, <2>4, <3>2, SentShape DEF Ending, KeyAfter
      <4>2. Begins(Done' + 1, Len(keys) + 1)
        <5>1. Begins(i + 1, KeyAfter(sent[i]))
          BY <3>1, <4>1 DEF KeysInv, SentInv
        <5> QED BY <1>3, <3>1, <4>1, <5>1
      <4> QED BY <1>1, <2>3, <3>2, <4>2 DEF PlaceInv, Begins, terminal, Done
    <3>3. CASE ~paste
      <4>1. ~Ending(sent[i])
        <5>1. sent[i].nth = 4 /\ Len(Sent(sent[i].press)) = 10
          BY <2>1, <2>4, <3>3
        <5> QED BY <5>1 DEF Ending
      <4>2. i < Len(sent) /\ sent[i + 1] = [sent[i] EXCEPT !.nth = @ + 1]
        BY <3>1, <4>1 DEF KeysInv, SentInv
      <4>3. sent[i] \in [press : Presses, nth : Nat, key : Nat]
        BY <3>1, KeyTypes DEF KeysInv
      <4>4. /\ sent[i + 1].press = "paste" /\ sent[i + 1].nth = 5 /\ sent[i + 1].key = Len(keys) + 1
        BY <1>3, <1>8, <2>1, <2>4, <3>3, <4>2, <4>3
      <4>5. /\ Done' < Len(sent) /\ sent[Done' + 1].press = "paste"
            /\ sent[Done' + 1].nth \in 5..7 /\ sent[Done' + 1].key = Len(keys) + 1
        <5> HIDE DEF i
        <5> QED BY <3>1, <4>2, <4>4
      <4> HIDE DEF i
      <4> QED BY <1>1, <2>3, <3>3, <4>5 DEF PlaceInv, terminal, Done
    <3> QED BY <3>2, <3>3
  <2>6. GivenInv' /\ keys' \in Seq(Byte \cup KeyPresses)
    BY <1>1, <1>3, <2>3 DEF KeysInv, GivenInv, terminal
  <2> QED BY <1>1, <1>6, <2>3, <2>5, <2>6, TerminalKept, KeyTypes DEF KeysInv
<1> QED BY <1>2, <1>7, <1>8

\* One sequence after another.
LEMMA Joined2 ==
  ASSUME NEW S, NEW s \in Seq(S), NEW t \in Seq(S), NEW u, u = s \o t,
         NEW m \in Nat, m = Len(s), NEW n \in Nat, n = Len(t)
  PROVE  /\ u \in Seq(S) /\ Len(u) = m + n
         /\ \A i \in 1..m : u[i] = s[i]
         /\ \A i \in 1..n : u[m + i] = t[i]
<1>1. /\ u \in Seq(S) /\ Len(u) = m + n
      /\ \A i \in 1..(m + n) : u[i] = IF i <= m THEN s[i] ELSE t[i - m]
  BY ConcatProperties
<1>2. \A i \in 1..m : i \in 1..(m + n) /\ i <= m
  OBVIOUS
<1>3. \A i \in 1..n : m + i \in 1..(m + n) /\ ~(m + i <= m) /\ (m + i) - m = i
  OBVIOUS
<1> QED BY <1>1, <1>2, <1>3

LEMMA PressStep ==
  ASSUME KeysInv, NEW p \in Presses, Press(p)
  PROVE  KeysInv'
<1> DEFINE new == [i \in DOMAIN Sent(p) |-> [press |-> p, nth |-> i, key |-> Len(meant) + 1]]
<1>0. PICK m \in Nat, n \in 1..10, l \in Nat, c \in {0, 1} :
        m = Len(sent) /\ n = Len(Sent(p)) /\ l = Len(meant) /\ c = Len(Meant(p))
  BY KeyTypes, KeysAssumption, SentShape DEF KeysInv
<1> USE <1>0
<1>1. /\ p \in KeyPresses \cup {"paste"} /\ DOMAIN Sent(p) = 1..n
      /\ Meant(p) \in Seq(KeyPresses) /\ c = IF p = "paste" THEN 0 ELSE 1
  BY KeysAssumption, SentShape
<1>2. /\ typed < MaxTyped /\ typed' = typed + 1 /\ meant' = meant \o Meant(p)
      /\ sent' = sent \o new /\ UNCHANGED <<read, decoder>>
  BY DEF Press
<1>3. /\ sent \in Seq(ByteSent) /\ meant \in Seq(KeyPresses)
      /\ Len(keys) \in Nat /\ Done \in Nat /\ read \in 0..m /\ Len(pending) \in Nat
      /\ \A i \in 1..m : sent[i] \in [press : Presses, nth : Nat, key : Nat]
  BY KeyTypes DEF KeysInv, PendingInv
<1>4. new \in Seq(ByteSent) /\ Len(new) = n /\ \A i \in 1..n : new[i] = [press |-> p, nth |-> i, key |-> l + 1]
  <2>1. \A i \in 1..n : [press |-> p, nth |-> i, key |-> l + 1] \in ByteSent
    BY <1>1, <1>3 DEF ByteSent
  <2>2. new = [i \in 1..n |-> [press |-> p, nth |-> i, key |-> l + 1]]
    BY <1>1
  <2> HIDE DEF new
  <2> QED BY <1>1, <2>1, <2>2
<1> HIDE DEF new
<1>5. /\ sent' \in Seq(ByteSent) /\ Len(sent') = m + n
      /\ \A i \in 1..m : sent'[i] = sent[i]
      /\ \A i \in 1..n : sent'[m + i] = [press |-> p, nth |-> i, key |-> l + 1]
  <2>0. n \in Nat /\ m \in Nat
    OBVIOUS
  <2>1. /\ sent' \in Seq(ByteSent) /\ Len(sent') = m + n
        /\ \A i \in 1..m : sent'[i] = sent[i]
        /\ \A i \in 1..n : sent'[m + i] = new[i]
    <3> DEFINE u == sent'
    <3>1. u = sent \o new /\ sent \in Seq(ByteSent) /\ new \in Seq(ByteSent) /\ m = Len(sent) /\ n = Len(new)
      BY <1>2, <1>3, <1>4
    <3> HIDE DEF u
    <3>2. /\ u \in Seq(ByteSent) /\ Len(u) = m + n
          /\ \A i \in 1..m : u[i] = sent[i]
          /\ \A i \in 1..n : u[m + i] = new[i]
      BY <2>0, <3>1, Joined2
    <3> QED BY <3>2 DEF u
  <2> QED BY <1>4, <2>1
<1>6. /\ meant' \in Seq(KeyPresses) /\ Len(meant') = l + c
      /\ \A i \in 1..l : meant'[i] = meant[i]
      /\ p # "paste" => Meant(p) = <<meant'[l + 1]>>
  <2>1. /\ meant' \in Seq(KeyPresses) /\ Len(meant') = l + c
        /\ \A i \in 1..l : meant'[i] = meant[i]
        /\ \A i \in 1..c : meant'[l + i] = Meant(p)[i]
    <3> DEFINE u == meant'
               t == Meant(p)
    <3>1. /\ u = meant \o t /\ meant \in Seq(KeyPresses) /\ t \in Seq(KeyPresses)
          /\ l = Len(meant) /\ c = Len(t) /\ c \in Nat /\ l \in Nat
      BY <1>1, <1>2, <1>3
    <3> HIDE DEF u, t
    <3>2. /\ u \in Seq(KeyPresses) /\ Len(u) = l + c
          /\ \A i \in 1..l : u[i] = meant[i]
          /\ \A i \in 1..c : u[l + i] = t[i]
      BY <3>1, Joined2
    <3> QED BY <3>2 DEF u, t
  <2>2. p # "paste" => meant'[l + 1] = Meant(p)[1]
    BY <1>1, <2>1
  <2>3. p # "paste" => Meant(p) = <<Meant(p)[1]>>
    <3>1. p # "paste" => \E x : Meant(p) = <<x>>
      BY DEF Meant
    <3> QED BY <3>1
  <2> QED BY <2>1, <2>2, <2>3
<1>7. KeysTypeOK'
  <2>1. typed' \in 0..MaxTyped /\ read' \in 0..Len(sent')
    BY <1>1, <1>2, <1>3, <1>5, KeysAssumption DEF KeysInv, KeysTypeOK
  <2> QED BY <1>2, <1>5, <1>6, <2>1 DEF KeysInv, KeysTypeOK, ByteSent, decoder
<1> DEFINE NewBegins(i, k) == IF i = Len(sent') + 1 THEN k = Len(meant') + 1
                              ELSE sent'[i].nth = 1 /\ sent'[i].key = k
           Continues(i) == IF Ending(sent'[i]) THEN NewBegins(i + 1, KeyAfter(sent'[i]))
                         ELSE i < Len(sent') /\ sent'[i + 1] = [sent'[i] EXCEPT !.nth = @ + 1]
           Stands(i) == sent'[i].press # "paste" =>
                          sent'[i].key \in 1..Len(meant') /\ Meant(sent'[i].press) = <<meant'[sent'[i].key]>>
<1>8. ASSUME NEW i \in 1..(m + 1), NEW k, Begins(i, k) PROVE NewBegins(i, k)
  <2>1. CASE i <= m
    <3>1. i # Len(sent) + 1 /\ i # Len(sent') + 1 /\ sent'[i] = sent[i]
      BY <1>5, <2>1
    <3> QED BY <1>8, <3>1 DEF Begins
  <2>2. CASE i = m + 1
    <3>1. k = l + 1
      BY <1>8, <2>2 DEF Begins
    <3>2. i # Len(sent') + 1
      BY <1>5, <2>2
    <3>3. sent'[i] = [press |-> p, nth |-> 1, key |-> l + 1]
      BY <1>5, <2>2
    <3> QED BY <3>1, <3>2, <3>3
  <2> QED BY <2>1, <2>2
<1> HIDE DEF NewBegins
<1>9. SentInv'
  <2>1. NewBegins(1, 1)
    BY <1>8 DEF KeysInv, SentInv
  <2>2. ASSUME NEW i \in 1..m PROVE Stands(i) /\ Continues(i)
    <3>1. sent'[i] = sent[i] /\ i + 1 \in 1..(m + 1)
      BY <1>5
    <3>2. sent[i].press # "paste" => sent[i].key \in 1..l /\ Meant(sent[i].press) = <<meant[sent[i].key]>>
      BY DEF KeysInv, SentInv
    <3>3. Stands(i)
      BY <1>6, <3>1, <3>2
    <3>4. CASE Ending(sent[i])
      <4>1. Begins(i + 1, KeyAfter(sent[i]))
        BY <3>4 DEF KeysInv, SentInv
      <4> QED BY <1>8, <3>1, <3>3, <3>4, <4>1
    <3>5. CASE ~Ending(sent[i])
      <4>1. i < m /\ sent[i + 1] = [sent[i] EXCEPT !.nth = @ + 1]
        BY <3>5 DEF KeysInv, SentInv
      <4>2. sent'[i + 1] = sent[i + 1] /\ i < Len(sent')
        BY <1>5, <4>1
      <4> QED BY <3>1, <3>3, <3>5, <4>1, <4>2
    <3> QED BY <3>4, <3>5
  <2>3. ASSUME NEW j \in 1..n, NEW i, i = m + j PROVE Stands(i) /\ Continues(i)
    <3>1. sent'[i] = [press |-> p, nth |-> j, key |-> l + 1]
      BY <1>5, <2>3
    <3>2. sent'[i].press = p /\ sent'[i].nth = j /\ sent'[i].key = l + 1
      BY <3>1
    <3>3. Ending(sent'[i]) <=> j = n
      BY <3>2 DEF Ending
    <3>4. KeyAfter(sent'[i]) = Len(meant') + 1
      <4>1. KeyAfter(sent'[i]) = (l + 1) + c
        BY <3>2 DEF KeyAfter
      <4> QED BY <1>6, <4>1
    <3>5. Stands(i)
      <4>1. p # "paste" => l + 1 \in 1..Len(meant') /\ Meant(p) = <<meant'[l + 1]>>
        BY <1>1, <1>6
      <4> QED BY <3>2, <4>1
    <3>6. CASE j = n
      <4>1. i + 1 = Len(sent') + 1
        BY <1>5, <2>3, <3>6
      <4>2. NewBegins(i + 1, KeyAfter(sent'[i]))
        BY <3>4, <4>1 DEF NewBegins
      <4> QED BY <3>3, <3>5, <3>6, <4>2
    <3>7. CASE j # n
      <4>1. j + 1 \in 1..n /\ i + 1 = m + (j + 1) /\ i < Len(sent')
        BY <1>5, <2>3, <3>7
      <4>2. sent'[i + 1] = [press |-> p, nth |-> j + 1, key |-> l + 1]
        BY <1>5, <4>1
      <4>3. sent'[i + 1] = [sent'[i] EXCEPT !.nth = @ + 1]
        BY <3>1, <4>2
      <4> QED BY <3>3, <3>5, <3>7, <4>1, <4>3
    <3> QED BY <3>6, <3>7
  <2>4. ASSUME NEW i \in 1..Len(sent') PROVE Stands(i) /\ Continues(i)
    <3>1. i \in 1..m \/ \E j \in 1..n : i = m + j
      <4>1. CASE i <= m
        BY <4>1
      <4>2. CASE i > m
        <5>1. i - m \in 1..n /\ i = m + (i - m)
          BY <1>5, <4>2
        <5> QED BY <5>1
      <4> QED BY <4>1, <4>2
    <3> QED BY <2>2, <2>3, <3>1
  <2> QED BY <2>1, <2>4 DEF SentInv, Begins, KeyAfter, Ending, NewBegins
<1>10. UNCHANGED <<Done, paste, keys, pending>>
  BY <1>2 DEF Done, decoder
<1>11. PendingInv' /\ GivenInv'
  <2>1. ASSUME NEW i \in 1..Len(pending) PROVE sent'[Done + i] = sent[Done + i]
    <3>1. Done + i \in 1..m
      BY <1>3 DEF Done
    <3> QED BY <1>5, <3>1
  <2>2. \A i \in 1..Len(keys) : i \in 1..Len(meant)
    BY <1>3 DEF KeysInv, GivenInv
  <2>3. PendingInv'
    BY <1>10, <2>1 DEF KeysInv, PendingInv, ByteOf
  <2>4. GivenInv'
    <3>1. Len(keys) <= Len(meant')
      BY <1>3, <1>6 DEF KeysInv, GivenInv
    <3> QED BY <1>6, <1>10, <2>2, <3>1 DEF KeysInv, GivenInv
  <2> QED BY <2>3, <2>4
<1>12. PlaceInv'
  <2>1. CASE paste
    <3>1. Done + 1 \in 1..m /\ sent'[Done + 1] = sent[Done + 1] /\ Done < Len(sent')
      BY <1>1, <1>3, <1>5, <2>1 DEF KeysInv, PlaceInv
    <3> QED BY <1>10, <2>1, <3>1 DEF KeysInv, PlaceInv
  <2>2. CASE ~paste
    <3>1. Done + 1 \in 1..(m + 1) /\ Begins(Done + 1, Len(keys) + 1)
      BY <1>3, <2>2 DEF KeysInv, PlaceInv, Done
    <3>2. NewBegins(Done + 1, Len(keys) + 1)
      BY <1>8, <3>1
    <3> QED BY <1>10, <2>2, <3>2 DEF PlaceInv, Begins, NewBegins
  <2> QED BY <2>1, <2>2
<1> QED BY <1>7, <1>9, <1>11, <1>12 DEF KeysInv

LEMMA ReadStep ==
  ASSUME KeysInv, NEW n \in 1..Chunk, Read(n)
  PROVE  KeysInv'
<1> DEFINE new == [i \in 1..n |-> ByteOf(sent[read + i])]
<1>1. /\ read + n <= Len(sent) /\ pending' = pending \o new /\ read' = read + n /\ feeding' = TRUE
      /\ UNCHANGED <<typed, meant, sent, paste, keys>>
  BY DEF Read
<1>2. /\ n \in Nat \ {0} /\ pending \in Seq(Byte) /\ Len(pending) \in Nat /\ read \in Nat /\ Len(sent) \in Nat
      /\ Done \in Nat
  BY KeyTypes, KeysAssumption DEF KeysInv, PendingInv
<1>3. new \in Seq(Byte) /\ Len(new) = n
  <2>1. \A i \in 1..n : ByteOf(sent[read + i]) \in Byte
    BY <1>1, <1>2, KeyTypes DEF KeysInv
  <2> QED BY <1>2, <2>1
<1> HIDE DEF new
<1>4. /\ pending' \in Seq(Byte) /\ Len(pending') = Len(pending) + n
      /\ \A i \in 1..(Len(pending) + n) : pending'[i] = IF i <= Len(pending) THEN pending[i] ELSE new[i - Len(pending)]
  BY <1>1, <1>2, <1>3, ConcatProperties
<1>5. Done' = Done
  BY <1>1, <1>2, <1>4 DEF Done
<1>6. ASSUME NEW i \in 1..Len(pending') PROVE pending'[i] = ByteOf(sent[Done + i])
  <2>1. CASE i <= Len(pending)
    <3>1. i \in 1..Len(pending) /\ pending'[i] = pending[i]
      BY <1>2, <1>4, <2>1
    <3> QED BY <3>1 DEF KeysInv, PendingInv
  <2>2. CASE i > Len(pending)
    <3>1. i - Len(pending) \in 1..n /\ read + (i - Len(pending)) = Done + i
      BY <1>2, <1>4, <2>2 DEF Done
    <3>2. pending'[i] = new[i - Len(pending)]
      BY <1>2, <1>4, <2>2
    <3>3. new[i - Len(pending)] = ByteOf(sent[read + (i - Len(pending))])
      BY <3>1 DEF new
    <3> QED BY <3>1, <3>2, <3>3
  <2> QED BY <1>2, <1>4, <2>1, <2>2
<1>7. KeysTypeOK'
  BY <1>1, <1>2, <1>4 DEF KeysInv, KeysTypeOK
<1>8. SentInv' /\ GivenInv'
  BY <1>1 DEF KeysInv, SentInv, GivenInv, Begins, KeyAfter, Ending
<1>9. PendingInv' /\ PlaceInv'
  BY <1>1, <1>2, <1>5, <1>6 DEF KeysInv, PendingInv, PlaceInv, Begins, ByteOf
<1> QED BY <1>7, <1>8, <1>9 DEF KeysInv

LEMMA KeysInvariance == ASSUME ~SlowLink PROVE KeysSpec => []KeysInv
<1>1. KeysInit => KeysInv
  <2> SUFFICES ASSUME KeysInit PROVE KeysInv
    OBVIOUS
  <2>1. /\ sent = <<>> /\ meant = <<>> /\ pending = <<>> /\ keys = <<>> /\ read = 0 /\ typed = 0
        /\ paste = FALSE /\ feeding = FALSE
    BY DEF KeysInit
  <2>2. Len(sent) = 0 /\ Len(meant) = 0 /\ Len(pending) = 0 /\ Len(keys) = 0 /\ Done = 0
    <3>1. Len(<<>>) = 0
      OBVIOUS
    <3>2. Len(sent) = 0 /\ Len(meant) = 0 /\ Len(pending) = 0 /\ Len(keys) = 0
      BY <2>1, <3>1
    <3>3. read = 0 /\ Done = read - Len(pending)
      BY <2>1 DEF Done
    <3> QED BY <3>2, <3>3
  <2>3. KeysTypeOK
    <3>1. meant \in Seq(KeyPresses) /\ sent \in Seq(ByteSent) /\ pending \in Seq(Byte)
          /\ keys \in Seq(Byte \cup KeyPresses)
      BY <2>1, EmptySeq
    <3>2. typed \in 0..MaxTyped /\ read \in 0..Len(sent) /\ {paste, feeding} \subseteq BOOLEAN
      <4>1. typed = 0 /\ read = 0 /\ Len(sent) = 0 /\ MaxTyped \in Nat
        BY <2>1, <2>2, KeysAssumption
      <4>2. paste \in BOOLEAN /\ feeding \in BOOLEAN
        BY <2>1
      <4> QED BY <4>1, <4>2
    <3> QED BY <3>1, <3>2 DEF KeysTypeOK, ByteSent
  <2>4. SentInv /\ PendingInv /\ PlaceInv /\ GivenInv
    BY <2>1, <2>2 DEF SentInv, PendingInv, PlaceInv, GivenInv, Begins
  <2> QED BY <2>3, <2>4 DEF KeysInv
<1>2. KeysInv /\ [KeysNext]_keysVars => KeysInv'
  <2> SUFFICES ASSUME KeysInv, [KeysNext]_keysVars PROVE KeysInv'
    OBVIOUS
  <2>1. CASE Pause
    <3>1. UNCHANGED <<terminal, pending, paste, keys>> /\ feeding' = FALSE
      BY <2>1 DEF Pause
    <3> QED BY <3>1 DEF KeysInv, KeysTypeOK, SentInv, PendingInv, PlaceInv, GivenInv, Begins, KeyAfter,
                        Ending, ByteOf, Done, terminal
  <2>2. CASE UNCHANGED keysVars
    BY <2>2 DEF keysVars, decoder, terminal, KeysInv, KeysTypeOK, SentInv, PendingInv, PlaceInv, GivenInv,
                Begins, KeyAfter, Ending, ByteOf, Done
  <2> QED BY <2>1, <2>2, LoneEscapeStep, UnfinishedStep, FinishedStep, PlainStep, QuietStep, ReadStep,
             PressStep DEF KeysNext, Feed, Tick
<1> QED BY <1>1, <1>2, PTL DEF KeysSpec

\* The variables of the decoder and the terminal have their types.
THEOREM KeysTypeCorrect == ASSUME ~SlowLink PROVE KeysSpec => []KeysTypeOK
<1>1. KeysInv => KeysTypeOK
  BY DEF KeysInv
<1> QED BY <1>1, KeysInvariance, PTL

\* On a link that keeps the bytes of a press together, the dashboard gets the
\* keys that were pressed and nothing else, for any presses, however the reads
\* split them (terminal.go: feed, dashboardSession).
THEOREM KeysArrive == ASSUME ~SlowLink PROVE KeysSpec => []KeysAsPressed
<1>1. KeysInv => KeysAsPressed
  <2> SUFFICES ASSUME KeysInv PROVE KeysAsPressed
    OBVIOUS
  <2>1. /\ keys \in Seq(Byte \cup KeyPresses) /\ meant \in Seq(KeyPresses)
        /\ Len(keys) \in Nat /\ Len(meant) \in Nat /\ Len(keys) <= Len(meant)
        /\ \A i \in 1..Len(keys) : keys[i] = meant[i]
    BY KeyTypes DEF KeysInv, GivenInv
  <2>2. keys = SubSeq(meant, 1, Len(keys))
    <3>1. \A i \in 1..Len(keys) : meant[i] \in Byte \cup KeyPresses
      BY <2>1, ElementOfSeq
    <3>2. /\ SubSeq(meant, 1, Len(keys)) \in Seq(Byte \cup KeyPresses)
          /\ Len(SubSeq(meant, 1, Len(keys))) = IF 1 <= Len(keys) THEN Len(keys) - 1 + 1 ELSE 0
          /\ \A i \in 1..(Len(keys) - 1 + 1) : SubSeq(meant, 1, Len(keys))[i] = meant[1 + i - 1]
      BY <2>1, <3>1, SubSeqProperties
    <3>3. /\ Len(SubSeq(meant, 1, Len(keys))) = Len(keys)
          /\ \A i \in 1..Len(keys) : SubSeq(meant, 1, Len(keys))[i] = keys[i]
      BY <2>1, <3>2
    <3> QED BY <2>1, <3>2, <3>3, SeqEqual
  <2>3. ASSUME read = Len(sent), pending = <<>> PROVE keys = meant /\ ~paste
    <3>1. Done = Len(sent)
      BY <2>3, KeyTypes DEF KeysInv, Done
    <3>2. ~paste /\ Len(keys) = Len(meant)
      BY <2>1, <3>1, KeyTypes DEF KeysInv, PlaceInv, Begins
    <3>3. SubSeq(meant, 1, Len(meant)) = meant
      BY <2>1
    <3> QED BY <2>2, <3>2, <3>3
  <2> QED BY <2>1, <2>2, <2>3 DEF KeysAsPressed
<1> QED BY <1>1, KeysInvariance, PTL

=============================================================================
