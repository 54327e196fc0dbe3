------------------------------ MODULE Dashboard ------------------------------
(***************************************************************************)
(* The terminal dashboard (cmd/brv/dashboard.go, terminal.go): a screen    *)
(* that the goroutine of the review engine changes through progress        *)
(* reports and log records, and the session through keys and renderings,   *)
(* each under the dashboard's mutex and in any order.                      *)
(*                                                                         *)
(* Reviews are numbered in the order of State.Jobs, log lines in the order *)
(* of their arrival.  The run is a live one; a status "failed" stands for  *)
(* "stale" and "dry_run" too.  A character is one column wide.             *)
(***************************************************************************)
EXTENDS Integers, Sequences, FiniteSets

CONSTANTS
  ReportLimit,    \* reviews in a report (200 in the code)
  ActivityLimit,  \* log lines kept (200)
  ClipAt,         \* columns kept of a log line (2000)
  Sizes,          \* columns a log line, or a piece that continues one, may have
  Heights, Widths,  \* rows and columns the body of the screen may have
  DetailRows,     \* rows the text of a review may have
  Saved,          \* reviews in the state file at the start
  MaxReviews, MaxLines, MaxKeys  \* bounds: reviews, log lines, keys

ASSUME DashboardAssumption ==
  /\ {ReportLimit, ActivityLimit, ClipAt} \subseteq Nat \ {0}
  /\ Sizes \cup Widths \cup DetailRows \subseteq Nat \ {0} /\ Heights \subseteq Nat
  /\ {Saved, MaxReviews, MaxLines, MaxKeys} \subseteq Nat /\ Saved <= MaxReviews

VARIABLES
  jobs,      \* jobs[n]: the status of review n in the engine
  attempt,   \* the review being made and published, 0 between two of them
  worker,    \* "running" or "ended": the goroutine of the engine
  canceled,  \* the context of the session is closed
  dashSession,  \* "open", or "over" when dashboardSession has returned
  reviews,   \* progress.Reviews: [id, status], oldest first
  initial,   \* the statuses of the first report, by review
  reported,  \* has there been a report?
  view,      \* 0 overview, 1 reviews, 2 activity
  selected,  \* the position of the selected review, newest first, from 0
  scroll,    \* rows scrolled
  detail,    \* a review is open
  stopping,
  activity,  \* log lines: [line, size], its number and its columns
  streamOpen,  \* the last line may be continued
  lines,     \* log lines so far
  pressed,   \* keys so far
  chosen,    \* the review that was opened, 0 for none
  before,    \* history: the reviews that the run found submitted
  recorded   \* history: those submitted in the last save that succeeded

engine   == <<jobs, attempt, worker, before, recorded>>
progress == <<reviews, initial, reported>>
log      == <<activity, streamOpen, lines>>
screen   == <<view, selected, scroll, detail>>
stop     == <<canceled, stopping>>
dashVars == <<engine, progress, log, screen, stop, dashSession, pressed, chosen>>

AtLeast0(n) == IF n < 0 THEN 0 ELSE n
Lesser(m, n) == IF m < n THEN m ELSE n

\* What "G" and "g" scroll by: more than there is.
Far == 1000

JobStatuses == {"pending", "posting", "submitted", "failed"}
SubmittedIn(st) == {n \in DOMAIN st : st[n] = "submitted"}

DashInit ==
  /\ jobs \in [1..Saved -> JobStatuses] /\ attempt = 0
  /\ before = SubmittedIn(jobs) /\ recorded = before
  /\ worker = "running" /\ canceled = FALSE /\ dashSession = "open" /\ stopping = FALSE
  /\ reviews = <<>> /\ initial = <<>> /\ reported = FALSE
  /\ view = 0 /\ selected = 0 /\ scroll = 0 /\ detail = FALSE
  /\ activity = <<>> /\ streamOpen = FALSE /\ lines = 0 /\ pressed = 0 /\ chosen = 0

-----------------------------------------------------------------------------
\* The engine's goroutine: run of dashboardSession.

\* Mutant: one too many is kept.
LatestAndOne(s, n) == SubSeq(s, AtLeast0(Len(s) - n - 1) + 1, Len(s))

Latest(s, n) == SubSeq(s, AtLeast0(Len(s) - n) + 1, Len(s))

\* engine.report hands over the last reviews of the list, oldest first.
ReportOf(st) == Latest([n \in DOMAIN st |-> [id |-> n, status |-> st[n]]], ReportLimit)

IdsOf(list) == {list[i].id : i \in DOMAIN list}

\* The review at the selected position.
Shown == reviews[Len(reviews) - selected].id

\* Mutant: only browsing keeps the selection, not an open review.
FollowsIfBrowsing(new) == selected > 0 /\ Len(reviews) > selected /\ Shown \in IdsOf(new)

\* The position is that of a review which the user has chosen and is still there.
Follows(new) == (detail \/ selected > 0) /\ Len(reviews) > selected /\ Shown \in IdsOf(new)

\* Mutant: the position from the other end.
PositionFromOldest(new) == (CHOOSE i \in DOMAIN new : new[i].id = Shown) - 1

\* Positions count from the newest.
PositionIn(new) == Len(new) - CHOOSE i \in DOMAIN new : new[i].id = Shown

\* Mutant: the statuses to compare with are those of the last report.
FirstReportForgets(new) == new

FirstReport(new) == IF reported THEN initial ELSE new

\* dashboard.update
Update(new) ==
  /\ reviews' = new /\ reported' = TRUE
  /\ initial' = FirstReport(new)
  /\ selected' = AtLeast0(Lesser(IF Follows(new) THEN PositionIn(new) ELSE selected, Len(new) - 1))

\* What the engine does to its jobs leaves all but the reports alone.
Engine == worker = "running" /\ UNCHANGED <<worker, before, log, view, scroll, detail, stop, dashSession, pressed, chosen>>

\* Run has read the state file, or a stage begins: what is in memory is reported.
Report == Engine /\ Update(ReportOf(jobs)) /\ UNCHANGED <<jobs, attempt, recorded>>

\* engine.save writes the jobs and reports them.
Saves == recorded' = SubmittedIn(jobs') /\ Update(ReportOf(jobs'))

\* They are not, or not yet, saved: engine.save failed, or follows.
Unsaved == UNCHANGED <<recorded, progress, selected>>

Becomes(n, status) == jobs' = [jobs EXCEPT ![n] = status]

\* Any save of the engine that changes no status.
Save == Engine /\ reported /\ UNCHANGED <<jobs, attempt>> /\ Saves

\* The engine is between two attempts.
Between == Engine /\ reported /\ attempt = 0

\* A new revision is enqueued; a save follows.
Enqueue ==
  /\ Between /\ Len(jobs) < MaxReviews
  /\ jobs' = Append(jobs, "pending") /\ Unsaved /\ UNCHANGED attempt

\* The job of an old revision becomes stale, that of a revived one pending.
Revise(n) ==
  /\ Between /\ jobs[n] \in {"pending", "failed"}
  /\ Becomes(n, "pending") \/ Becomes(n, "failed")
  /\ Unsaved /\ UNCHANGED attempt

\* The review of an intent left by an earlier attempt or run is found, or that
\* of a revision whose job does not know of it.
Recover(n) ==
  /\ Between /\ jobs[n] # "submitted" /\ Becomes(n, "submitted")
  /\ Saves \/ Unsaved
  /\ UNCHANGED attempt

\* An attempt begins, unless its beginning cannot be saved.  A context that is
\* closed between its test and the save is as one closed after both.
AttemptBegins(n) ==
  /\ Between /\ ~canceled /\ jobs[n] \in {"pending", "failed"} /\ Becomes(n, "pending")
  /\ (Saves /\ attempt' = n) \/ (Unsaved /\ attempt' = 0)

\* The intent to publish; where it cannot be saved the attempt ends, and the
\* save that step then makes may succeed or not.
Intend ==
  /\ Engine /\ attempt # 0 /\ jobs[attempt] = "pending" /\ Becomes(attempt, "posting")
  /\ (Saves /\ attempt' \in {attempt, 0}) \/ (Unsaved /\ attempt' = 0)

\* The review is posted, and recorded; where it cannot be, step's handler of
\* the error makes the job a failed one, and tries to save that.
Posted ==
  /\ Engine /\ attempt # 0 /\ jobs[attempt] = "posting" /\ attempt' = 0
  /\ \/ Becomes(attempt, "submitted") /\ Saves
     \/ Becomes(attempt, "failed") /\ (Saves \/ Unsaved)

\* The attempt ends without a review: it failed, was refused, or the outcome of
\* its request is unknown.
AttemptEnds ==
  /\ Engine /\ attempt # 0 /\ attempt' = 0
  /\ Becomes(attempt, "failed") \/ (jobs[attempt] = "posting" /\ UNCHANGED jobs)
  /\ Saves \/ Unsaved

\* Mutant: what is read scrolls away.
PlaceUnchanged(s) == s

\* addActivity keeps the place of a reader who has scrolled back, by one row.
PlaceAfter(s) == IF view = 2 /\ s > 0 THEN s + 1 ELSE s

\* dashboardHandler.Handle, for a record or a piece of a text that starts a line.
Log(size) ==
  /\ worker = "running" /\ lines < MaxLines
  /\ lines' = lines + 1
  /\ activity' = Latest(Append(activity, [line |-> lines + 1, size |-> Lesser(size, ClipAt)]), ActivityLimit)
  /\ streamOpen' \in BOOLEAN
  /\ scroll' = PlaceAfter(scroll)
  /\ UNCHANGED <<engine, progress, view, selected, detail, stop, dashSession, pressed, chosen>>

\* The same, for a piece that continues the last line.
Continue(size) ==
  /\ worker = "running" /\ streamOpen /\ activity # <<>>
  /\ activity' = [activity EXCEPT ![Len(activity)].size = Lesser(@ + size, ClipAt)]
  /\ streamOpen' \in BOOLEAN
  /\ UNCHANGED <<engine, progress, lines, screen, stop, dashSession, pressed, chosen>>

\* run returns: it is done, it failed, or its context is closed.
EngineEnds ==
  /\ worker = "running" /\ attempt = 0 /\ worker' = "ended"
  /\ UNCHANGED <<jobs, attempt, before, recorded, progress, log, screen, stop, dashSession, pressed, chosen>>

-----------------------------------------------------------------------------
\* The session: dashboard.key, by groups of keys.

Key == dashSession = "open" /\ pressed < MaxKeys /\ pressed' = pressed + 1

\* "q", "ctrl+c"
KeyStop ==
  /\ Key /\ stopping' = TRUE /\ canceled' = TRUE
  /\ UNCHANGED <<engine, progress, log, screen, dashSession, chosen>>

\* "esc", or "enter" in a review
KeyBack ==
  /\ Key /\ detail' = FALSE /\ scroll' = 0
  /\ UNCHANGED <<engine, progress, log, view, selected, stop, dashSession, chosen>>

\* The scroll keys, in a review or in the activity; "g" and "G" go to the ends.
KeyScroll ==
  /\ Key /\ (detail \/ view = 2)
  /\ scroll' \in {scroll + 1, AtLeast0(scroll - 1), 0, Far}
       \cup (IF detail THEN {scroll + 10, AtLeast0(scroll - 10)} ELSE {})
  /\ UNCHANGED <<engine, progress, log, view, selected, detail, stop, dashSession, chosen>>

\* "1", "2", "3", "tab"
KeyView(v) ==
  /\ Key /\ ~detail /\ view' = v /\ scroll' = 0
  /\ UNCHANGED <<engine, progress, log, selected, detail, stop, dashSession, chosen>>

\* "enter"
KeyOpen ==
  /\ Key /\ ~detail /\ reviews # <<>> /\ view # 2
  /\ detail' = TRUE /\ scroll' = 0 /\ chosen' = Shown
  /\ UNCHANGED <<engine, progress, log, view, selected, stop, dashSession>>

\* "j", "k", "g", "G" and their like in a list of reviews
KeyBrowse ==
  /\ Key /\ ~detail /\ view # 2
  /\ selected' \in {AtLeast0(Lesser(Len(reviews) - 1, selected + 1)), AtLeast0(selected - 1),
                    0, AtLeast0(Len(reviews) - 1)}
  /\ UNCHANGED <<engine, progress, log, view, scroll, detail, stop, dashSession, chosen>>

\* dashboard.render: the rows to skip of n rows, of which height fit; what would
\* scroll past the end is cut back.
Skips(n, height) == Lesser(scroll, AtLeast0(n - height))

\* wrapText: row k of a log line, from 0, begins at column k * width.
RowsOf(entry, width) == {<<entry.line, k>> : k \in {k \in 0..entry.size : k * width < entry.size}}

\* The rows of the activity; those below one are the later ones.
Rows(act, width) == UNION {RowsOf(act[i], width) : i \in DOMAIN act}
Below(act, row, width) ==
  {r \in Rows(act, width) : r[1] > row[1] \/ (r[1] = row[1] /\ r[2] > row[2])}

\* The text of an open review is drawn.
DetailDrawn(height) == detail /\ reviews # <<>> /\ \E n \in DetailRows : scroll' = Skips(n, height)

\* The activity is drawn, wrapped; scroll counts the rows below the last one shown.
ActivityDrawn(height, width) ==
  /\ ~(detail /\ reviews # <<>>) /\ view = 2 /\ activity # <<>>
  /\ scroll' = Skips(Cardinality(Rows(activity, width)), height)

\* A list of reviews is drawn, or a message that there are none.
ListDrawn ==
  /\ ~(detail /\ reviews # <<>>) /\ (view # 2 \/ activity = <<>>)
  /\ UNCHANGED scroll

\* A tick ends with a rendering, for the present size of the terminal.
Render(height, width) ==
  /\ dashSession = "open" /\ stopping' = (stopping \/ canceled)
  /\ DetailDrawn(height) \/ ActivityDrawn(height, width) \/ ListDrawn
  /\ UNCHANGED <<engine, progress, log, view, selected, detail, canceled, dashSession, pressed, chosen>>

\* A signal, a terminal that hangs up, a frame that cannot be written.
Cancel ==
  /\ dashSession = "open" /\ ~canceled /\ canceled' = TRUE
  /\ UNCHANGED <<engine, progress, log, screen, stopping, dashSession, pressed, chosen>>

\* Mutant: the session does not wait for a run that was canceled before its end.
ReturnUncanceled ==
  /\ dashSession = "open" /\ worker = "ended" /\ ~canceled /\ dashSession' = "over"
  /\ UNCHANGED <<engine, progress, log, screen, stop, pressed, chosen>>

\* dashboardSession returns with the result of the run, and only then.
Return ==
  /\ dashSession = "open" /\ worker = "ended" /\ dashSession' = "over"
  /\ UNCHANGED <<engine, progress, log, screen, stop, pressed, chosen>>

-----------------------------------------------------------------------------
\* The goroutine of the engine, the session with its user, and the terminal.
EngineStep ==
  \/ Report \/ Save \/ Enqueue \/ Intend \/ Posted \/ AttemptEnds \/ EngineEnds
  \/ \E n \in DOMAIN jobs : Revise(n) \/ Recover(n) \/ AttemptBegins(n)
LogAny == (\E size \in Sizes : Log(size)) \/ (\E size \in Sizes \cup {0} : Continue(size))
KeyAny ==
  \/ KeyStop \/ KeyBack \/ KeyScroll \/ KeyOpen \/ KeyBrowse
  \/ \E v \in 0..2 : KeyView(v)
RenderAny == \E height \in Heights, width \in Widths : Render(height, width)

DashNext == EngineStep \/ LogAny \/ KeyAny \/ RenderAny \/ Cancel \/ Return

DashSpec == DashInit /\ [][DashNext]_dashVars

\* A run whose context is closed ends its attempt and returns: every call it
\* makes ends then (WorkerService says so of the engine), and no attempt begins;
\* the session receives its result.
DashFairness ==
  WF_dashVars(canceled /\ (AttemptEnds \/ EngineEnds)) /\ WF_dashVars(Return)

-----------------------------------------------------------------------------
\* The variables have their types; a review can be indexed by the selected
\* position whenever there is one (dashboard.go: render).
DashTypeOK ==
  /\ jobs \in Seq(JobStatuses) /\ before \cup recorded \subseteq SubmittedIn(jobs) /\ attempt \in 0..Len(jobs)
  /\ worker \in {"running", "ended"} /\ dashSession \in {"open", "over"}
  /\ {reported, detail, canceled, stopping, streamOpen} \subseteq BOOLEAN
  /\ \A r \in {reviews, initial} : r \in Seq([id : DOMAIN jobs, status : JobStatuses])
  /\ view \in 0..2 /\ scroll \in Nat /\ chosen \in Nat /\ pressed \in Nat
  /\ selected \in 0..AtLeast0(Len(reviews) - 1)
  /\ lines \in Nat /\ activity \in Seq([line : 1..lines, size : 1..ClipAt]) /\ Len(activity) <= ActivityLimit

\* A review stays open while results arrive: through any sequence of reports,
\* log records, keys and renderings the review on the screen is the one the
\* user opened, until it is no longer among those reported (dashboard.go: "Keep
\* a review open while new results arrive").
OpenedStays == detail /\ chosen \in IdsOf(reviews) => Shown = chosen

\* A report never moves the selection to another review, and the overview keeps
\* following the newest (dashboard.go: "only when the user has not browsed away").
SelectionStays ==
  [][reviews' # reviews =>
       IF detail \/ selected > 0
       THEN Len(reviews) > 0 /\ Shown \in IdsOf(reviews') => Shown' = Shown
       ELSE selected' = 0]_dashVars

\* What arrives takes a new line of one row, or continues the last one within
\* its row.
OneRow(width) ==
  IF lines' # lines THEN activity'[Len(activity')].size <= width
                    ELSE Rows(activity', width) = Rows(activity, width)

\* A log record that takes a row, and a piece that takes none, does not move what
\* the user is reading, however the lines before it are wrapped: the last row
\* shown of a scrolled activity list stays the last one, for as long as its line
\* is kept, and the text of a review does not scroll (dashboard.go: addActivity).
ReadingStays ==
  [][activity' # activity =>
       /\ detail => scroll' = scroll
       /\ view = 2 /\ scroll > 0 =>
            \A width \in Widths : \A row \in Rows(activity, width) \cap Rows(activity', width) :
              OneRow(width) /\ Cardinality(Below(activity, row, width)) = scroll
                => Cardinality(Below(activity', row, width)) = scroll']_dashVars

\* dashboard.summary leaves out the reviews whose status has not changed.
Summary ==
  {r \in {reviews[i] : i \in DOMAIN reviews} : \A i \in DOMAIN initial : initial[i] # r}

NamedAsPosted == {r.id : r \in {r \in Summary : r.status = "submitted"}}

\* The summary left on the terminal names as posted every review listed whose
\* posting this run recorded, and none whose posting was recorded before it or
\* is not known to it: through saves that fail, reviews recovered from earlier
\* runs, and reports of what could not be saved (dashboard.go: summary).
SummaryIsOfThisRun ==
  dashSession = "over" =>
    /\ (recorded \ before) \cap IdsOf(reviews) \subseteq NamedAsPosted
    /\ NamedAsPosted \subseteq SubmittedIn(jobs) \ before

\* A session that is told to stop, by a key, a signal or a terminal that is
\* gone, returns and gives the terminal back (terminal.go: runDashboard).
StopEnds == canceled ~> dashSession = "over"
=============================================================================
