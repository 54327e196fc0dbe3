# A verification of review-bot

TLA+ specifications of `brv`, the pull-request review daemon of this
repository, the configurations with which TLC checks them, and TLAPS proofs
about them. Paths and line numbers are those of the repository.

## 1. The system

`brv` polls the pull requests of one repository, lets agents find and verify
defects in each new revision (base and head commit), and posts one review per
revision. It talks to GitHub through `gh api`, to git and to agents through
child processes, and keeps one JSON file.

| component | state it keeps | operations | talks to |
|---|---|---|---|
| Review loop (`run.go`) | the jobs in memory, the attempt under way | `Run`, `step`, `existing`, `reconcile`, `review`, `session` | everything below |
| State file (`state.go`) | `state.json`, three lock files | `ReadState`, `writeState`, `Retry`, `lockConfig` | file system |
| GitHub client (`github.go`) | none | `pages`, `pulls`, `pull`, `reviews`, `discussion`, `files`, `create` | `gh api` |
| Private checkout (`git.go`) | a bare clone, worktrees | `open`, `snapshot`, `worktree`, `verifyWorktree`, `anchor`, `diffAnchor` | `git` |
| Agent sessions (`agent.go`, `prompt.go`) | transcripts | `Execute`, the prompts, `parseResult`, `parseVerification` | an ACP agent |
| Worker service (`internal/worker/server.go`, `cmd/brv/worker.go`) | runs in progress | `initialize`, `runs`, `shutdown` over a Unix socket | `Run`, `ReadState` |
| Process runner (`internal/osrun`) | a bounded tail of output | `Run`, `RunRaw`, `Tail.Write`, `Kill` | child processes |
| Dashboard (`cmd/brv/dashboard.go`, `terminal.go`, `console.go`, `progress.go`) | what it shows, undecoded key bytes | `update`, `key`, `feed`, `render` | the terminal, progress callbacks |
| Configuration, discovery, command line (`config.go`, `discover.go`, `cmd/brv/main.go`) | none that changes | `Validate`, `Discover`, flags | |
| Packaging (`Makefile`, `install.sh`, `npm`, `scripts`) | not part of the running program | | |

What makes it hard:

* **Uncertain publications.** Creating a review is a request over a network. The
  process may die, or the answer may be lost, before, while or after GitHub
  acts on it. GitHub offers no idempotency key; the only way to find out is to
  look for the marker in the listing of reviews, and that listing may lag.
* **A world that moves.** People push, retarget, comment and edit descriptions
  while agents work for minutes. An attempt reads the pull request five times,
  its discussion twice, and must not publish what was written for another context.
* **Partial failure.** Memory, file and GitHub are changed one after another.
  A save may fail before or after its rename took effect.
* **Several runs.** Runs of the worker service, daemons and `retry` compete for
  one repository under three locks taken without waiting.
* **Cut-off work.** A shutdown gives streams five seconds; reviews take longer.

What makes each component correct:

* Review loop: one review per revision; intents precede requests and outlive
  crashes; nothing said while agents worked is ignored; dry runs change nothing
  live; every review is recorded in the end and every pull request served.
* State file: whatever interrupts a save, the file loads and lies between old
  and new; locks exclude, and never make all competitors give way.
* Worker service: certifies only what is on GitHub for the requested revision;
  stops; lets go of its locks when a caller disappears.
* GitHub client: a listing is complete or an error; an answer that cannot be
  understood is not a refusal.
* Checkout: agents see the exact revision; an inline anchor exists in the patch.
* Process runner: truncated output is never taken for complete output.
* Dashboard: keys do not depend on how bytes are split; pasted text is not a key;
  what arrives does not move what is read; the summary tells what this run posted.

`PROJECT.json` lists the hazards with the line each one bites at.

## 2. The modules

| module | models |
|---|---|
| `ReviewEngine` | the review loop, the state file and GitHub as both see it |
| `PublishOnce` | what the engine promises about publication, one job at a time |
| `Attempt` | the sessions, verdicts and payload of one attempt, in detail |
| `Listing` | discussion and files, fetched page by page while people edit |
| `DiffAnchor` | `diffAnchor`: is the line of a finding in the diff? |
| `CommandOutput` | the bounded tail of a command's output, and what `RunRaw` returns |
| `WorkerService` | requests, locks, runs and shutdown of the worker service |
| `Keys` | the bytes of the terminal as keys of the dashboard |
| `Dashboard` | the dashboard under reports, records, keys and renderings |
| `Transcript` | streamed text as lines, in the scrolling log and in the dashboard |
| `MCWorkerService` | the tasks with which TLC runs `WorkerService` |
| `MCParts` | `Attempt`, `Listing`, `DiffAnchor`, `CommandOutput`, `Keys`, `Dashboard` and `Transcript` in one run |
| `ReviewEngineProofs` | type correctness and the location invariants of `ReviewEngine` |
| `PublicationProofs` | one review per revision, durable intents, standing publications, the refinement |
| `EngineSafetyProofs` | the invariants of `ReviewEngine` that need no reliable storage |
| `WorkerProofs` | the locks, runs and publications of `WorkerService` |
| `AttemptProofs` | `Attempt`, `DiffAnchor` and `Listing` |
| `OutputProofs` | `CommandOutput` and `Transcript` |
| `DashboardProofs` | `Dashboard` and `Keys` |
| `PartsProofs` | `MCParts`: the components in one run are still themselves |

`ReviewEngine` has the whole program's core in coarse steps; `WorkerService`
composes several of its runs through the locks, the files and GitHub; `Attempt`
and `Listing` look into single steps of it (`investigate` to `recheck`, and
`ReadDiscussion`, `Rediscuss` and the files). The other modules are components
that share no state with those. Composition is by these interfaces and not by a
refinement: the outcomes `ReviewEngine` allows at a step (any findings, any
verdict, an error) include all that `Attempt` and `Listing` can produce.

### ReviewEngine

One process, one state file, GitHub, and the people who use it. A job is named
by pull request, revision and `dry_run`, as `revisionKey` and `ReadState` do;
`State.Jobs` is a function from those names (`jobs` in memory, `disk` in the
file), with status `"none"` for a job that is not in the list. `pc` says where
the process is:

    off -> reconcile -> scan -> next -> idle -> reconcile ...
                                 |
            review -> snapshot -> investigate -> verify -> recheck
                   -> rediscuss -> lastpull -> create -> await -> next
            (stale, setup, error: on the way to step's error handler)

An action is one remote call, or one local step that ends in a save, with all
the code does before the next one:

| action | code |
|---|---|
| `Start`, `Poll`, `Exit`, `Crash` | `Run` and its loop; a signal; the end of the process |
| `Reconcile` | the first loop of `step` with `reconcile`, `existing` and the save |
| `ListPulls`, `Scan`, `EndScan` | `pulls`, the loop over pull requests, the save after it |
| `LookupFails`, `Recover`, `BeginAttempt` | the queue loop up to `review` |
| `ReadDiscussion` ... `LastPull` | `review` up to the save of the publication intent |
| `Create`, `Answer`, `GiveUp` | `create`, its outcomes and `validatePublished` |
| `ReviewFails`, `SetupFails`, `HandleError` | errors of `review` and what `step` does with them |
| `Retry`, `LoseState` | `brv retry`; a removed state directory |
| `Accept`, `Reject`, `Drop` | GitHub acts on a request, refuses it, never gets it |
| `Push`, `Toggle`, `Describe`, `Comment` | people |

A request in flight (`wire`) lives on when the process that sent it is gone:
GitHub may act on it at any later time.

Abstractions, and why they are safe for the properties checked:

* The order of `State.Jobs`, of the listing and of the queue is any order; the
  code's orders are among them.
* A revision key, a payload and a finding are values: a payload is the set of
  confirmed findings; its text, anchors and budgets are left out. A review that
  `validatePublished` does not accept counts as a lost answer.
* A session is its outcome: any set of findings, any verdict, an error or a
  setup error. Worktrees and agent processes have no state across steps.
* Description and discussion are counters: a text that is changed and changed
  back counts as changed, an edit nobody could miss.
* A listing that fails and one that lags leave `Reconcile` in the same state.
* `RetryAt` is a Boolean, "in the future", which time clears.
* A signal is noticed where the code tests `ctx.Err()`; at any other point it
  makes a call fail, which is a fault, or is the crash that comes after it.
* `Retry` and the daemon exclude each other by `pc = "off"`; that the locks
  provide this is `WorkerService`'s `Exclusive`.
* The state directory is lost only with no request in flight: losing it in that
  moment defeats any bookkeeping.
* Failures (`faults`) and changes by people (`edits`) have budgets.

### PublishOnce

Three phases of a job (`open`, `intent`, `done`) and three of its request
(`none`, `sent`, `published`). A job commits before it sends, sends only when
nothing is out, and leaves `intent` only when the outcome is known.
`ReviewEngine!PublishesOnce` maps `disk` to the phases and `posted` and `wire`
to the request. `WorkerService!RunsPublishOnce` says the same of all runs of the
service together: a job is a revision of a repository, whichever run works on it.

### WorkerService

Every request is a handler that takes the locks of `lockConfig` one by one
(`Lock`, `Refuse`), runs a short form of the engine (`Load` ... `Answer`,
`Fails`), gives the locks back (`Unlock`), and only then reads the file for the
result (`Reply`, `Complete`). `Disconnect` closes a request's context;
`Shutdown`, `Drained`, `Expire` and `StartAgain` are the life of the service.
The engine keeps what runs can do to each other: the copy of the file each has
in memory, whole-file saves, and reviews. It has one pull request per
repository, no limit on attempts (there are fewer runs than attempts), and no
failing saves; those are `ReviewEngine`'s subject. GitHub acts on a request
(`Deliver`) or does not (`Decline`); a run that waits learns of either
(`Answer`, `Rejected`) or of nothing (`GiveUp`). Only runs of this service
compete for the locks, and a process that is killed is a shutdown whose time
runs out at once.

### Attempt

One attempt from the discussion it has read to its payload, and the attempts
after it. `stage` is where `review` is in its loop over the findings, `session`
where a session is; each agent has a worktree of its own.

| action | code |
|---|---|
| `Begin` | a new attempt: `step` clears the job, `review` reads the discussion |
| `AddWorktree`, `AddFails` | `worktree`; git may fail halfway |
| `Execute`, `CheckTree`, `Command` | the agent, `verifyWorktree`, the configured command, `verifyWorktree` again |
| `SessionFails`, `Cleanup`, `CleanupFails` | errors of `session`; its deferred removal of the worktree |
| `ParseResult`, `Anchor`, `Verdict`, `Compose` | `parseResult`; `checkout.anchor`; `parseVerification` with what `review` records and puts into the payload; the payload |
| `StepFails`, `Crash` | any other error; the end of the process |

The agent is a choice: it may change the tree, fail, and answer anything; the
guards of `ParseResult` and `Verdict` are the rules its answer must satisfy. A
finding is its number, a discussion a set of IDs; the IDs that `review` makes
for its own candidates differ from GitHub's (`AttemptAssumption`). A save that
fails ends the attempt like any error here; what the file then holds is
`ReviewEngine`'s subject.

### Listing

`remote` is the listing on GitHub, which `Appear` and `Vanish` change at any
place and time; a page is a slice of it at the moment of the call
(`FullPage`, `LastPage`: `pages`, `discussion`, `files`). An attempt reads a
discussion twice, with the agents' work between (`BeginListing`, `ReadAgain`),
or the files of the revision once. The listings that make up a discussion are
one here. Items are numbers and never return; the order of a listing is any.

### DiffAnchor

The patch writes itself: `Header`, `Hunk`, `Kept`, `Removed`, `Added`, `Over`
are the next line of any patch git may produce, and what `diffAnchor` does with
it. `at` is where the writer really is in both files; the code has the numbers
of the hunk headers and its own counting (`old`, `newLine`, `inHunk`). `seen`
is the reference: the patch has shown the line that was asked for.

### CommandOutput

`Write` is `Tail.Write` for a chunk of any size, `Exit` what `RunRaw` makes of
the tail (`Text`) and of the way the command ended. `output`, all that was
written, is the reference.

### Keys

`Press` is a press of a key or a paste and puts its bytes on the line (`sent`,
each byte with its press and its place in it; `meant` has the keys that were
pressed, the reference); `Read` and `Quiet` are what a tick of
`dashboardSession` does, with any number of the bytes that are there; the five
actions of `Feed` are the ways through the loop of `keyDecoder.feed`. `SlowLink`
lets the bytes of one press arrive more than a tick apart. Bytes that play the
same part are one byte.

### Dashboard

Two actors under the dashboard's mutex. The goroutine of the engine changes the
jobs, and reports them through `dashboard.update`:

| action | code |
|---|---|
| `Report`, `Save` | the reports between saves; `engine.save`, which reports when it has written |
| `Enqueue`, `Revise` | the loop over pull requests in `step`: a new, stale or revived job |
| `Recover` | a posting job that `reconcile` finds, or a review that `step` adopts; its save may fail |
| `AttemptBegins`, `Intend`, `Posted`, `AttemptEnds` | pending, posting, submitted, and what `step` does with an error of `review`; each of their saves may fail |
| `Log`, `Continue` | `dashboardHandler.Handle`: a record, or a piece of a stream, that begins a line, and a piece that goes on with the last one |
| `EngineEnds` | `run` returns |

The state file is read with jobs of any status, a posting one of a killed run
among them (`DashInit`). When the save that follows a posted review fails,
memory says submitted until `step`'s handler makes the job a failed one and
tries to save that; nothing is reported in between, so `Posted` is one action.
`before` and `recorded` are histories: what the run found submitted, and what
its last save that succeeded had as submitted. The order of attempts and
recoveries is any, and a failed save is one whether or not the file was
renamed; what the file holds then is `ReviewEngine`'s subject.

The session: the six `Key...` actions are `dashboard.key` by groups of keys,
`Render` a tick's rendering, `Cancel` and `Return` the ends of
`dashboardSession`. `Render` is there for its side effect: it cuts `scroll` to
what there is, for a terminal of any size. `scroll` counts wrapped rows, as
`render` does (`Rows`: the rows of a line at a width), while `addActivity` moves
it by one for each line (`PlaceAfter`) and a continued line does not move it. A
line is a number and its columns, cut at `ClipAt`. Colours, counters and
characters wider than a column are left out.

### Transcript

`TextRecord` and `OtherRecord` are log records; each goes through `Handle` of
both handlers, so `console` and `feed` tell the same records. A text comes cut
at its newlines, as both handlers cut it (`Texts`), and is told piece by piece
(`TextPiece`) under the mutex, with which no other record begins. A piece is its
place in the order of arrival (`told`, the reference). The activity list keeps
its last 200 lines, and 2000 columns of each; both cuts are in `Dashboard` and not
here, so `LinesAreReadable` is about what is there before them. The stream of a record is a value;
the console finds it in the attributes of the record only, which is where the
program puts it.

## 3. What the runs check

| run | module | question | states |
|---|---|---|---|
| `crash` | ReviewEngine | crashes, failing calls, lost, refused and late requests, a lagging listing, two revisions: `TypeOK`, `AtMostOnce`, `DurableIntent`, `NothingMissedIsPosted`, `PublicationsStand`, `PublishesOnce` | 734 476 |
| `disk` | ReviewEngine | dry and live runs on one file, two revisions, saves that fail on either side of the rename, a lost state directory: `AtMostOnce`, `SavedStateLoads`, `NoWorkWhileUncertain`, `DryRunLeavesLive` | 1 130 228 |
| `live` | ReviewEngine | once failures and edits end: `PublicationRecorded`, `Settles` | 73 446 |
| `locks` | MCWorkerService | two runs for a repository and a state directory each with one checkout, agents that may hang: `Exclusive`, `LocksReturned`, `StopsSoon`, `GoneLetsGo` | 81 718 |
| `serve` | MCWorkerService | two runs ask for two revisions, with pushes, broken connections and a restart: `NotAllRefused`, `PostedOnce`, `CertifiedIsPosted`, `SubmittedStays`, `RunsPublishOnce` | 732 964 |
| `parts` | MCParts | seven components in all orders of their steps: `PartsTypeOK`; `ComparedWithAll`, `PayloadIsEvidence`, `SessionsCleanUp`, `EvidenceUntampered` (Attempt); `HistoryIsComplete`, `FilesAreComplete` (Listing); `AnchoredIsShown` (DiffAnchor); `KeepsTheEnd`, `NoFragment` (CommandOutput); `KeysAsPressed`, `StopIsHeard` (Keys); `OpenedStays`, `SelectionStays`, `ReadingStays`, `SummaryIsOfThisRun`, `StopEnds` (Dashboard); `LinesAreReadable` (Transcript) | 404 300 |
| `exhausted`, `unrecorded`, `relost`, `accounts`, `cutoff`, `paste` | | statements of the repository that the code refutes, section 6 | |

The components of `parts` share no state. A behaviour of `MCParts` chooses one
of them (`part`) and is a behaviour of its specification, so the run is the
union of seven state spaces and not their product.
`PartsProofs!PartsAreTheirOwn` says that it is nothing else; it does not say that
every behaviour of a component is among them. For the dashboard that is not so
(`DashBounds`, below), and the theorems of section 4 are about its own, wider
specification.

Bounds, and why they are enough:

* One pull request: jobs of different pull requests meet only in the queue and
  in the file, which is saved as a whole; no property relates two of them. Two
  heads make the interesting histories: a revision superseded, revived, and
  reviewed while another is uncertain. A base and a head change a revision
  alike, so one base suffices.
* One finding: verdicts are independent; an empty and a full payload differ.
* Two attempts (`crash`, `disk`, `live`): a first, a last, and exhaustion.
* Two faults let a request get lost and its reconciliation fail, or a crash
  follow a lost answer. Two edits let a pull request leave and return.
* `disk` has one of each, which gives each way to fail by itself at every point,
  with both modes and both revisions; the theorems about its four properties
  (section 4) have no bound on faults. It has one account: with two,
  `AtMostOnce` fails on such storage (`accounts`).
* `serve`: two runs and a restart let a run be cut off with its request in
  flight and another reconcile it, two pushes move the revision away and back.
  They compete for all three locks, so each may be refused at the first.
* `locks`: the runs have only the checkout, the last lock, in common, so one may
  be refused with two locks in its hands (`OneCheckout`).
* `parts`, `Attempt`: three findings, so that the last is compared with one
  confirmed and one rejected finding; two attempts, so that one finds what
  another left; three directories, so that two are left by failures.
* `parts`, `Listing`: two items a page and three edits of a listing of three: an
  item moves from a page that is yet to be read to one that was read, and
  appears or disappears between the two readings. Three pages reach the limit.
* `parts`, `DiffAnchor`: files of four lines allow two hunks with lines left out
  before and between them, and hunks with an empty side.
* `parts`, `CommandOutput`: chunks of up to three bytes for a tail of two: below,
  at and above the capacity, into an empty, partly filled and full tail.
* `parts`, `Keys`: reads of four bytes are shorter than a pasted text and than
  two keys; three presses put a key, a paste and another key after one another.
* `parts`, `Dashboard`: reports of two of three reviews, and two of three lines,
  so that the oldest falls off each list; lines of one and two columns on a
  screen of one and two, so that a line takes one row or two, and a piece that
  continues it adds a row or none; two keys open a review, or scroll the
  activity; heights 0 and 1 cut what is scrolled at different places. One job is
  in the file at the start, of any status. `DashBounds` keeps the product of jobs
  and lines small: of the new jobs the first is attempted and the others wait,
  and log lines come when one job is there and submitted. What it leaves out,
  lines between the changes of jobs, touches no variable of a report; the
  theorems have no such bound.
* `parts`, `Transcript`: five pieces of two streams and records between them
  close, continue and change a line in every order; a text has up to two
  pieces (`MCTexts`): none, a whole line, the beginning of one, and both.

Deadlock is not checked: the daemon, the operator and people may all stop, and
each component of `parts` may come to its end (a session that is over, a command
that has ended, an input that was typed).

**Fairness.** `ReviewEngine!FairSpec` assumes that a process that can take a
step takes one (`WF(Daemon)`, which includes starting it again: the operator
keeps the daemon running), that GitHub acts on a request that is not lost, and
that a retry delay elapses. Crashes and failures are not forced; their budget
makes them end. `WorkerService!FairSpec` assumes that the five-second timer
fires, that local steps are taken, and that a call fails once its context is
closed (`exec.CommandContext` kills the child and `WaitDelay` ends the wait).
It assumes nothing of agents, git and GitHub.

`KeysFairness`: the ticker of `dashboardSession` fires, and the loop of `feed`,
which makes no call, goes on. `DashFairness`: an engine whose context is closed
returns (`WorkerService` says the same of its runs), and the session, which
waits for that and nothing else, receives the result. Nothing is assumed of the
user, nor of an engine that was not canceled.

`Settles` allows a pull request that is held up by an uncertain publication:
when a request is lost without an answer the code never posts again and asks
the operator to look (README.md:113-115), so no stronger property holds.

Every property of a passing run has a mutant in `PROJECT.json`: a plausible bug
in a mapped definition (named in a comment `Mutant:` next to it) with which TLC
finds the property violated.

## 4. What is proved

| theorem | states | assumes |
|---|---|---|
| `ReviewEngineProofs!TypeCorrect` | `Spec => []TypeOK` | nothing: saves may fail and the directory may be lost |
| `PublicationProofs!OneReviewPerRevision` | `Spec => []AtMostOnce` | `~StorageFails`, `~StateLoss` |
| `PublicationProofs!IntentIsDurable` | `Spec => []DurableIntent` | the same |
| `PublicationProofs!PublicationStands` | `Spec => PublicationsStand` | the same |
| `PublicationProofs!ImplementsPublishOnce` | `Spec => PublishesOnce`, the refinement | the same |
| `EngineSafetyProofs!OneReviewOnAnyStorage`, `IntentIsDurableOnAnyStorage` | `AtMostOnce`, `DurableIntent`, with saves that fail and directories that are lost | `~ListingLags`, `OneAccount` |
| `EngineSafetyProofs!StateLoads` | `Spec => []SavedStateLoads` | nothing |
| `EngineSafetyProofs!NothingIsMissed` | `Spec => NothingMissedIsPosted` | nothing |
| `EngineSafetyProofs!UncertaintyHoldsWork` | `Spec => []NoWorkWhileUncertain` | nothing |
| `EngineSafetyProofs!LiveJobsAreLeft` | `Spec => DryRunLeavesLive` | nothing |
| `WorkerProofs!ServiceTypeCorrect`, `RunsExclude`, `LocksGivenBack`, `OneGetsThrough`, `RecordsStand` | `TypeOK`, `Exclusive`, `LocksReturned`, `NotAllRefused`, `SubmittedStays` | nothing |
| `WorkerProofs!RunsPostOnce`, `CertificatesHold`, `RunsKeepThePromise` | `PostedOnce`, `CertifiedIsPosted`, and `RunsPublishOnce`, the refinement | `OneState`: the runs of a repository have one state directory |
| `AttemptProofs!AllAreCompared`, `EvidenceIsPayload`, `WorktreesAreRemoved`, `EvidenceIsUntampered` | `ComparedWithAll`, `PayloadIsEvidence`, `SessionsCleanUp`, `EvidenceUntampered` | nothing |
| `AttemptProofs!AnchorIsShown` | `AnchoredIsShown` | nothing |
| `AttemptProofs!DiscussionIsComplete`, `AllFilesAreListed` | `HistoryIsComplete`, `FilesAreComplete` | nothing |
| `OutputProofs!OutputTypeCorrect`, `TheEndIsKept`, `NoFragmentIsReturned` | `TailTypeOK`, `KeepsTheEnd`, `NoFragment` | nothing |
| `OutputProofs!TranscriptTypeCorrect`, `LinesStayReadable` | `TranscriptTypeOK`, `LinesAreReadable` | nothing |
| `DashboardProofs!OpenReviewStays`, `SelectionFollows`, `PlaceStays`, `SummaryTellsThisRun` | `OpenedStays`, `SelectionStays`, `ReadingStays`, `SummaryIsOfThisRun` | nothing |
| `DashboardProofs!KeysTypeCorrect`, `KeysArrive` | `KeysTypeOK`, `KeysAsPressed` | `~SlowLink` |
| `PartsProofs!PartsAreTheirOwn` | every behaviour of `MCParts` is one of each component | nothing |
| `PartsProofs!PartsTypeCorrect` | `PartsTypeOK` | `~SlowLink` |

"Nothing" is nothing beyond the constants' types, which each module names in an
`ASSUME` that TLC evaluates in its runs. The theorems hold for any number of
pull requests, commits, findings, accounts, attempts, runs, pages, lines and
keys, and any budget of faults and edits.

**Types.** `TypeOK` of `ReviewEngine` is not inductive: that `tries` stays within
`Attempts` depends on which jobs are queued, and that a posted review has an
account on the process not being in a dry run. `Located` adds this, in three
parts: `Placed` (which job, mode and account each location works with), `Held`
(what the jobs under way look like: queued jobs have attempts left, unsettled
ones are posting, a job about to be sent has a payload) and `Quiet` (no dry-run
job is ever a publication). `TypeStep` proves `TypeOK /\ Located` inductive, one
lemma per group of variables and one step per action.

**Publications.** `AtMostOnce` needs a relation between three places. `IInv` is
`TypeOK`, `Located` and

* `Honest`, for every job: what the file says of GitHub is true (`TrueOf`: no
  intent, no request and no review; submitted, a review; never more than one;
  a request in flight is the one of the intent), and memory and file agree on
  every publication (`Agreed`), except between a refusal and the save that
  records it (`Refused`);
* `Knowing`, for the attempt under way: where its job is published or not, and
  what an answer that has arrived says of GitHub.

`InitIInv`, `IInvStep` and `Invariance` prove `Spec => []IInv`; the first two
theorems follow state by state, the third from `IntentStep`, which says how a
step may change a publication in the file, and the refinement from what each
action does to one job as `PublishOnce` sees it: a step of that job or none.

`~StorageFails` is needed for this invariant: after a failed save, memory and
file may disagree for a whole step. `~StateLoss` is needed because after a loss
the file says less than is true. `PublicationsStand` and `PublishesOnce` do not
hold without them: when the save after a created review fails, what is saved
next is "failed" (section 6, `unrecorded`).

**Publications on storage that fails.** `AtMostOnce` and `DurableIntent` do hold
on any storage, for another reason: what the file forgot is looked up before
every attempt. So the listing must have every review (`~ListingLags`), and the
review must be looked for under the name it was posted by (`OneAccount`; the
`accounts` run shows that it is needed). `SingleInv` says no more of memory and
file than that each has the intent of a request in flight; that nothing is
posted or in flight for the job of an attempt (`Unsent`, `Nowhere`) comes from
the lookup, and stays, as nobody else sends anything for it; that the job about
to be sent is in the file as it is in memory; and that a request which was
answered is no longer in flight. With `LoadInv` and `CertainInv` it is inductive
(`SingleStep`).

**What needs no reliable storage.** Each of the other four theorems of
`EngineSafetyProofs` has an invariant of its own next to `TypeOK /\ Located`:

* `LoadInv`: memory and file hold an account and a payload for every
  publication, because intents are made in one place (`Intents`) only.
* `ContextInv`: what was missed still shows in what the attempt has yet to
  compare (`MissInv`): the description it was written for or the discussion it
  read is older than the present one, until `Recheck` and `Rediscuss` have
  compared them. `LastPull`, the one way to `create` (`CreateFollows`), reads
  the revision and whether the pull request is wanted at that moment.
* `CertainInv`: the queue has each pull request once, none that is uncertain
  (`OneEach`, `QueueIsCertain`), and the attempt's own pull request is not in it.
* `DryInv`: a dry run reconciles nothing, and its memory differs from the file
  in live jobs by retiring them at most.

**Runs of the service.** `LocksInv` says which locks a run holds at each stage
and that no two hold the same; with the number of locks this is `LocksReturned`
(`LocksFit`). The types of `WorkerService` are proved only: no plausible bug
breaks them without breaking another property first, so no run spends its time
on them. `RefusedInv` is why the fixed order of
`lockConfig` lets one through: when a run was refused, another is past the lock
it was refused, or ahead of it in the order. `JobsInv` says that the file a
working run loaded is still what it loaded (but for its own saves), and
`PostsInv` adds GitHub: what the file of the repository knows of reviews and
requests in flight. `RunsKeepThePromise` follows from `PostsInv` step by step:
each action of a run, of the service and of GitHub changes the phase and the
request of one job as an action of `PublishOnce` does, or of none.

**An attempt.** `Judged` (how many findings are judged at each stage),
`PayloadMatches` (the payload is the confirmed ones at all times) and `Compared`
(each candidate was compared with the discussion and those confirmed before
it). The last rests on a fact about finite sets: a list as long as a set, of
members of that set and without repetition, has all of them.

**A listing.** Why two equal readings are complete: nothing comes back, so what
both have was there when the first ended (`StillThere`, `FoundAgain`); the full
pages of the first reach as far as the listing did, so it has at least as many
items as there were (`FullPages`, `FirstIsLong`); so it has them all.

**Keys.** Every byte knows its press, so the decoder can be placed: the bytes it
is done with (`Done`) end where a press begins, or inside a paste after its start
marker, at one of the pasted keys, or at its end marker (`PlaceInv`); what it
holds are the next bytes that were sent (`PendingInv`), and the keys it gave are
those meant so far (`GivenInv`). Each way through `feed` takes it from one such
place to the next, which is a matter of the sequences in `Sent`, one by one: an
escape sequence of a key or marker ends where it should and not before, so no
read that ends inside one can be mistaken. An Escape that may be the start of
more is told apart by the quiet tick, hence `~SlowLink`.

**Lines.** `TranscriptInv`: the lines of both logs are numbered through and of
one stream (`WellMade`); a line that is open is the last piece's (`OpenLine`),
and the dashboard has it open whenever that piece did not end its line
(`FeedOpen`); and the console has turned to the stream of the text it is
telling (`TextInv`), which is what its mutex is for. Appending a piece then
keeps every line, or begins one (`Holds`, `OneMore`).

**Parts.** A step of `MCParts` is a step of the chosen part and leaves the
variables of the others alone; so each of the theorems above holds in it.

**The rest.** `DiffAnchor`: the code's numbers are the writer's, except on the
side of a hunk that has no lines (`Counts`). `CommandOutput`: the properties are
inductive together with the types.

**The dashboard.** The reviews on the screen are a range of the jobs
(`RangeInv`), the activity is a range of the lines (`LogInv`), an open review
has been reported (`OpenInv`). The statuses on the screen may be older than the
jobs: a job changes without a report until its save succeeds. `BeforeInv` says
what is still true of them: a review reported as submitted is, one whose
recording was saved is reported so, and the first report names as submitted
only what the run found so. An attempt never has a job that is submitted
(`PublishingInv`), so recorded reviews stay. For `ReadingStays`, a new line of one
row is one more row below any other (`NewRow`), and a piece within its row adds
none, however many rows the lines between take.

**Only model-checked.** Liveness (`PublicationRecorded`, `Settles`, `StopsSoon`,
`GoneLetsGo`, `StopIsHeard`, `StopEnds`), which needs fairness and is out of the
prover's reach. Every safety property and refinement of a passing run is a
theorem. `AtMostOnce` on storage that fails *and* with a listing that lags is
neither: it does not hold, as nothing is left to tell the engine of its review.

## 5. What is left

`Attempt` and `Listing` shown to implement the steps of `ReviewEngine` they look
into by refinement, instead of by the argument in section 2.

### Not modelled

* Configuration and discovery (`config.go`, `discover.go`) and the command line
  (`main.go`): strings, paths and flags read and checked once, before anything
  runs. No step can come between, and their properties are formats.
* Packaging and release tooling: not part of the running program.
* The process group of a child, its signal and `WaitDelay` (`osrun`): the
  operating system's. That a call ends once its context is closed is a fairness
  assumption of `WorkerService` and `Dashboard`.
* ACP, and the text of prompts, of payloads and of answers, with the search for
  the receipt and the budgets in bytes; what `createdResponse` and
  `validatePublished` compare field by field is one outcome, accepted or not.
* `git` itself: `open`, arguments and output formats. Blank lines at the end of
  a patch are trimmed by `osrun.Run`, so `DiffAnchor` ends a patch before them.
* `initialize` and the refusal of malformed requests; rendering and wording.
* Pages of the listing of pull requests: a pull request that moves to a page
  that was read is seen at the next poll, and so only late.

## 6. Where the code and its documentation differ

* `exhausted`: a process killed during a revision's last attempt leaves a
  pending job without attempts. `step` reports "exhausted its review attempts;
  use retry" (run.go:157), but `Retry` resets failed jobs only (state.go:183).
* `unrecorded`: when the save after a created review fails, the error handler
  turns the submitted job into a failed one (run.go:214). Reconciliation, meant
  to work "even if a PR closed, advanced, or exhausted its attempts" (run.go:99),
  looks at posting jobs only, and the review is never recorded.
* `relost`: a review recovered after the state directory was lost has no
  candidates, and the worker certifies it as complete without findings, where
  README.md:169-170 says each confirmed finding's rating is carried.
* `accounts`: "Before posting, the bot saves the full payload, authenticated
  author, and a revision marker. If a response is lost, it looks for that
  author's marked review before doing anything else" (README.md:111-113). When
  the save after a created review failed and the daemon goes on under another
  account, it finds the review of the saved author, replaces the author
  (run.go:180), and only then refuses the review for having another one. The
  job keeps the new author, the next poll looks for a review of that one, finds
  none, and posts a second review of the revision.
* `cutoff`: a shutdown stops the service "after the current stream"
  (README.md:175), but waits five seconds only (server.go:148).
* `paste`: pasted text is discarded "so pasted text cannot accidentally act as
  dashboard shortcuts" (terminal.go:110-111). A tick that finds nothing to read
  after an Escape does not ask whether a paste is on (terminal.go:96-99): the
  Escape becomes a key, and if it began the end marker of the paste, on a slow
  link, the marker is lost and every later key is discarded, "q" and ctrl+c too.
  `parts` has no such link, and there `KeysAsPressed` and `StopIsHeard` hold.

One more observation has no statement to refute, and so no run: the intent of a
request lives in one state directory, while the lock of a repository is shared
by all. With a state directory for each of two runs, `PostedOnce` fails: the
first run's request may still be in flight when the second, under the same
lock, looks for it, does not find it and posts its own. README.md:123 supports
several instances for several branches, whose revisions differ; `serve`
therefore has one state directory.

Limits of the dashboard that no comment, document or test excludes are stated
with its properties, and have no run either:

* A report has the last 200 reviews, so an open review that is no longer among
  them gives way to another (`OpenedStays` ends there).
* The scrolling log, unlike the dashboard, breaks a line of text when a record of
  another kind comes between.
* `addActivity` moves the place of a reader by one for each line
  (dashboard.go:170-172), but the place counts wrapped rows (359-365): a line of
  more than one row, or a piece of a stream that lengthens the last line by a
  row (126-128), moves what is read by the rows it adds too many.
  `ReadingStays` claims nothing of those (`OneRow`).
* The summary calls posted what this run recorded. A review that an earlier run
  posted and this one found, by `reconcile` or by adoption, is among them; one
  that this run posted, but whose save failed, is listed as failed, or not at all
  if the first report had it as failed. `SummaryIsOfThisRun` says so.
