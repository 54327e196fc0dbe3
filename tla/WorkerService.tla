---------------------------- MODULE WorkerService ----------------------------
(***************************************************************************)
(* The worker service (internal/worker/server.go, cmd/brv/worker.go) and   *)
(* the locks under which its runs use a repository (state.go).             *)
(*                                                                         *)
(* Each POST /v1/runs is a goroutine of its own: it takes three locks      *)
(* without waiting, runs the review engine once, gives the locks back, and *)
(* only then reads the state file for the result it streams.  A shutdown   *)
(* request or a signal stops the service, which waits five seconds for     *)
(* its streams, closes them and lets the process end.                      *)
(*                                                                         *)
(* The engine is that of ReviewEngine cut down to what runs can do to each *)
(* other: what one reads into memory, the whole files it writes, and the   *)
(* reviews it posts.  Every repository has one pull request.               *)
(***************************************************************************)
EXTENDS Naturals, Sequences, FiniteSets

CONSTANTS
  Runs,       \* the runs Town requests
  Revisions,  \* commits a pull request can be at
  Task,       \* Task[r]: repository, state directory, checkout and revision of r
  MaxPushes,  \* bound: revisions pushed
  MaxStarts   \* bound: times the service is started again

Repos  == {Task[r].repo : r \in Runs}
States == {Task[r].state : r \in Runs}

ASSUME TaskAssumption ==
  /\ \A r \in Runs : Task[r].rev \in Revisions
  \* ReadState refuses the state file of another repository or checkout.
  /\ \A r, q \in Runs : Task[r].state = Task[q].state =>
       Task[r].repo = Task[q].repo /\ Task[r].dir = Task[q].dir
ASSUME RunsAssumption == Runs # {}
ASSUME BoundAssumption == MaxPushes \in Nat /\ MaxStarts \in Nat

VARIABLES
  service,  \* "serving", "stopping" (Shutdown waits) or "down"
  stage,    \* stage[r]: where the handler of r is
  held,     \* held[r]: the locks of r
  gone,     \* gone[r]: the connection of r, and with it its context, is closed
  memory,   \* memory[r]: the jobs in the memory of r's engine
  at,       \* at[r]: the revision r's engine reviews
  outcome,  \* outcome[r]: what Run returned
  reply,    \* reply[r]: what the stream of r ended with
  head,     \* head[p]: the revision of the pull request of p
  wire,     \* wire[p][v]: POST requests under way for v
  posts,    \* posts[p][v]: reviews of v on GitHub
  file,     \* file[s][v]: the job of v in the state.json of s
  pushes, starts

lifecycle == <<service, starts>>
handler   == <<held, gone, outcome, reply>>
engine    == <<memory, at, file>>
github    == <<head, wire, posts, pushes>>
vars      == <<lifecycle, stage, handler, engine, github>>

\* "none": no job of that revision.
Status == {"none", "pending", "failed", "stale", "posting", "submitted"}

\* Where the engine may fail, or stop because its context is closed.
Fallible == {"load", "reconcile", "scan", "lookup", "attempt"}
Working  == Fallible \cup {"send", "await"}
Active   == Working \cup {"locking", "unlocking", "reply"}

Locks == UNION {{<<"repo", Task[r].repo>>, <<"state", Task[r].state>>, <<"dir", Task[r].dir>>} : r \in Runs}

\* Every variable has its type (server.go, state.go, run.go).
TypeOK ==
  /\ service \in {"serving", "stopping", "down"} /\ starts \in 0..MaxStarts
  /\ stage \in [Runs -> {"new", "over"} \cup Active]
  /\ held \in [Runs -> SUBSET Locks]
  /\ gone \in [Runs -> BOOLEAN]
  /\ outcome \in [Runs -> {"none", "ok", "error", "locked"}]
  /\ reply \in [Runs -> {"none", "certified", "uncertified", "error", "canceled"}]
  /\ memory \in [Runs -> [Revisions -> Status]]
  /\ at \in [Runs -> Revisions]
  /\ file \in [States -> [Revisions -> Status]]
  /\ head \in [Repos -> Revisions] /\ pushes \in 0..MaxPushes
  /\ wire \in [Repos -> [Revisions -> Nat]]
  /\ posts \in [Repos -> [Revisions -> Nat]]

NoJobs == [v \in Revisions |-> "none"]

Init ==
  /\ service = "serving" /\ starts = MaxStarts
  /\ stage = [r \in Runs |-> "new"]
  /\ held = [r \in Runs |-> {}] /\ gone = [r \in Runs |-> FALSE]
  /\ outcome = [r \in Runs |-> "none"] /\ reply = [r \in Runs |-> "none"]
  /\ memory = [r \in Runs |-> NoJobs] /\ at = [r \in Runs |-> Task[r].rev]
  /\ file = [s \in States |-> NoJobs]
  /\ head \in [Repos -> Revisions] /\ pushes = MaxPushes
  /\ wire = [p \in Repos |-> [v \in Revisions |-> 0]]
  /\ posts = wire

-----------------------------------------------------------------------------
\* The locks.

\* Mutant: only the state directory is locked.
LocalLocks(r) == <<<<"state", Task[r].state>>>>

\* lockConfig takes the lock of the repository first, then those of the state
\* directory and of the checkout.
LockOrder(r) == <<<<"repo", Task[r].repo>>, <<"state", Task[r].state>>, <<"dir", Task[r].dir>>>>

\* Mutant: the locks are taken in no particular order.
AnyMissing(r) == {i \in DOMAIN LockOrder(r) : LockOrder(r)[i] \notin held[r]}

\* The lock r tries to take next.
Missing(r) == {Cardinality(held[r]) + 1}

Taken(l) == \E q \in Runs : l \in held[q]

Goes(r, s) == stage' = [stage EXCEPT ![r] = s]

Begin(r) ==
  /\ service = "serving" /\ stage[r] = "new" /\ Goes(r, "locking")
  /\ UNCHANGED <<lifecycle, handler, engine, github>>

Lock(r) ==
  /\ stage[r] = "locking"
  /\ \E i \in Missing(r) :
       /\ ~Taken(LockOrder(r)[i])
       /\ held' = [held EXCEPT ![r] = @ \cup {LockOrder(r)[i]}]
  /\ Goes(r, IF Cardinality(held[r]) + 1 = Len(LockOrder(r)) THEN "load" ELSE "locking")
  /\ UNCHANGED <<lifecycle, gone, outcome, reply, engine, github>>

\* Run is over: what it returns, and the locks it holds are to be given back.
Returns(r, result) == Goes(r, "unlocking") /\ outcome' = [outcome EXCEPT ![r] = result]

\* Mutant: a refused run does not give back the locks it has taken.
RefuseKeeps(r) ==
  /\ stage[r] = "locking"
  /\ \E i \in Missing(r) : Taken(LockOrder(r)[i])
  /\ Goes(r, "reply") /\ outcome' = [outcome EXCEPT ![r] = "locked"]
  /\ UNCHANGED <<lifecycle, held, gone, reply, engine, github>>

Refuse(r) ==
  /\ stage[r] = "locking"
  /\ \E i \in Missing(r) : Taken(LockOrder(r)[i])
  /\ Returns(r, "locked")
  /\ UNCHANGED <<lifecycle, held, gone, reply, engine, github>>

\* A refused run gives its locks back in the order in which it took them, any
\* other run in the opposite order.
Unlock(r) ==
  LET own == {i \in DOMAIN LockOrder(r) : LockOrder(r)[i] \in held[r]} IN
  /\ stage[r] = "unlocking"
  /\ \/ own = {} /\ Goes(r, "reply") /\ UNCHANGED held
     \/ \E i \in own :
          /\ \A j \in own : IF outcome[r] = "locked" THEN i <= j ELSE j <= i
          /\ held' = [held EXCEPT ![r] = @ \ {LockOrder(r)[i]}]
          /\ UNCHANGED stage
  /\ UNCHANGED <<lifecycle, gone, outcome, reply, engine, github>>

-----------------------------------------------------------------------------
\* One run of the engine.

Repo(r) == Task[r].repo

\* A save writes all that the engine has in memory.
Writes(r, jobs) ==
  /\ memory' = [memory EXCEPT ![r] = jobs]
  /\ file' = [file EXCEPT ![Task[r].state] = jobs]

WritesStatus(r, s) == Writes(r, [memory[r] EXCEPT ![at[r]] = s])

\* Mutant: the saved jobs are not read.
LoadNothing(r) ==
  /\ stage[r] = "load" /\ Goes(r, "reconcile")
  /\ memory' = [memory EXCEPT ![r] = NoJobs]
  /\ UNCHANGED <<lifecycle, handler, at, file, github>>

Load(r) ==
  /\ stage[r] = "load" /\ Goes(r, "reconcile")
  /\ memory' = [memory EXCEPT ![r] = file[Task[r].state]]
  /\ UNCHANGED <<lifecycle, handler, at, file, github>>

\* A review whose publication was uncertain is there, or is not to be seen.
Reconcile(r) ==
  /\ stage[r] = "reconcile" /\ Goes(r, "scan")
  /\ \/ UNCHANGED <<memory, file>>
     \/ \E v \in Revisions :
          /\ ~gone[r] /\ memory[r][v] = "posting" /\ posts[Repo(r)][v] = 1
          /\ Writes(r, [memory[r] EXCEPT ![v] = "submitted"])
  /\ UNCHANGED <<lifecycle, handler, at, github>>

Superseded(jobs, v) ==
  [u \in Revisions |->
     IF u # v /\ jobs[u] \in {"pending", "failed"} THEN "stale" ELSE jobs[u]]

\* The revision under review is the present one, not the one Town asked for.
Scan(r) ==
  LET v == head[Repo(r)]
      jobs == Superseded(memory[r], v)
  IN
  /\ stage[r] = "scan" /\ ~gone[r]
  /\ \/ /\ \A u \in Revisions : memory[r][u] # "posting"
        /\ memory[r][v] # "submitted"
        /\ at' = [at EXCEPT ![r] = v]
        /\ Writes(r, [jobs EXCEPT ![v] = IF @ \in {"none", "stale"} THEN "pending" ELSE @])
        /\ Goes(r, "lookup") /\ UNCHANGED outcome
     \/ /\ \A u \in Revisions : memory[r][u] # "posting"
        /\ memory[r][v] \in {"submitted", "failed"}   \* done, or RetryAt is to come
        /\ Writes(r, jobs) /\ Returns(r, "ok") /\ UNCHANGED at
     \/ /\ \E u \in Revisions : memory[r][u] = "posting"
        /\ Writes(r, jobs) /\ Returns(r, "error") /\ UNCHANGED at
     \/ /\ \A u \in Revisions : memory[r][u] # "posting"
        /\ Writes(r, memory[r]) /\ Returns(r, "ok") /\ UNCHANGED at   \* not eligible
  /\ UNCHANGED <<lifecycle, held, gone, reply, github>>

\* The listing may lag.
Lookup(r) ==
  /\ stage[r] = "lookup" /\ ~gone[r]
  /\ \/ WritesStatus(r, "pending") /\ Goes(r, "attempt") /\ UNCHANGED outcome
     \/ posts[Repo(r)][at[r]] = 1 /\ WritesStatus(r, "submitted") /\ Returns(r, "ok")
  /\ UNCHANGED <<lifecycle, held, gone, reply, at, github>>

\* The agents are done; the pull request is still, or no longer, at the revision.
Intend(r) ==
  /\ stage[r] = "attempt" /\ ~gone[r]
  /\ \/ head[Repo(r)] = at[r] /\ WritesStatus(r, "posting") /\ Goes(r, "send") /\ UNCHANGED outcome
     \/ head[Repo(r)] # at[r] /\ WritesStatus(r, "stale") /\ Returns(r, "ok")
  /\ UNCHANGED <<lifecycle, held, gone, reply, at, github>>

Send(r) ==
  /\ stage[r] = "send" /\ ~gone[r] /\ Goes(r, "await")
  /\ wire' = [wire EXCEPT ![Repo(r)][at[r]] = @ + 1]
  /\ UNCHANGED <<lifecycle, handler, engine, head, posts, pushes>>

Answer(r) ==
  /\ stage[r] = "await" /\ ~gone[r] /\ posts[Repo(r)][at[r]] > 0
  /\ WritesStatus(r, "submitted") /\ Returns(r, "ok")
  /\ UNCHANGED <<lifecycle, held, gone, reply, at, github>>

\* Mutant: any failure of the request counts as a refusal.
RejectedOnError(r) ==
  /\ stage[r] = "await" /\ ~gone[r]
  /\ WritesStatus(r, "failed") /\ Returns(r, "error")
  /\ UNCHANGED <<lifecycle, held, gone, reply, at, github>>

\* GitHub is known to have refused the request.
Rejected(r) ==
  /\ stage[r] = "await" /\ ~gone[r]
  /\ wire[Repo(r)][at[r]] = 0 /\ posts[Repo(r)][at[r]] = 0
  /\ WritesStatus(r, "failed") /\ Returns(r, "error")
  /\ UNCHANGED <<lifecycle, held, gone, reply, at, github>>

\* Whether the review was created is not known.
GiveUp(r) ==
  /\ stage[r] \in {"send", "await"} /\ Returns(r, "error")
  /\ UNCHANGED <<lifecycle, held, gone, reply, engine, github>>

\* Mutant: closing the context does not reach the agents.
FailsUnlessAtWork(r) ==
  /\ stage[r] \in Fallible \ {"attempt"} /\ Returns(r, "error")
  /\ UNCHANGED <<lifecycle, held, gone, reply, engine, github>>

\* A call fails or its context is closed; an attempt that fails is saved.
Fails(r) ==
  /\ stage[r] \in Fallible /\ Returns(r, "error")
  /\ IF stage[r] = "attempt" THEN WritesStatus(r, "failed") ELSE UNCHANGED <<memory, file>>
  /\ UNCHANGED <<lifecycle, held, gone, reply, at, github>>

-----------------------------------------------------------------------------
\* The end of a stream.  The locks are free by now.

\* Mutant: any submitted review of the pull request will do.
AnySubmitted(r) == \E v \in Revisions : file[Task[r].state][v] = "submitted"

\* reviewResult certifies a submitted review of the requested revision only.
Complete(r) == file[Task[r].state][Task[r].rev] = "submitted"

Reply(r) ==
  /\ stage[r] = "reply" /\ Goes(r, "over")
  /\ reply' = [reply EXCEPT ![r] =
       CASE outcome[r] # "ok" /\ gone[r]  -> "canceled"
         [] outcome[r] # "ok" /\ ~gone[r] -> "error"
         [] outcome[r] = "ok"             -> IF Complete(r) THEN "certified" ELSE "uncertified"]
  /\ UNCHANGED <<lifecycle, held, gone, outcome, engine, github>>

\* Town closes the connection.
Disconnect(r) ==
  /\ stage[r] \in Active /\ ~gone[r] /\ gone' = [gone EXCEPT ![r] = TRUE]
  /\ UNCHANGED <<lifecycle, stage, held, outcome, reply, engine, github>>

-----------------------------------------------------------------------------
\* The service.

\* A shutdown request, SIGINT or SIGTERM.
Shutdown ==
  /\ service = "serving" /\ service' = "stopping"
  /\ UNCHANGED <<starts, stage, handler, engine, github>>

Drained ==
  /\ service = "stopping" /\ \A r \in Runs : stage[r] \notin Active
  /\ service' = "down"
  /\ UNCHANGED <<starts, stage, handler, engine, github>>

\* Mutant: the wait has no limit.
ExpireNever == FALSE /\ UNCHANGED vars

\* After five seconds the connections are closed, Serve returns and the process
\* ends; what a handler still does until then it may have done before.
Expire ==
  /\ service = "stopping" /\ \E r \in Runs : stage[r] \in Active
  /\ service' = "down"
  /\ stage' = [r \in Runs |-> IF stage[r] \in Active THEN "over" ELSE stage[r]]
  /\ held' = [r \in Runs |-> {}]
  /\ UNCHANGED <<starts, gone, outcome, reply, engine, github>>

StartAgain ==
  /\ service = "down" /\ starts > 0 /\ starts' = starts - 1 /\ service' = "serving"
  /\ UNCHANGED <<stage, handler, engine, github>>

-----------------------------------------------------------------------------
\* GitHub.

Deliver(p, v) ==
  /\ wire[p][v] > 0
  /\ wire' = [wire EXCEPT ![p][v] = @ - 1] /\ posts' = [posts EXCEPT ![p][v] = @ + 1]
  /\ UNCHANGED <<lifecycle, stage, handler, engine, head, pushes>>

Decline(p, v) ==
  /\ wire[p][v] > 0 /\ wire' = [wire EXCEPT ![p][v] = @ - 1]
  /\ UNCHANGED <<lifecycle, stage, handler, engine, head, posts, pushes>>

Push(p, v) ==
  /\ pushes > 0 /\ pushes' = pushes - 1
  /\ head[p] # v /\ head' = [head EXCEPT ![p] = v]
  /\ UNCHANGED <<lifecycle, stage, handler, engine, wire, posts>>

-----------------------------------------------------------------------------
Handle(r) ==
  \/ Begin(r) \/ Lock(r) \/ Refuse(r) \/ Unlock(r) \/ Reply(r)
  \/ Load(r) \/ Reconcile(r) \/ Scan(r) \/ Lookup(r) \/ Intend(r) \/ Send(r)
  \/ Answer(r) \/ Rejected(r) \/ GiveUp(r) \/ Fails(r)

Next ==
  \/ \E r \in Runs : Handle(r) \/ Disconnect(r)
  \/ Shutdown \/ Drained \/ Expire \/ StartAgain
  \/ \E p \in Repos, v \in Revisions : Deliver(p, v) \/ Decline(p, v) \/ Push(p, v)

Spec == Init /\ [][Next]_vars

\* The timer of Shutdown expires; local steps are taken; a call fails once its
\* context is closed.  Agents, git and GitHub may take for ever.
Fairness ==
  /\ WF_vars(Drained \/ Expire)
  /\ \A r \in Runs :
       /\ WF_vars(Lock(r) \/ Refuse(r)) /\ WF_vars(Unlock(r))
       /\ WF_vars(gone[r] /\ (Fails(r) \/ GiveUp(r)))

FairSpec == Spec /\ Fairness

-----------------------------------------------------------------------------
\* No two engines work on one repository, in one state directory or in one
\* checkout at a time, however many runs Town starts and in whatever way they
\* overlap (state.go: lockConfig).
Exclusive ==
  \A r, q \in Runs : r # q /\ {stage[r], stage[q]} \subseteq Working =>
    Task[r].repo # Task[q].repo /\ Task[r].state # Task[q].state /\ Task[r].dir # Task[q].dir

\* An engine works only while its run has all three of its locks, and no handler
\* that answers, or is done, has any: after a refusal of the first, second or
\* third lock, a failure at any point, a caller that is gone or a shutdown
\* (state.go: lockConfig).
LocksReturned ==
  \A r \in Runs :
    /\ stage[r] \in Working => {LockOrder(r)[i] : i \in DOMAIN LockOrder(r)} \subseteq held[r]
    /\ stage[r] \in {"reply", "over"} => held[r] = {}

\* Runs that share a state directory review a revision once, counting requests
\* of runs that were cut off and that GitHub may still act on.
PostedOnce == \A p \in Repos, v \in Revisions : posts[p][v] + wire[p][v] <= 1

\* No run overwrites what another has recorded: a submitted job stays so,
\* although every save writes the whole file (run.go: Run reads under the lock).
SubmittedStays ==
  [][\A s \in States, v \in Revisions :
       file[s][v] = "submitted" => file'[s][v] = "submitted"]_vars

\* What a stream certifies is on GitHub, for the revision that Town asked
\* for, although the engine reviews the revision it finds (worker.go:
\* reviewResult) and the file is read when the locks are free.
CertifiedIsPosted == \A r \in Runs : reply[r] = "certified" => posts[Repo(r)][Task[r].rev] = 1

\* A job is one revision in one state file, which belongs to one repository.
Jobs == States \X Revisions
RepoOf == [s \in States |-> CHOOSE p \in Repos : \E r \in Runs : Task[r].state = s /\ Task[r].repo = p]

Publication == INSTANCE PublishOnce WITH
  phase  <- [j \in Jobs |-> CASE file[j[1]][j[2]] = "posting"   -> "intent"
                              [] file[j[1]][j[2]] = "submitted" -> "done"
                              [] OTHER                          -> "open"],
  remote <- [j \in Jobs |-> IF posts[RepoOf[j[1]]][j[2]] # 0 THEN "published"
                            ELSE IF wire[RepoOf[j[1]]][j[2]] # 0 THEN "sent" ELSE "none"]

\* However runs are started, refused, cut off and repeated, together they keep
\* the promise that one engine keeps: each job is committed to before its
\* review is requested, requested once, and closed when the outcome is known
\* (run.go: Run reads the file under the lock, and saves before create).
RunsPublishOnce == Publication!Spec

\* Runs that compete for locks do not all lose: at least one of them gets to
\* work (state.go: the one order in which lockConfig takes the locks).
NotAllRefused == \E r \in Runs : outcome[r] # "locked"

\* The service stops even if an agent never answers (server.go: the timeout of
\* Shutdown).
StopsSoon == service = "stopping" ~> service = "down"

\* A run whose caller has gone gives its locks back, wherever it is (server.go:
\* the run's context is that of its request).
GoneLetsGo == \A r \in Runs : gone[r] ~> held[r] = {}

\* README.md: POST /v1/shutdown "asks the service to stop after the current
\* stream".
StopsAfterStream ==
  [][service' = "down" => \A r \in Runs : stage[r] \notin Active]_vars
=============================================================================
