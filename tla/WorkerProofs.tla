---------------------------- MODULE WorkerProofs ----------------------------
(***************************************************************************)
(* Proofs about WorkerService, for any number of runs, repositories, state *)
(* directories, checkouts and revisions.                                   *)
(*                                                                         *)
(* A run that works holds its three locks, so no other one uses what it    *)
(* uses, and what it has in memory is what its state file says.            *)
(***************************************************************************)
EXTENDS WorkerService, FiniteSetTheorems, TLAPS

RepoLock(r)  == <<"repo", Task[r].repo>>
StateLock(r) == <<"state", Task[r].state>>
DirLock(r)   == <<"dir", Task[r].dir>>
AllLocks(r)  == {RepoLock(r), StateLock(r), DirLock(r)}

\* The locks a run holds are those it has got to.
HeldBy(r) ==
  /\ stage[r] = "locking" => held[r] \in {{}, {RepoLock(r)}, {RepoLock(r), StateLock(r)}}
  /\ stage[r] \in Working => held[r] = AllLocks(r)
  /\ stage[r] = "unlocking" => held[r] \subseteq AllLocks(r)
  /\ stage[r] \in {"new", "reply", "over"} => held[r] = {}
  /\ outcome[r] = "locked" => stage[r] \in {"unlocking", "reply", "over"} /\ DirLock(r) \notin held[r]

LocksInv ==
  /\ \A r \in Runs : HeldBy(r)
  /\ \A r, q \in Runs : r # q => held[r] \cap held[q] = {}

\* It is not refused, and will not be.
Past(q) == outcome[q] # "locked" /\ stage[q] \notin {"new", "locking"}

\* It is not refused yet, and has locks that others may miss.
Ahead(q) == stage[q] = "locking" /\ held[q] # {}

\* Whoever was refused at the last lock met a run that works; whoever was
\* refused earlier met a run that was further.
RefusedInv ==
  /\ \A r \in Runs : outcome[r] = "locked" => \E q \in Runs : Past(q) \/ Ahead(q)
  /\ \A r \in Runs : outcome[r] = "locked" /\ StateLock(r) \in held[r] => \E q \in Runs : Past(q)

-----------------------------------------------------------------------------
(***************************************************************************)
(* Types.                                                                  *)
(***************************************************************************)

LEMMA InitType == Init => TypeOK
<1> SUFFICES ASSUME Init PROVE TypeOK
  OBVIOUS
<1>1. at \in [Runs -> Revisions] /\ starts \in 0..MaxStarts /\ pushes \in 0..MaxPushes
  BY TaskAssumption, BoundAssumption DEF Init
<1>2. file \in [States -> [Revisions -> Status]] /\ memory \in [Runs -> [Revisions -> Status]]
  BY DEF Init, NoJobs, Status
<1> QED BY <1>1, <1>2 DEF Init, TypeOK

LEMMA RunTypes ==
  ASSUME NEW r \in Runs
  PROVE  Repo(r) \in Repos /\ Task[r].state \in States /\ AllLocks(r) \subseteq Locks
  BY DEF Repo, Repos, States, AllLocks, RepoLock, StateLock, DirLock, Locks

\* What a save writes has its type.
LEMMA WritesTypes ==
  ASSUME TypeOK, NEW r \in Runs, NEW jobs \in [Revisions -> Status], Writes(r, jobs)
  PROVE  /\ memory' \in [Runs -> [Revisions -> Status]]
         /\ file' \in [States -> [Revisions -> Status]]
  BY RunTypes DEF Writes, TypeOK

LEMMA StatusTypes ==
  ASSUME TypeOK, NEW r \in Runs, NEW s \in Status
  PROVE  [memory[r] EXCEPT ![at[r]] = s] \in [Revisions -> Status]
  BY DEF TypeOK

LEMMA SupersededTypes ==
  ASSUME NEW jobs \in [Revisions -> Status], NEW v \in Revisions
  PROVE  Superseded(jobs, v) \in [Revisions -> Status]
  BY DEF Superseded, Status

\* The engine of a run does not touch the locks.
Engine(r) ==
  \/ Load(r) \/ Reconcile(r) \/ Scan(r) \/ Lookup(r) \/ Intend(r) \/ Send(r)
  \/ Answer(r) \/ Rejected(r) \/ GiveUp(r) \/ Fails(r)

LEMMA EngineShape ==
  ASSUME TypeOK, NEW r \in Runs, Engine(r)
  PROVE  /\ stage[r] \in Working
         /\ UNCHANGED <<service, starts, held, gone, reply, head, pushes>>
         /\ \/ /\ UNCHANGED outcome
               /\ \E s \in Working : stage' = [stage EXCEPT ![r] = s]
            \/ /\ stage' = [stage EXCEPT ![r] = "unlocking"]
               /\ \E o \in {"ok", "error"} : outcome' = [outcome EXCEPT ![r] = o]
<1>1. CASE Load(r) BY <1>1 DEF Load, Goes, Working, Fallible, lifecycle, handler, github
<1>2. CASE Reconcile(r) BY <1>2 DEF Reconcile, Goes, Working, Fallible, lifecycle, handler, github
<1>3. CASE Scan(r) BY <1>3 DEF Scan, Goes, Returns, Working, Fallible, lifecycle, github
<1>4. CASE Lookup(r) BY <1>4 DEF Lookup, Goes, Returns, Working, Fallible, lifecycle, github
<1>5. CASE Intend(r) BY <1>5 DEF Intend, Goes, Returns, Working, Fallible, lifecycle, github
<1>6. CASE Send(r) BY <1>6 DEF Send, Goes, Working, Fallible, lifecycle, handler
<1>7. CASE Answer(r) BY <1>7 DEF Answer, Goes, Returns, Working, Fallible, lifecycle, github
<1>8. CASE Rejected(r) BY <1>8 DEF Rejected, Goes, Returns, Working, Fallible, lifecycle, github
<1>9. CASE GiveUp(r) BY <1>9 DEF GiveUp, Goes, Returns, Working, Fallible, lifecycle, github
<1>10. CASE Fails(r) BY <1>10 DEF Fails, Goes, Returns, Working, Fallible, lifecycle, github
<1> QED BY <1>1, <1>2, <1>3, <1>4, <1>5, <1>6, <1>7, <1>8, <1>9, <1>10 DEF Engine

\* What the engine writes and sends has its type.
LEMMA EngineTypes ==
  ASSUME TypeOK, NEW r \in Runs, Engine(r)
  PROVE  /\ memory' \in [Runs -> [Revisions -> Status]]
         /\ file' \in [States -> [Revisions -> Status]]
         /\ at' \in [Runs -> Revisions]
         /\ wire' \in [Repos -> [Revisions -> Nat]]
         /\ posts' \in [Repos -> [Revisions -> Nat]]
<1>1. /\ memory \in [Runs -> [Revisions -> Status]] /\ memory[r] \in [Revisions -> Status]
      /\ file \in [States -> [Revisions -> Status]] /\ Task[r].state \in States
      /\ at \in [Runs -> Revisions] /\ at[r] \in Revisions
      /\ wire \in [Repos -> [Revisions -> Nat]] /\ posts \in [Repos -> [Revisions -> Nat]]
      /\ Repo(r) \in Repos
  BY RunTypes DEF TypeOK
<1>2. ASSUME NEW s \in Status, WritesStatus(r, s)
      PROVE  memory' \in [Runs -> [Revisions -> Status]] /\ file' \in [States -> [Revisions -> Status]]
  BY <1>2, StatusTypes, WritesTypes DEF WritesStatus
<1>3. CASE Load(r)
  BY <1>1, <1>3 DEF Load, github, handler
<1>4. CASE Reconcile(r)
  <2>1. \A v \in Revisions : [memory[r] EXCEPT ![v] = "submitted"] \in [Revisions -> Status]
    BY <1>1 DEF Status
  <2> QED BY <1>1, <1>4, <2>1, WritesTypes DEF Reconcile, github
<1>5. CASE Scan(r)
  <2> DEFINE v == head[Repo(r)]  jobs == Superseded(memory[r], v)
  <2>1. v \in Revisions
    BY <1>1 DEF TypeOK
  <2>2. jobs \in [Revisions -> Status]
    BY <1>1, <2>1, SupersededTypes
  <2>3. [jobs EXCEPT ![v] = IF @ \in {"none", "stale"} THEN "pending" ELSE @] \in [Revisions -> Status]
    <3> HIDE DEF jobs, v
    <3> QED BY <2>1, <2>2 DEF Status
  <2>4. /\ \/ Writes(r, [jobs EXCEPT ![v] = IF @ \in {"none", "stale"} THEN "pending" ELSE @])
           \/ Writes(r, jobs) \/ Writes(r, memory[r])
        /\ at' = [at EXCEPT ![r] = v] \/ at' = at
        /\ UNCHANGED <<wire, posts>>
    BY <1>5 DEF Scan, github
  <2> HIDE DEF jobs, v
  <2> QED BY <1>1, <2>1, <2>2, <2>3, <2>4, WritesTypes
<1>6. CASE Lookup(r)
  BY <1>1, <1>2, <1>6 DEF Lookup, github, Status
<1>7. CASE Intend(r)
  BY <1>1, <1>2, <1>7 DEF Intend, github, Status
<1>8. CASE Send(r)
  BY <1>1, <1>8 DEF Send, engine
<1>9. CASE Answer(r)
  BY <1>1, <1>2, <1>9 DEF Answer, github, Status
<1>10. CASE Rejected(r)
  BY <1>1, <1>2, <1>10 DEF Rejected, github, Status
<1>11. CASE GiveUp(r)
  BY <1>1, <1>11 DEF GiveUp, engine, github
<1>12. CASE Fails(r)
  BY <1>1, <1>2, <1>12 DEF Fails, github, Status
<1> QED BY <1>3, <1>4, <1>5, <1>6, <1>7, <1>8, <1>9, <1>10, <1>11, <1>12 DEF Engine

LEMMA LockOrderIs ==
  ASSUME NEW r \in Runs
  PROVE  /\ DOMAIN LockOrder(r) = 1..3 /\ Len(LockOrder(r)) = 3
         /\ LockOrder(r)[1] = RepoLock(r) /\ LockOrder(r)[2] = StateLock(r) /\ LockOrder(r)[3] = DirLock(r)
  BY DEF LockOrder, RepoLock, StateLock, DirLock

LEMMA LocksDiffer ==
  ASSUME NEW r, NEW q
  PROVE  RepoLock(r) # StateLock(q) /\ RepoLock(r) # DirLock(q) /\ StateLock(r) # DirLock(q)
  BY DEF RepoLock, StateLock, DirLock

\* The lock a run takes next, by the locks it has.
LEMMA Next3 ==
  ASSUME NEW r \in Runs, HeldBy(r), stage[r] = "locking"
  PROVE  \/ held[r] = {} /\ Cardinality(held[r]) = 0
         \/ held[r] = {RepoLock(r)} /\ Cardinality(held[r]) = 1
         \/ held[r] = {RepoLock(r), StateLock(r)} /\ Cardinality(held[r]) = 2
<1>1. Cardinality({}) = 0
  BY FS_EmptySet
<1>2. IsFiniteSet({RepoLock(r)}) /\ Cardinality({RepoLock(r)}) = 1
  BY FS_Singleton
<1>3. {RepoLock(r)} \cup {StateLock(r)} = {RepoLock(r), StateLock(r)} /\ StateLock(r) \notin {RepoLock(r)}
  BY LocksDiffer
<1>4. Cardinality({RepoLock(r), StateLock(r)}) = 2
  <2>1. Cardinality({RepoLock(r)} \cup {StateLock(r)}) = Cardinality({RepoLock(r)}) + 1
    BY <1>2, <1>3, FS_AddElement
  <2>2. Cardinality({RepoLock(r)} \cup {StateLock(r)}) = 2
    BY <1>2, <2>1
  <2> QED BY <1>3, <2>2
<1> QED BY <1>1, <1>2, <1>4 DEF HeldBy

\* A lock is taken: the repository's, then the state directory's, then the
\* checkout's, and then the run works.
LEMMA LockShape ==
  ASSUME NEW r \in Runs, HeldBy(r), Lock(r)
  PROVE  \E l \in AllLocks(r), s \in {"locking", "load"} :
           /\ \A q \in Runs : l \notin held[q]
           /\ held' = [held EXCEPT ![r] = @ \cup {l}]
           /\ stage' = [stage EXCEPT ![r] = s]
           /\ \/ held[r] = {} /\ l = RepoLock(r) /\ s = "locking"
              \/ held[r] = {RepoLock(r)} /\ l = StateLock(r) /\ s = "locking"
              \/ held[r] = {RepoLock(r), StateLock(r)} /\ l = DirLock(r) /\ s = "load"
<1> DEFINE n == Cardinality(held[r])
<1>1. /\ stage[r] = "locking" /\ \A q \in Runs : LockOrder(r)[n + 1] \notin held[q]
      /\ held' = [held EXCEPT ![r] = @ \cup {LockOrder(r)[n + 1]}]
      /\ stage' = [stage EXCEPT ![r] = IF n + 1 = 3 THEN "load" ELSE "locking"]
  BY LockOrderIs DEF Lock, Missing, Taken, Goes
<1>2. stage[r] = "locking"
  BY <1>1
<1> HIDE DEF n
<1>3. CASE held[r] = {} /\ n = 0
  <2>0. n + 1 = 1 /\ n + 1 # 3
    BY <1>3
  <2>1. held' = [held EXCEPT ![r] = @ \cup {RepoLock(r)}] /\ \A q \in Runs : RepoLock(r) \notin held[q]
    BY <1>1, <2>0, LockOrderIs
  <2>2. stage' = [stage EXCEPT ![r] = "locking"]
    BY <1>1, <2>0
  <2> QED BY <1>3, <2>1, <2>2 DEF AllLocks
<1>4. CASE held[r] = {RepoLock(r)} /\ n = 1
  <2>0. n + 1 = 2 /\ n + 1 # 3
    BY <1>4
  <2>1. held' = [held EXCEPT ![r] = @ \cup {StateLock(r)}] /\ \A q \in Runs : StateLock(r) \notin held[q]
    BY <1>1, <2>0, LockOrderIs
  <2>2. stage' = [stage EXCEPT ![r] = "locking"]
    BY <1>1, <2>0
  <2> QED BY <1>4, <2>1, <2>2 DEF AllLocks
<1>5. CASE held[r] = {RepoLock(r), StateLock(r)} /\ n = 2
  <2>0. n + 1 = 3
    BY <1>5
  <2>1. held' = [held EXCEPT ![r] = @ \cup {DirLock(r)}] /\ \A q \in Runs : DirLock(r) \notin held[q]
    BY <1>1, <2>0, LockOrderIs
  <2>2. stage' = [stage EXCEPT ![r] = "load"]
    BY <1>1, <2>0
  <2> QED BY <1>5, <2>1, <2>2 DEF AllLocks
<1> QED BY <1>2, <1>3, <1>4, <1>5, Next3 DEF n

\* Somebody holds the lock that a refused run misses.
LEMMA RefuseShape ==
  ASSUME NEW r \in Runs, HeldBy(r), Refuse(r)
  PROVE  /\ stage' = [stage EXCEPT ![r] = "unlocking"] /\ outcome' = [outcome EXCEPT ![r] = "locked"]
         /\ UNCHANGED held /\ stage[r] = "locking"
         /\ \E q \in Runs :
              \/ held[r] = {} /\ RepoLock(r) \in held[q]
              \/ held[r] = {RepoLock(r)} /\ StateLock(r) \in held[q]
              \/ held[r] = {RepoLock(r), StateLock(r)} /\ DirLock(r) \in held[q]
<1>1. stage[r] = "locking" /\ \E q \in Runs : LockOrder(r)[Cardinality(held[r]) + 1] \in held[q]
  BY DEF Refuse, Missing, Taken
<1>2. PICK q \in Runs : LockOrder(r)[Cardinality(held[r]) + 1] \in held[q]
  BY <1>1
<1>3. \/ held[r] = {} /\ RepoLock(r) \in held[q]
      \/ held[r] = {RepoLock(r)} /\ StateLock(r) \in held[q]
      \/ held[r] = {RepoLock(r), StateLock(r)} /\ DirLock(r) \in held[q]
  <2>1. CASE held[r] = {} /\ Cardinality(held[r]) = 0
    BY <1>2, <2>1, LockOrderIs
  <2>2. CASE held[r] = {RepoLock(r)} /\ Cardinality(held[r]) = 1
    BY <1>2, <2>2, LockOrderIs
  <2>3. CASE held[r] = {RepoLock(r), StateLock(r)} /\ Cardinality(held[r]) = 2
    BY <1>2, <2>3, LockOrderIs
  <2> QED BY <1>1, <2>1, <2>2, <2>3, Next3
<1> QED BY <1>1, <1>3 DEF Refuse, Returns, Goes

LEMMA UnlockShape ==
  ASSUME NEW r \in Runs, Unlock(r)
  PROVE  /\ stage[r] = "unlocking" /\ UNCHANGED outcome
         /\ \/ /\ held[r] \cap AllLocks(r) = {} /\ UNCHANGED held
               /\ stage' = [stage EXCEPT ![r] = "reply"]
            \/ \E l \in AllLocks(r) : held' = [held EXCEPT ![r] = @ \ {l}] /\ UNCHANGED stage
<1> DEFINE own == {i \in DOMAIN LockOrder(r) : LockOrder(r)[i] \in held[r]}
<1>1. own = {} => held[r] \cap AllLocks(r) = {}
  BY LockOrderIs DEF AllLocks
<1>2. \A i \in own : LockOrder(r)[i] \in AllLocks(r)
  BY LockOrderIs DEF AllLocks
<1> QED BY <1>1, <1>2 DEF Unlock, Goes

-----------------------------------------------------------------------------
LEMMA TypeStep ==
  ASSUME TypeOK, LocksInv, [Next]_vars
  PROVE  TypeOK'
<1>1. CASE UNCHANGED vars
  BY <1>1 DEF vars, lifecycle, handler, engine, github, TypeOK
<1>2. ASSUME NEW r \in Runs, Engine(r) PROVE TypeOK'
  <2>1. /\ stage' \in [Runs -> {"new", "over"} \cup Active]
        /\ outcome' \in [Runs -> {"none", "ok", "error", "locked"}]
    <3>1. CASE UNCHANGED outcome /\ \E s \in Working : stage' = [stage EXCEPT ![r] = s]
      BY <3>1 DEF TypeOK, Active
    <3>2. CASE /\ stage' = [stage EXCEPT ![r] = "unlocking"]
               /\ \E o \in {"ok", "error"} : outcome' = [outcome EXCEPT ![r] = o]
      BY <3>2 DEF TypeOK, Active
    <3> QED BY <1>2, <3>1, <3>2, EngineShape
  <2>2. UNCHANGED <<service, starts, held, gone, reply, head, pushes>>
    BY <1>2, EngineShape
  <2> QED BY <1>2, <2>1, <2>2, EngineTypes DEF TypeOK
<1>3. ASSUME NEW r \in Runs, Begin(r) PROVE TypeOK'
  BY <1>3 DEF Begin, Goes, lifecycle, handler, engine, github, TypeOK, Active
<1>4. ASSUME NEW r \in Runs, Lock(r) PROVE TypeOK'
  <2>1. HeldBy(r)
    BY DEF LocksInv
  <2>2. PICK l \in AllLocks(r), s \in {"locking", "load"} :
          held' = [held EXCEPT ![r] = @ \cup {l}] /\ stage' = [stage EXCEPT ![r] = s]
    BY <1>4, <2>1, LockShape
  <2>3. l \in Locks
    BY RunTypes
  <2>4. held' \in [Runs -> SUBSET Locks] /\ stage' \in [Runs -> {"new", "over"} \cup Active]
    BY <2>2, <2>3 DEF TypeOK, Active, Working, Fallible
  <2> QED BY <1>4, <2>4 DEF Lock, lifecycle, engine, github, TypeOK
<1>5. ASSUME NEW r \in Runs, Refuse(r) PROVE TypeOK'
  BY <1>5 DEF Refuse, Returns, Goes, lifecycle, engine, github, TypeOK, Active
<1>6. ASSUME NEW r \in Runs, Unlock(r) PROVE TypeOK'
  <2>1. held' \in [Runs -> SUBSET Locks] /\ stage' \in [Runs -> {"new", "over"} \cup Active]
    <3>1. CASE UNCHANGED held /\ stage' = [stage EXCEPT ![r] = "reply"]
      BY <3>1 DEF TypeOK, Active
    <3>2. CASE \E l \in AllLocks(r) : held' = [held EXCEPT ![r] = @ \ {l}] /\ UNCHANGED stage
      BY <3>2 DEF TypeOK
    <3> QED BY <1>6, <3>1, <3>2, UnlockShape
  <2> QED BY <1>6, <2>1 DEF Unlock, lifecycle, engine, github, TypeOK
<1>7. ASSUME NEW r \in Runs, Reply(r) PROVE TypeOK'
  <2>1. reply' \in [Runs -> {"none", "certified", "uncertified", "error", "canceled"}]
    BY <1>7 DEF Reply, TypeOK
  <2> QED BY <1>7, <2>1 DEF Reply, Goes, lifecycle, engine, github, TypeOK
<1>8. ASSUME NEW r \in Runs, Disconnect(r) PROVE TypeOK'
  BY <1>8 DEF Disconnect, lifecycle, engine, github, TypeOK
<1>9. CASE Shutdown \/ Drained
  BY <1>9 DEF Shutdown, Drained, handler, engine, github, TypeOK
<1>10. CASE Expire
  BY <1>10 DEF Expire, engine, github, TypeOK
<1>11. CASE StartAgain
  BY <1>11, BoundAssumption DEF StartAgain, handler, engine, github, TypeOK
<1>12. ASSUME NEW p \in Repos, NEW v \in Revisions, Deliver(p, v) PROVE TypeOK'
  <2>1. wire[p][v] - 1 \in Nat /\ posts[p][v] + 1 \in Nat
    BY <1>12 DEF Deliver, TypeOK
  <2>2. wire' \in [Repos -> [Revisions -> Nat]] /\ posts' \in [Repos -> [Revisions -> Nat]]
    BY <1>12, <2>1 DEF Deliver, TypeOK
  <2> QED BY <1>12, <2>2 DEF Deliver, lifecycle, handler, engine, TypeOK
<1>14. ASSUME NEW p \in Repos, NEW v \in Revisions, Decline(p, v) PROVE TypeOK'
  <2>1. wire[p][v] - 1 \in Nat
    BY <1>14 DEF Decline, TypeOK
  <2>2. wire' \in [Repos -> [Revisions -> Nat]]
    BY <1>14, <2>1 DEF Decline, TypeOK
  <2> QED BY <1>14, <2>2 DEF Decline, lifecycle, handler, engine, TypeOK
<1>13. ASSUME NEW p \in Repos, NEW v \in Revisions, Push(p, v) PROVE TypeOK'
  BY <1>13, BoundAssumption DEF Push, lifecycle, handler, engine, TypeOK
<1> QED BY <1>1, <1>2, <1>3, <1>4, <1>5, <1>6, <1>7, <1>8, <1>9, <1>10, <1>11, <1>12, <1>13,
           <1>14 DEF Next, Handle, Engine

\* A run that keeps some of its locks disturbs no other one.
LEMMA LocksKept ==
  ASSUME LocksInv, NEW r \in Runs, held'[r] \subseteq held[r], HeldBy(r)',
         \A q \in Runs \ {r} : held'[q] = held[q] /\ stage'[q] = stage[q] /\ outcome'[q] = outcome[q]
  PROVE  LocksInv'
<1>1. \A q \in Runs \ {r} : HeldBy(q)'
  BY DEF LocksInv, HeldBy
<1>2. \A p, q \in Runs : p # q => held'[p] \cap held'[q] = {}
  BY DEF LocksInv
<1> QED BY <1>1, <1>2 DEF LocksInv

LEMMA InitLocks == Init => LocksInv /\ RefusedInv
  BY DEF Init, LocksInv, HeldBy, RefusedInv, Working, Fallible

\* Only the locks, the stages and the outcomes matter here.
LEMMA LocksStep ==
  ASSUME TypeOK, LocksInv, [Next]_vars
  PROVE  LocksInv'
<1> USE DEF Working, Fallible
<1>1. CASE UNCHANGED <<held, stage, outcome>>
  BY <1>1 DEF LocksInv, HeldBy
<1>2. ASSUME NEW r \in Runs, Engine(r) PROVE LocksInv'
  <2>1. UNCHANGED held /\ stage[r] \in Working /\ HeldBy(r) /\ outcome[r] # "locked"
    BY <1>2, EngineShape DEF LocksInv, HeldBy
  <2>2. /\ \A q \in Runs \ {r} : stage'[q] = stage[q] /\ outcome'[q] = outcome[q]
        /\ stage'[r] \in Working \cup {"unlocking"} /\ outcome'[r] # "locked"
    <3>1. CASE UNCHANGED outcome /\ \E s \in Working : stage' = [stage EXCEPT ![r] = s]
      BY <2>1, <3>1 DEF TypeOK
    <3>2. CASE /\ stage' = [stage EXCEPT ![r] = "unlocking"]
               /\ \E o \in {"ok", "error"} : outcome' = [outcome EXCEPT ![r] = o]
      BY <2>1, <3>2 DEF TypeOK
    <3> QED BY <1>2, <3>1, <3>2, EngineShape
  <2>3. held[r] = AllLocks(r)
    BY <2>1 DEF HeldBy
  <2>4. HeldBy(r)'
    BY <2>1, <2>2, <2>3 DEF HeldBy
  <2> QED BY <2>1, <2>2, <2>4, LocksKept
<1>3. ASSUME NEW r \in Runs, Begin(r) PROVE LocksInv'
  BY <1>3 DEF Begin, Goes, handler, LocksInv, HeldBy, TypeOK
<1>4. ASSUME NEW r \in Runs, Lock(r) PROVE LocksInv'
  <2>1. HeldBy(r) /\ stage[r] = "locking" /\ UNCHANGED outcome
    BY <1>4 DEF LocksInv, Lock
  <2>2. PICK l \in AllLocks(r), s \in {"locking", "load"} :
           /\ \A q \in Runs : l \notin held[q]
           /\ held' = [held EXCEPT ![r] = @ \cup {l}]
           /\ stage' = [stage EXCEPT ![r] = s]
           /\ \/ held[r] = {} /\ l = RepoLock(r) /\ s = "locking"
              \/ held[r] = {RepoLock(r)} /\ l = StateLock(r) /\ s = "locking"
              \/ held[r] = {RepoLock(r), StateLock(r)} /\ l = DirLock(r) /\ s = "load"
    BY <1>4, <2>1, LockShape
  <2>3. held'[r] = held[r] \cup {l} /\ stage'[r] = s /\ \A q \in Runs \ {r} : held'[q] = held[q] /\ stage'[q] = stage[q]
    BY <2>2 DEF TypeOK
  <2>4. HeldBy(r)'
    BY <2>1, <2>2, <2>3 DEF HeldBy, AllLocks
  <2>5. \A q \in Runs \ {r} : HeldBy(q)'
    BY <2>1, <2>3 DEF LocksInv, HeldBy
  <2>6. \A p, q \in Runs : p # q => held'[p] \cap held'[q] = {}
    BY <2>2, <2>3 DEF LocksInv
  <2> QED BY <2>4, <2>5, <2>6 DEF LocksInv
<1>5. ASSUME NEW r \in Runs, Refuse(r) PROVE LocksInv'
  <2>1. HeldBy(r)
    BY DEF LocksInv
  <2>2. /\ stage' = [stage EXCEPT ![r] = "unlocking"] /\ outcome' = [outcome EXCEPT ![r] = "locked"]
        /\ UNCHANGED held /\ stage[r] = "locking"
    BY <1>5, <2>1, RefuseShape
  <2>3. held[r] \subseteq AllLocks(r) /\ DirLock(r) \notin held[r]
    BY <2>1, <2>2, LocksDiffer DEF HeldBy, AllLocks
  <2>4. stage'[r] = "unlocking" /\ outcome'[r] = "locked"
    BY <2>2 DEF TypeOK
  <2>5. HeldBy(r)'
    BY <2>2, <2>3, <2>4 DEF HeldBy
  <2>6. \A q \in Runs \ {r} : held'[q] = held[q] /\ stage'[q] = stage[q] /\ outcome'[q] = outcome[q]
    BY <2>2 DEF TypeOK
  <2> QED BY <2>2, <2>5, <2>6, LocksKept
<1>6. ASSUME NEW r \in Runs, Unlock(r) PROVE LocksInv'
  <2>1. HeldBy(r) /\ stage[r] = "unlocking" /\ UNCHANGED outcome /\ held[r] \subseteq AllLocks(r)
    BY <1>6, UnlockShape DEF LocksInv, HeldBy
  <2>2. /\ held'[r] \subseteq held[r]
        /\ stage'[r] = "unlocking" \/ (stage'[r] = "reply" /\ held'[r] = {})
        /\ \A q \in Runs \ {r} : held'[q] = held[q] /\ stage'[q] = stage[q]
    <3>1. CASE held[r] \cap AllLocks(r) = {} /\ UNCHANGED held /\ stage' = [stage EXCEPT ![r] = "reply"]
      BY <2>1, <3>1 DEF TypeOK
    <3>2. CASE \E l \in AllLocks(r) : held' = [held EXCEPT ![r] = @ \ {l}] /\ UNCHANGED stage
      BY <2>1, <3>2 DEF TypeOK
    <3> QED BY <1>6, <3>1, <3>2, UnlockShape
  <2>3. HeldBy(r)'
    BY <2>1, <2>2 DEF HeldBy
  <2> QED BY <2>1, <2>2, <2>3, LocksKept
<1>7. ASSUME NEW r \in Runs, Reply(r) PROVE LocksInv'
  BY <1>7 DEF Reply, Goes, LocksInv, HeldBy, TypeOK
<1>8. CASE Expire
  <2>1. \A r \in Runs : held'[r] = {} /\ outcome'[r] = outcome[r] /\ stage'[r] \in {"new", "over"}
    BY <1>8 DEF Expire, TypeOK
  <2>2. \A r \in Runs : outcome[r] = "locked" => stage'[r] = "over"
    BY <1>8 DEF Expire, TypeOK, LocksInv, HeldBy, Active
  <2> QED BY <2>1, <2>2 DEF LocksInv, HeldBy
<1>9. CASE Shutdown \/ Drained \/ StartAgain \/ \E r \in Runs : Disconnect(r)
  BY <1>1, <1>9 DEF Shutdown, Drained, StartAgain, Disconnect, handler
<1>10. CASE \E p \in Repos, v \in Revisions : Deliver(p, v) \/ Decline(p, v) \/ Push(p, v)
  BY <1>1, <1>10 DEF Deliver, Decline, Push, handler
<1>11. CASE UNCHANGED vars
  BY <1>1, <1>11 DEF vars, handler
<1> QED BY <1>2, <1>3, <1>4, <1>5, <1>6, <1>7, <1>8, <1>9, <1>10, <1>11 DEF Next, Handle, Engine

\* Who holds what a refused run misses is past its locks, ahead, or was
\* refused itself at the last lock.
LEMMA RefusedStep ==
  ASSUME TypeOK, LocksInv, RefusedInv, [Next]_vars
  PROVE  RefusedInv'
<1> USE DEF Working, Fallible
<1>1. CASE UNCHANGED <<held, stage, outcome>>
  BY <1>1 DEF RefusedInv, Past, Ahead
<1>2. ASSUME \A q \in Runs : outcome[q] = "locked" <=> outcome'[q] = "locked",
             \A q \in Runs : outcome[q] = "locked" => held'[q] \subseteq held[q],
             \A q \in Runs : Past(q) => Past(q)',
             \A q \in Runs : Ahead(q) => Ahead(q)' \/ Past(q)'
      PROVE  RefusedInv'
  BY <1>2 DEF RefusedInv
<1>3. ASSUME NEW r \in Runs, NEW s \in {"new", "over"} \cup Active,
             stage' = [stage EXCEPT ![r] = s], UNCHANGED held,
             (outcome'[r] # "locked" /\ outcome[r] # "locked") \/ UNCHANGED outcome,
             \A q \in Runs \ {r} : outcome'[q] = outcome[q],
             stage[r] # "locking", s \notin {"new", "locking"} \/ stage[r] = "new"
      PROVE  RefusedInv'
  <2>1. \A q \in Runs \ {r} : stage'[q] = stage[q] /\ outcome'[q] = outcome[q]
    BY <1>3
  <2>2. stage'[r] = s /\ (outcome[r] = "locked" <=> outcome'[r] = "locked")
    BY <1>3 DEF TypeOK
  <2>3. \A q \in Runs : Past(q) => Past(q)'
    BY <1>3, <2>1, <2>2 DEF Past
  <2>4. \A q \in Runs : Ahead(q) => Ahead(q)'
    BY <1>3, <2>1, <2>2 DEF Ahead
  <2> QED BY <1>2, <1>3, <2>1, <2>2, <2>3, <2>4
<1>4. ASSUME NEW r \in Runs, Engine(r) PROVE RefusedInv'
  <2>1. UNCHANGED held /\ stage[r] \in Working /\ outcome[r] # "locked"
    BY <1>4, EngineShape DEF LocksInv, HeldBy
  <2>2. CASE UNCHANGED outcome /\ \E s \in Working : stage' = [stage EXCEPT ![r] = s]
    BY <1>3, <2>1, <2>2 DEF Active
  <2>3. CASE /\ stage' = [stage EXCEPT ![r] = "unlocking"]
             /\ \E o \in {"ok", "error"} : outcome' = [outcome EXCEPT ![r] = o]
    <3>1. outcome'[r] # "locked" /\ \A q \in Runs \ {r} : outcome'[q] = outcome[q]
      BY <2>3 DEF TypeOK
    <3> QED BY <1>3, <2>1, <2>3, <3>1 DEF Active
  <2> QED BY <1>4, <2>2, <2>3, EngineShape
<1>5. ASSUME NEW r \in Runs, Begin(r) PROVE RefusedInv'
  <2>1. stage[r] = "new" /\ stage' = [stage EXCEPT ![r] = "locking"] /\ UNCHANGED <<held, outcome>>
    BY <1>5 DEF Begin, Goes, handler
  <2> QED BY <1>3, <2>1 DEF Active
<1>6. ASSUME NEW r \in Runs, Reply(r) PROVE RefusedInv'
  <2>1. stage[r] = "reply" /\ stage' = [stage EXCEPT ![r] = "over"] /\ UNCHANGED <<held, outcome>>
    BY <1>6 DEF Reply, Goes
  <2> QED BY <1>3, <2>1
<1>7. ASSUME NEW r \in Runs, Unlock(r) PROVE RefusedInv'
  <2>1. HeldBy(r) /\ stage[r] = "unlocking" /\ UNCHANGED outcome
    BY <1>7, UnlockShape DEF LocksInv
  <2>2. CASE UNCHANGED held /\ stage' = [stage EXCEPT ![r] = "reply"]
    BY <1>3, <2>1, <2>2 DEF Active
  <2>3. CASE \E l \in AllLocks(r) : held' = [held EXCEPT ![r] = @ \ {l}] /\ UNCHANGED stage
    <3>1. held'[r] \subseteq held[r] /\ \A q \in Runs \ {r} : held'[q] = held[q]
      BY <2>3 DEF TypeOK
    <3>2. \A q \in Runs : (Past(q) => Past(q)') /\ (Ahead(q) => Ahead(q)')
      BY <2>1, <2>3, <3>1 DEF Past, Ahead
    <3> QED BY <1>2, <2>1, <3>1, <3>2
  <2> QED BY <1>7, <2>2, <2>3, UnlockShape
<1>8. ASSUME NEW r \in Runs, Lock(r) PROVE RefusedInv'
  <2>1. HeldBy(r) /\ stage[r] = "locking" /\ UNCHANGED outcome /\ outcome[r] # "locked"
    BY <1>8 DEF LocksInv, Lock, HeldBy
  <2>2. PICK l \in AllLocks(r), s \in {"locking", "load"} :
          held' = [held EXCEPT ![r] = @ \cup {l}] /\ stage' = [stage EXCEPT ![r] = s]
    BY <1>8, <2>1, LockShape
  <2>3. held'[r] = held[r] \cup {l} /\ stage'[r] = s /\ \A q \in Runs \ {r} : held'[q] = held[q] /\ stage'[q] = stage[q]
    BY <2>2 DEF TypeOK
  <2>4. \A q \in Runs : Past(q) => Past(q)'
    BY <2>1, <2>3 DEF Past
  <2>5. \A q \in Runs : Ahead(q) => Ahead(q)' \/ Past(q)'
    <3>1. \A q \in Runs \ {r} : Ahead(q) => Ahead(q)'
      BY <2>3 DEF Ahead
    <3>2. Ahead(r)' \/ Past(r)'
      BY <2>1, <2>3 DEF Ahead, Past
    <3> QED BY <3>1, <3>2
  <2> QED BY <1>2, <2>1, <2>3, <2>4, <2>5
<1>9. ASSUME NEW r \in Runs, Refuse(r) PROVE RefusedInv'
  <2>1. HeldBy(r)
    BY DEF LocksInv
  <2>2. /\ stage' = [stage EXCEPT ![r] = "unlocking"] /\ outcome' = [outcome EXCEPT ![r] = "locked"]
        /\ UNCHANGED held /\ stage[r] = "locking"
    BY <1>9, <2>1, RefuseShape
  <2>3. PICK q \in Runs :
          \/ held[r] = {} /\ RepoLock(r) \in held[q]
          \/ held[r] = {RepoLock(r)} /\ StateLock(r) \in held[q]
          \/ held[r] = {RepoLock(r), StateLock(r)} /\ DirLock(r) \in held[q]
    BY <1>9, <2>1, RefuseShape
  <2>4. \A p \in Runs \ {r} : stage'[p] = stage[p] /\ outcome'[p] = outcome[p]
    BY <2>2
  <2>5. stage'[r] = "unlocking" /\ outcome'[r] = "locked" /\ held'[r] = held[r]
    BY <2>2 DEF TypeOK
  <2>6. r # q
    <3>1. CASE held[r] = {}
      BY <2>3, <3>1, LocksDiffer
    <3>2. CASE held[r] = {RepoLock(r)}
      BY <2>3, <3>2, LocksDiffer
    <3>3. CASE held[r] = {RepoLock(r), StateLock(r)}
      BY <2>3, <3>3, LocksDiffer
    <3> QED BY <2>3, <3>1, <3>2, <3>3
  <2>7. HeldBy(q) /\ held[q] # {}
    BY <2>3 DEF LocksInv
  <2>8. \A p \in Runs : Past(p) => Past(p)'
    BY <2>2, <2>4 DEF Past
  <2>9. \A p \in Runs \ {r} : Ahead(p) => Ahead(p)'
    BY <2>2, <2>4 DEF Ahead
  <2>10. stage[q] \notin {"new", "reply", "over"}
    BY <2>7 DEF HeldBy
  <2>11. outcome[q] # "locked" => Past(q) \/ Ahead(q)
    BY <2>7, <2>10 DEF Past, Ahead
  <2>12. CASE outcome[q] # "locked" /\ Past(q)
    BY <2>8, <2>12 DEF RefusedInv
  <2>13. CASE outcome[q] # "locked" /\ Ahead(q)
    <3>1. DirLock(r) \notin held[q] /\ stage[q] = "locking"
      <4>1. held[q] \in {{}, {RepoLock(q)}, {RepoLock(q), StateLock(q)}}
        BY <2>7, <2>13 DEF HeldBy, Ahead
      <4> QED BY <4>1, <2>13, LocksDiffer DEF Ahead
    <3>2. held[r] # {RepoLock(r), StateLock(r)}
      BY <2>3, <3>1, LocksDiffer
    <3>3. StateLock(r) \notin held[r]
      BY <2>3, <3>2, LocksDiffer
    <3>4. Ahead(q)'
      BY <2>6, <2>9, <2>13
    <3>5. \A p \in Runs : outcome'[p] = "locked" => \E x \in Runs : Past(x)' \/ Ahead(x)'
      BY <3>4
    <3>6. \A p \in Runs : outcome'[p] = "locked" /\ StateLock(p) \in held'[p] => \E x \in Runs : Past(x)'
      BY <2>2, <2>4, <2>5, <2>8, <3>3 DEF RefusedInv
    <3> QED BY <3>5, <3>6 DEF RefusedInv
  <2>14. CASE outcome[q] = "locked"
    <3>1. held[q] \subseteq AllLocks(q) /\ DirLock(q) \notin held[q] /\ stage[q] = "unlocking"
      BY <2>7, <2>10, <2>14 DEF HeldBy
    <3>2. DirLock(r) \notin held[q]
      <4>1. DirLock(r) \in held[q] => DirLock(r) = DirLock(q)
        BY <3>1, LocksDiffer DEF AllLocks
      <4> QED BY <3>1, <4>1
    <3>3. CASE held[r] = {}
      <4>1. \E x \in Runs : Past(x) \/ Ahead(x)
        BY <2>14 DEF RefusedInv
      <4>2. ~Ahead(r)
        BY <3>3 DEF Ahead
      <4>3. \E x \in Runs : Past(x)' \/ Ahead(x)'
        BY <2>8, <2>9, <4>1, <4>2
      <4>4. \A p \in Runs : outcome'[p] = "locked" /\ StateLock(p) \in held'[p] => \E x \in Runs : Past(x)'
        BY <2>2, <2>4, <2>5, <2>8, <3>3 DEF RefusedInv
      <4> QED BY <4>3, <4>4 DEF RefusedInv
    <3>4. CASE held[r] = {RepoLock(r)} /\ StateLock(r) \in held[q]
      <4>1. StateLock(r) = StateLock(q)
        BY <3>1, <3>4, LocksDiffer DEF AllLocks
      <4>2. \E x \in Runs : Past(x)
        BY <2>14, <3>4, <4>1 DEF RefusedInv
      <4> QED BY <2>8, <4>2 DEF RefusedInv
    <3> QED BY <2>3, <3>2, <3>3, <3>4
  <2> QED BY <2>11, <2>12, <2>13, <2>14
<1>10. CASE Expire
  <2>1. \A q \in Runs : outcome'[q] = outcome[q]
    BY <1>10 DEF Expire
  <2>2. \A q \in Runs : held'[q] = {} /\ stage'[q] = IF stage[q] \in Active THEN "over" ELSE stage[q]
    BY <1>10 DEF Expire
  <2>3. \A q \in Runs : Past(q) => Past(q)'
    BY <2>1, <2>2 DEF Past
  <2>4. \A q \in Runs : Ahead(q) => Past(q)'
    <3>1. \A q \in Runs : Ahead(q) => outcome[q] # "locked"
      BY DEF Ahead, LocksInv, HeldBy
    <3> QED BY <2>1, <2>2, <3>1 DEF Past, Ahead, Active
  <2> QED BY <1>2, <2>1, <2>2, <2>3, <2>4
<1>11. CASE Shutdown \/ Drained \/ StartAgain \/ \E r \in Runs : Disconnect(r)
  BY <1>1, <1>11 DEF Shutdown, Drained, StartAgain, Disconnect, handler
<1>12. CASE \E p \in Repos, v \in Revisions : Deliver(p, v) \/ Decline(p, v) \/ Push(p, v)
  BY <1>1, <1>12 DEF Deliver, Decline, Push, handler
<1>13. CASE UNCHANGED vars
  BY <1>1, <1>13 DEF vars, handler
<1> QED BY <1>4, <1>5, <1>6, <1>7, <1>8, <1>9, <1>10, <1>11, <1>12, <1>13 DEF Next, Handle, Engine

-----------------------------------------------------------------------------
\* A run that works holds three locks, and nobody else has them.
LEMMA LocksExclude == LocksInv => Exclusive
<1> SUFFICES ASSUME LocksInv, NEW r \in Runs, NEW q \in Runs, r # q,
                    stage[r] \in Working, stage[q] \in Working
             PROVE  Task[r].repo # Task[q].repo /\ Task[r].state # Task[q].state /\ Task[r].dir # Task[q].dir
  BY DEF Exclusive
<1>1. held[r] = AllLocks(r) /\ held[q] = AllLocks(q) /\ held[r] \cap held[q] = {}
  BY DEF LocksInv, HeldBy
<1>2. RepoLock(r) # RepoLock(q) /\ StateLock(r) # StateLock(q) /\ DirLock(r) # DirLock(q)
  BY <1>1 DEF AllLocks
<1> QED BY <1>2 DEF RepoLock, StateLock, DirLock

\* A run at work has the three locks of its order; one that answers has none.
LEMMA LocksFit == LocksInv => LocksReturned
<1> SUFFICES ASSUME LocksInv, NEW r \in Runs
             PROVE  /\ stage[r] \in Working => {LockOrder(r)[i] : i \in DOMAIN LockOrder(r)} \subseteq held[r]
                    /\ stage[r] \in {"reply", "over"} => held[r] = {}
  BY DEF LocksReturned
<1>1. {LockOrder(r)[i] : i \in DOMAIN LockOrder(r)} \subseteq AllLocks(r)
  BY DEF LockOrder, AllLocks, RepoLock, StateLock, DirLock
<1> QED BY <1>1 DEF LocksInv, HeldBy

LEMMA SomebodyWorks == RefusedInv /\ LocksInv => NotAllRefused
<1>1. ASSUME NEW q \in Runs, Past(q) \/ Ahead(q), LocksInv PROVE outcome[q] # "locked"
  BY <1>1 DEF Past, Ahead, LocksInv, HeldBy
<1> QED BY <1>1, RunsAssumption DEF RefusedInv, NotAllRefused

-----------------------------------------------------------------------------
(***************************************************************************)
(* Jobs.                                                                   *)
(***************************************************************************)

\* What a run that works has in memory is in its file.
JobOf(r) ==
  /\ stage[r] \in Working \ {"load"} => memory[r] = file[Task[r].state]
  /\ stage[r] = "lookup" => memory[r][at[r]] \in {"pending", "failed"}
  /\ stage[r] = "attempt" => memory[r][at[r]] = "pending"
  /\ stage[r] \in {"send", "await"} => memory[r][at[r]] = "posting"

JobsInv == \A r \in Runs : JobOf(r)

LEMMA InitJobs == Init => JobsInv
  BY DEF Init, JobsInv, JobOf, Working, Fallible

\* What the engine of a run writes disturbs no other run that works.
LEMMA JobsFrame ==
  ASSUME TypeOK, JobsInv, Exclusive, NEW r \in Runs, stage[r] \in Working, JobOf(r)',
         \A q \in Runs \ {r} : memory'[q] = memory[q] /\ at'[q] = at[q] /\ stage'[q] = stage[q],
         \A f \in States \ {Task[r].state} : file'[f] = file[f]
  PROVE  JobsInv'
<1> SUFFICES ASSUME NEW q \in Runs \ {r} PROVE JobOf(q)'
  BY DEF JobsInv
<1>1. memory'[q] = memory[q] /\ at'[q] = at[q] /\ stage'[q] = stage[q] /\ JobOf(q)
  BY DEF JobsInv
<1>2. stage[q] \in Working => Task[q].state \in States \ {Task[r].state}
  BY RunTypes DEF Exclusive
<1> QED BY <1>1, <1>2 DEF JobOf, Working, Fallible

\* The engine of a run: what it writes, and what it leaves alone.
LEMMA EngineWrites ==
  ASSUME TypeOK, JobsInv, NEW r \in Runs, Engine(r)
  PROVE  /\ \A q \in Runs \ {r} : memory'[q] = memory[q] /\ at'[q] = at[q] /\ stage'[q] = stage[q]
         /\ \A f \in States \ {Task[r].state} : file'[f] = file[f]
         /\ UNCHANGED posts
         /\ \A p \in Repos \ {Repo(r)} : wire'[p] = wire[p]
         /\ JobOf(r)'
<1> DEFINE f == Task[r].state
<1>1. /\ memory \in [Runs -> [Revisions -> Status]] /\ memory[r] \in [Revisions -> Status]
      /\ file \in [States -> [Revisions -> Status]] /\ f \in States
      /\ at \in [Runs -> Revisions] /\ at[r] \in Revisions
      /\ stage \in [Runs -> {"new", "over"} \cup Active]
      /\ wire \in [Repos -> [Revisions -> Nat]]
  BY RunTypes DEF TypeOK
<1> HIDE DEF f
<1>2. \A q \in Runs \ {r} : stage'[q] = stage[q]
  BY <1>1, EngineShape
<1>3. ASSUME NEW jobs, Writes(r, jobs)
      PROVE  /\ memory'[r] = jobs /\ file'[f] = jobs
             /\ \A q \in Runs \ {r} : memory'[q] = memory[q]
             /\ \A g \in States \ {f} : file'[g] = file[g]
  BY <1>1, <1>3 DEF Writes, f
<1>4. ASSUME NEW s, WritesStatus(r, s)
      PROVE  /\ memory'[r] = [memory[r] EXCEPT ![at[r]] = s] /\ file'[f] = memory'[r]
             /\ memory'[r][at[r]] = s
             /\ \A q \in Runs \ {r} : memory'[q] = memory[q]
             /\ \A g \in States \ {f} : file'[g] = file[g]
  <2> DEFINE jobs == [memory[r] EXCEPT ![at[r]] = s]
  <2>1. Writes(r, jobs) /\ jobs[at[r]] = s
    BY <1>1, <1>4 DEF WritesStatus
  <2> HIDE DEF jobs
  <2>2. /\ memory'[r] = jobs /\ file'[f] = jobs
        /\ \A q \in Runs \ {r} : memory'[q] = memory[q]
        /\ \A g \in States \ {f} : file'[g] = file[g]
    BY <1>3, <2>1
  <2> QED BY <2>1, <2>2 DEF jobs
<1> USE DEF Working, Fallible
<1>5. CASE Load(r)
  <2>1. memory'[r] = file[f] /\ stage'[r] = "reconcile" /\ \A q \in Runs \ {r} : memory'[q] = memory[q]
    BY <1>1, <1>5 DEF Load, Goes, f
  <2> QED BY <1>2, <1>5, <2>1 DEF Load, github, JobOf, f
<1>6. CASE Reconcile(r)
  <2>1. stage[r] = "reconcile" /\ stage'[r] = "scan" /\ UNCHANGED <<at, wire, posts>>
    BY <1>1, <1>6 DEF Reconcile, Goes, github
  <2>2. CASE UNCHANGED <<memory, file>>
    BY <1>2, <2>1, <2>2 DEF JobsInv, JobOf, f
  <2>3. CASE \E v \in Revisions : Writes(r, [memory[r] EXCEPT ![v] = "submitted"])
    <3>1. PICK v \in Revisions : Writes(r, [memory[r] EXCEPT ![v] = "submitted"])
      BY <2>3
    <3>2. memory'[r] = file'[f]
      BY <1>3, <3>1
    <3> QED BY <1>2, <1>3, <2>1, <3>1, <3>2 DEF JobOf, f
  <2> QED BY <1>6, <2>2, <2>3 DEF Reconcile
<1>7. CASE Scan(r)
  <2> DEFINE v == head[Repo(r)]  jobs == Superseded(memory[r], v)
             opened == [jobs EXCEPT ![v] = IF @ \in {"none", "stale"} THEN "pending" ELSE @]
  <2>1. v \in Revisions
    BY RunTypes DEF TypeOK
  <2>2. UNCHANGED <<wire, posts>>
    BY <1>7 DEF Scan, github
  <2>3. CASE /\ memory[r][v] # "submitted" /\ memory[r][v] # "posting"
             /\ at' = [at EXCEPT ![r] = v] /\ Writes(r, opened) /\ Goes(r, "lookup")
    <3>1. at'[r] = v /\ stage'[r] = "lookup" /\ \A q \in Runs \ {r} : at'[q] = at[q]
      BY <1>1, <2>3 DEF Goes
    <3>2. opened[v] \in {"pending", "failed"}
      <4>1. jobs[v] = memory[r][v] /\ jobs \in [Revisions -> Status]
        BY <1>1, <2>1, SupersededTypes DEF Superseded
      <4> HIDE DEF jobs, v
      <4> QED BY <1>1, <2>1, <2>3, <4>1 DEF Status
    <3> HIDE DEF opened, jobs, v
    <3>3. memory'[r] = opened /\ file'[f] = opened
      BY <1>3, <2>3
    <3> QED BY <1>2, <1>3, <2>2, <2>3, <3>1, <3>2, <3>3 DEF JobOf, f
  <2>4. CASE UNCHANGED at /\ stage' = [stage EXCEPT ![r] = "unlocking"] /\ (Writes(r, jobs) \/ Writes(r, memory[r]))
    <3>1. stage'[r] = "unlocking"
      BY <1>1, <2>4
    <3> HIDE DEF opened, jobs, v
    <3> QED BY <1>2, <1>3, <2>2, <2>4, <3>1 DEF JobOf, f
  <2>5. \/ /\ \A u \in Revisions : memory[r][u] # "posting"
           /\ memory[r][v] # "submitted"
           /\ at' = [at EXCEPT ![r] = v] /\ Writes(r, opened) /\ Goes(r, "lookup")
        \/ UNCHANGED at /\ stage' = [stage EXCEPT ![r] = "unlocking"] /\ (Writes(r, jobs) \/ Writes(r, memory[r]))
    BY <1>7 DEF Scan, Returns, Goes
  <2> HIDE DEF opened, jobs, v
  <2> QED BY <2>1, <2>3, <2>4, <2>5
<1>8. CASE Lookup(r)
  <2>1. UNCHANGED <<at, wire, posts>>
    BY <1>8 DEF Lookup, github
  <2>2. \/ WritesStatus(r, "pending") /\ stage' = [stage EXCEPT ![r] = "attempt"]
        \/ WritesStatus(r, "submitted") /\ stage' = [stage EXCEPT ![r] = "unlocking"]
    BY <1>8 DEF Lookup, Goes, Returns
  <2> QED BY <1>1, <1>2, <1>4, <2>1, <2>2 DEF JobOf, f
<1>9. CASE Intend(r)
  <2>1. UNCHANGED <<at, wire, posts>>
    BY <1>9 DEF Intend, github
  <2>2. \/ WritesStatus(r, "posting") /\ stage' = [stage EXCEPT ![r] = "send"]
        \/ WritesStatus(r, "stale") /\ stage' = [stage EXCEPT ![r] = "unlocking"]
    BY <1>9 DEF Intend, Goes, Returns
  <2> QED BY <1>1, <1>2, <1>4, <2>1, <2>2 DEF JobOf, f
<1>10. CASE Send(r)
  <2>1. /\ stage[r] = "send" /\ stage'[r] = "await" /\ UNCHANGED <<memory, at, file, posts>>
        /\ \A p \in Repos \ {Repo(r)} : wire'[p] = wire[p]
    BY <1>1, <1>10 DEF Send, Goes, engine
  <2> QED BY <1>2, <2>1 DEF JobsInv, JobOf
<1>11. CASE Answer(r)
  <2>1. UNCHANGED <<at, wire, posts>> /\ WritesStatus(r, "submitted") /\ stage'[r] = "unlocking"
    BY <1>1, <1>11 DEF Answer, github, Goes, Returns
  <2> QED BY <1>2, <1>4, <2>1 DEF JobOf, f
<1>12. CASE Rejected(r)
  <2>1. UNCHANGED <<at, wire, posts>> /\ WritesStatus(r, "failed") /\ stage'[r] = "unlocking"
    BY <1>1, <1>12 DEF Rejected, github, Goes, Returns
  <2> QED BY <1>2, <1>4, <2>1 DEF JobOf, f
<1>13. CASE GiveUp(r)
  <2>1. UNCHANGED <<memory, at, file, posts, wire>> /\ stage'[r] = "unlocking"
    BY <1>1, <1>13 DEF GiveUp, engine, github, Goes, Returns
  <2> QED BY <1>2, <2>1 DEF JobOf
<1>14. CASE Fails(r)
  <2>1. UNCHANGED <<at, posts, wire>> /\ stage'[r] = "unlocking"
    BY <1>1, <1>14 DEF Fails, github, Goes, Returns
  <2>2. WritesStatus(r, "failed") \/ UNCHANGED <<memory, file>>
    BY <1>14 DEF Fails
  <2> QED BY <1>2, <1>4, <2>1, <2>2 DEF JobOf, f
<1> QED BY <1>5, <1>6, <1>7, <1>8, <1>9, <1>10, <1>11, <1>12, <1>13, <1>14 DEF Engine

\* Outside of the engines nothing is written.
LEMMA OtherSteps ==
  ASSUME TypeOK, LocksInv, [Next]_vars, \A r \in Runs : ~Engine(r)
  PROVE  /\ UNCHANGED <<memory, at, file>>
         /\ \A r \in Runs : \/ stage'[r] = stage[r]
                            \/ stage'[r] \in {"locking", "load", "unlocking", "reply", "over"}
<1>1. CASE UNCHANGED vars
  BY <1>1 DEF vars, engine
<1>2. ASSUME NEW r \in Runs, Lock(r)
      PROVE  /\ UNCHANGED <<memory, at, file>>
             /\ \A q \in Runs : stage'[q] = stage[q] \/ stage'[q] \in {"locking", "load"}
  <2>1. HeldBy(r)
    BY DEF LocksInv
  <2>2. PICK s \in {"locking", "load"} : stage' = [stage EXCEPT ![r] = s]
    BY <1>2, <2>1, LockShape
  <2>3. UNCHANGED <<memory, at, file>>
    BY <1>2 DEF Lock, engine
  <2> QED BY <2>2, <2>3 DEF TypeOK
<1>3. ASSUME NEW r \in Runs, Begin(r) \/ Refuse(r) \/ Unlock(r) \/ Reply(r)
      PROVE  /\ UNCHANGED <<memory, at, file>>
             /\ \A q \in Runs : \/ stage'[q] = stage[q]
                                \/ stage'[q] \in {"locking", "unlocking", "reply", "over"}
  BY <1>3 DEF Begin, Refuse, Unlock, Reply, Goes, Returns, engine, TypeOK
<1>4. CASE \E r \in Runs : Disconnect(r)
  BY <1>4 DEF Disconnect, engine
<1>5. CASE Shutdown \/ Drained \/ StartAgain
  BY <1>5 DEF Shutdown, Drained, StartAgain, engine
<1>6. CASE Expire
  BY <1>6 DEF Expire, engine, TypeOK
<1>7. CASE \E p \in Repos, v \in Revisions : Deliver(p, v) \/ Decline(p, v) \/ Push(p, v)
  BY <1>7 DEF Deliver, Decline, Push, engine
<1> QED BY <1>1, <1>2, <1>3, <1>4, <1>5, <1>6, <1>7 DEF Next, Handle, Engine

LEMMA JobsStep ==
  ASSUME TypeOK, LocksInv, JobsInv, [Next]_vars
  PROVE  JobsInv'
<1>1. ASSUME NEW r \in Runs, Engine(r) PROVE JobsInv'
  BY <1>1, EngineWrites, EngineShape, LocksExclude, JobsFrame
<1>2. CASE \A r \in Runs : ~Engine(r)
  BY <1>2, OtherSteps DEF JobsInv, JobOf, Working, Fallible
<1> QED BY <1>1, <1>2

\* A submitted job is not written over: what the engine has in memory is what
\* the file says, and the job at work is not submitted.
LEMMA SubmittedStep ==
  ASSUME TypeOK, LocksInv, JobsInv, [Next]_vars,
         NEW s \in States, NEW v \in Revisions, file[s][v] = "submitted"
  PROVE  file'[s][v] = "submitted"
<1>1. CASE \A r \in Runs : ~Engine(r)
  BY <1>1, OtherSteps
<1>2. ASSUME NEW r \in Runs, Engine(r), s # Task[r].state PROVE file'[s][v] = "submitted"
  BY <1>2, EngineWrites
<1>3. ASSUME NEW r \in Runs, Engine(r), s = Task[r].state PROVE file'[s][v] = "submitted"
  <2>1. /\ memory \in [Runs -> [Revisions -> Status]] /\ memory[r] \in [Revisions -> Status]
        /\ file \in [States -> [Revisions -> Status]] /\ at[r] \in Revisions
    BY DEF TypeOK
  <2>2. JobOf(r) /\ stage[r] \in Working
    BY <1>3, EngineShape DEF JobsInv
  <2>3. ASSUME NEW jobs, Writes(r, jobs) PROVE file'[s] = jobs
    BY <1>3, <2>1, <2>3 DEF Writes
  <2>4. ASSUME NEW x, WritesStatus(r, x), stage[r] \in {"lookup", "attempt", "send", "await"}
        PROVE  file'[s][v] = "submitted"
    <3>1. memory[r][v] = "submitted" /\ memory[r][at[r]] # "submitted"
      BY <1>3, <2>2, <2>4 DEF JobOf, Working, Fallible
    <3>2. file'[s] = [memory[r] EXCEPT ![at[r]] = x]
      BY <2>3, <2>4 DEF WritesStatus
    <3> QED BY <2>1, <3>1, <3>2
  <2>5. CASE UNCHANGED file
    BY <2>5
  <2>6. CASE Load(r) \/ Send(r) \/ GiveUp(r)
    BY <2>5, <2>6 DEF Load, Send, GiveUp, engine
  <2>7. CASE Reconcile(r)
    <3>1. memory[r][v] = "submitted"
      BY <1>3, <2>2, <2>7 DEF Reconcile, JobOf, Working, Fallible
    <3>2. ASSUME NEW u \in Revisions, Writes(r, [memory[r] EXCEPT ![u] = "submitted"])
          PROVE  file'[s][v] = "submitted"
      BY <2>1, <2>3, <3>1, <3>2
    <3> QED BY <2>5, <2>7, <3>2 DEF Reconcile
  <2>8. CASE Scan(r)
    <3> DEFINE u == head[Repo(r)]  jobs == Superseded(memory[r], u)
               opened == [jobs EXCEPT ![u] = IF @ \in {"none", "stale"} THEN "pending" ELSE @]
    <3>1. memory[r][v] = "submitted" /\ u \in Revisions
      BY <1>3, <2>2, <2>8, RunTypes DEF Scan, JobOf, Working, Fallible, TypeOK
    <3>2. jobs \in [Revisions -> Status] /\ jobs[v] = "submitted"
      BY <2>1, <3>1, SupersededTypes DEF Superseded
    <3>3. opened[v] = "submitted"
      <4> HIDE DEF jobs, u
      <4> QED BY <3>1, <3>2
    <3>4. Writes(r, opened) \/ Writes(r, jobs) \/ Writes(r, memory[r])
      BY <2>8 DEF Scan
    <3> HIDE DEF opened, jobs
    <3> QED BY <2>3, <3>1, <3>2, <3>3, <3>4
  <2>9. CASE Lookup(r) \/ Intend(r) \/ Answer(r) \/ Rejected(r)
    BY <2>4, <2>9 DEF Lookup, Intend, Answer, Rejected
  <2>10. CASE Fails(r)
    BY <2>4, <2>5, <2>10 DEF Fails
  <2> QED BY <1>3, <2>6, <2>7, <2>8, <2>9, <2>10 DEF Engine
<1> QED BY <1>1, <1>2, <1>3

-----------------------------------------------------------------------------
(***************************************************************************)
(* Reviews on GitHub, when a repository is reviewed from one state         *)
(* directory only.                                                         *)
(***************************************************************************)

\* Every run on a repository uses the same state directory.
OneState == \A r, q \in Runs : Task[r].repo = Task[q].repo => Task[r].state = Task[q].state

Known(f, p, v) ==
  /\ posts[p][v] + wire[p][v] \in {0, 1}
  /\ posts[p][v] + wire[p][v] = 1 => file[f][v] \in {"posting", "submitted"}
  /\ file[f][v] = "submitted" => posts[p][v] = 1

PostsInv ==
  /\ \A r \in Runs, v \in Revisions : Known(Task[r].state, Repo(r), v)
  /\ \A r \in Runs : stage[r] = "send" => posts[Repo(r)][at[r]] + wire[Repo(r)][at[r]] = 0
  /\ CertifiedIsPosted

LEMMA InitPosts == Init => PostsInv
<1> SUFFICES ASSUME Init PROVE PostsInv
  OBVIOUS
<1>1. \A r \in Runs, v \in Revisions :
        posts[Repo(r)][v] = 0 /\ wire[Repo(r)][v] = 0 /\ file[Task[r].state][v] = "none"
  BY RunTypes DEF Init, NoJobs
<1>2. \A r \in Runs, v \in Revisions : Known(Task[r].state, Repo(r), v)
  BY <1>1 DEF Known
<1> QED BY <1>2 DEF Init, PostsInv, CertifiedIsPosted

\* What the engine of a run leaves of a revision when it does not send.
LEMMA PostsFrame ==
  ASSUME OneState, TypeOK, LocksInv, JobsInv, PostsInv, NEW r \in Runs, Engine(r),
         \A v \in Revisions : Known(Task[r].state, Repo(r), v)',
         stage'[r] = "send" => (posts[Repo(r)][at[r]] + wire[Repo(r)][at[r]] = 0)'
  PROVE  PostsInv'
<1>1. /\ \A q \in Runs \ {r} : at'[q] = at[q] /\ stage'[q] = stage[q]
      /\ \A f \in States \ {Task[r].state} : file'[f] = file[f]
      /\ UNCHANGED <<posts, reply>> /\ \A p \in Repos \ {Repo(r)} : wire'[p] = wire[p]
      /\ stage[r] \in Working
  BY EngineWrites, EngineShape
<1>2. ASSUME NEW q \in Runs, NEW v \in Revisions PROVE Known(Task[q].state, Repo(q), v)'
  <2>1. CASE Repo(q) = Repo(r)
    <3>1. Task[q].state = Task[r].state
      BY <2>1 DEF OneState, Repo
    <3> QED BY <2>1, <3>1
  <2>2. CASE Repo(q) # Repo(r)
    <3>1. Task[q].state # Task[r].state
      BY <2>2, TaskAssumption DEF Repo
    <3>2. file'[Task[q].state] = file[Task[q].state] /\ wire'[Repo(q)] = wire[Repo(q)] /\ posts' = posts
      BY <1>1, <2>2, <3>1, RunTypes
    <3> QED BY <3>2 DEF PostsInv, Known
  <2> QED BY <2>1, <2>2
<1>3. ASSUME NEW q \in Runs \ {r}, stage'[q] = "send"
      PROVE  (posts[Repo(q)][at[q]] + wire[Repo(q)][at[q]] = 0)'
  <2>1. stage[q] = "send" /\ at'[q] = at[q]
    BY <1>1, <1>3
  <2>2. Repo(q) # Repo(r)
    BY <1>1, <2>1, LocksExclude DEF Exclusive, Working, Repo
  <2> QED BY <1>1, <2>1, <2>2, RunTypes DEF PostsInv
<1>4. CertifiedIsPosted'
  BY <1>1 DEF PostsInv, CertifiedIsPosted
<1> QED BY <1>2, <1>3, <1>4 DEF PostsInv

LEMMA PostsEngine ==
  ASSUME OneState, TypeOK, LocksInv, JobsInv, PostsInv, NEW r \in Runs, Engine(r)
  PROVE  PostsInv'
<1> DEFINE f == Task[r].state  p == Repo(r)
<1>1. /\ memory \in [Runs -> [Revisions -> Status]] /\ memory[r] \in [Revisions -> Status]
      /\ file \in [States -> [Revisions -> Status]] /\ file[f] \in [Revisions -> Status] /\ f \in States
      /\ at \in [Runs -> Revisions] /\ at[r] \in Revisions
      /\ stage \in [Runs -> {"new", "over"} \cup Active]
      /\ wire \in [Repos -> [Revisions -> Nat]] /\ posts \in [Repos -> [Revisions -> Nat]] /\ p \in Repos
      /\ \A v \in Revisions : wire[p][v] \in Nat /\ posts[p][v] \in Nat
  BY RunTypes DEF TypeOK
<1>2. /\ JobOf(r) /\ stage[r] \in Working /\ UNCHANGED posts
      /\ \A v \in Revisions : Known(f, p, v)
  BY EngineShape, EngineWrites DEF JobsInv, PostsInv
<1>3. stage[r] # "load" => memory[r] = file[f]
  BY <1>2 DEF JobOf
<1> HIDE DEF f, p
<1>4. ASSUME NEW s \in Status, stage[r] \in {"lookup", "attempt", "send", "await"},
             WritesStatus(r, s), UNCHANGED at
      PROVE  /\ file'[f][at[r]] = s
             /\ \A v \in Revisions \ {at[r]} : file'[f][v] = file[f][v]
  <2>1. file' = [file EXCEPT ![f] = [memory[r] EXCEPT ![at[r]] = s]]
    BY <1>4 DEF WritesStatus, Writes, f
  <2>2. memory[r] = file[f]
    BY <1>3, <1>4
  <2> QED BY <1>1, <2>1, <2>2
<1>5. ASSUME stage'[r] # "send", UNCHANGED wire,
             \A v \in Revisions : file'[f][v] = file[f][v]
      PROVE  PostsInv'
  <2>1. \A v \in Revisions : Known(f, p, v)'
    BY <1>2, <1>5 DEF Known
  <2> QED BY <1>5, <2>1, PostsFrame DEF f, p
\* What is known of the revision at work is enough: the others do not change.
<1>6. ASSUME UNCHANGED at, \A v \in Revisions \ {at[r]} : file'[f][v] = file[f][v] /\ wire'[p][v] = wire[p][v],
             Known(f, p, at[r])', stage'[r] = "send" => posts[p][at[r]] + wire'[p][at[r]] = 0
      PROVE  PostsInv'
  <2>1. \A v \in Revisions : Known(f, p, v)'
    BY <1>2, <1>6 DEF Known
  <2> QED BY <1>2, <1>6, <2>1, PostsFrame DEF f, p
<1> USE DEF Working, Fallible
<1>7. CASE Load(r) \/ GiveUp(r)
  <2>1. stage'[r] # "send" /\ UNCHANGED <<wire, file>>
    BY <1>1, <1>7 DEF Load, GiveUp, Goes, Returns, engine, github
  <2> QED BY <1>5, <2>1
<1>8. CASE Reconcile(r)
  <2>1. stage'[r] # "send" /\ UNCHANGED <<wire, posts>> /\ memory[r] = file[f]
    BY <1>1, <1>3, <1>8 DEF Reconcile, Goes, github
  <2>2. CASE UNCHANGED file
    BY <1>5, <2>1, <2>2
  <2>3. ASSUME NEW v \in Revisions, posts[p][v] = 1, memory[r][v] = "posting",
               Writes(r, [memory[r] EXCEPT ![v] = "submitted"])
        PROVE  PostsInv'
    <3>1. file'[f] = [file[f] EXCEPT ![v] = "submitted"]
      BY <1>1, <2>1, <2>3 DEF Writes, f
    <3>2. file'[f][v] = "submitted" /\ \A u \in Revisions \ {v} : file'[f][u] = file[f][u]
      BY <1>1, <3>1
    <3>3. \A u \in Revisions : Known(f, p, u)'
      <4>1. Known(f, p, v)'
        BY <1>2, <2>1, <2>3, <3>2 DEF Known
      <4>2. \A u \in Revisions \ {v} : Known(f, p, u)'
        BY <1>2, <2>1, <3>2 DEF Known
      <4> QED BY <4>1, <4>2
    <3> QED BY <2>1, <3>3, PostsFrame DEF f, p
  <2> QED BY <1>8, <2>2, <2>3 DEF Reconcile, p
<1>9. CASE Scan(r)
  <2> DEFINE v == head[Repo(r)]  jobs == Superseded(memory[r], v)
             opened == [jobs EXCEPT ![v] = IF @ \in {"none", "stale"} THEN "pending" ELSE @]
  <2>1. stage'[r] # "send" /\ UNCHANGED <<wire, posts>> /\ memory[r] = file[f] /\ v \in Revisions
    BY <1>1, <1>3, <1>9, RunTypes DEF Scan, Goes, Returns, github, TypeOK
  <2>2. \A u \in Revisions : jobs[u] = file[f][u] \/ (file[f][u] \in {"pending", "failed"} /\ jobs[u] = "stale")
    BY <2>1 DEF Superseded
  <2>3. jobs \in [Revisions -> Status]
    BY <1>1, <2>1, SupersededTypes
  <2>4. Writes(r, opened) \/ Writes(r, jobs) \/ Writes(r, memory[r])
    BY <1>9 DEF Scan
  <2> HIDE DEF jobs, v
  <2>5. \A u \in Revisions : \/ opened[u] = jobs[u]
                             \/ jobs[u] \in {"none", "stale"} /\ opened[u] = "pending"
    BY <2>1, <2>3
  <2> HIDE DEF opened
  <2>6. file'[f] \in {opened, jobs, file[f]}
    BY <1>1, <2>1, <2>4 DEF Writes, f
  <2>7. \A u \in Revisions : \/ file'[f][u] = file[f][u]
                             \/ /\ file[f][u] \notin {"posting", "submitted"}
                                /\ file'[f][u] \notin {"posting", "submitted"}
    BY <2>2, <2>5, <2>6
  <2>8. \A u \in Revisions : Known(f, p, u)'
    BY <1>2, <2>1, <2>7 DEF Known
  <2> QED BY <2>1, <2>8, PostsFrame DEF f, p
<1>10. CASE Lookup(r)
  <2>1. stage[r] = "lookup" /\ stage'[r] # "send" /\ UNCHANGED <<at, wire, posts>>
    BY <1>1, <1>10 DEF Lookup, Goes, Returns, github
  <2>2. file[f][at[r]] \in {"pending", "failed"}
    BY <1>2, <1>3, <2>1 DEF JobOf
  <2>3. CASE WritesStatus(r, "pending")
    <3>1. /\ file'[f][at[r]] = "pending"
          /\ \A v \in Revisions \ {at[r]} : file'[f][v] = file[f][v]
      BY <1>4, <2>1, <2>3 DEF Status
    <3>2. Known(f, p, at[r])'
      BY <1>1, <1>2, <2>1, <2>2, <3>1 DEF Known
    <3> QED BY <1>6, <2>1, <3>1, <3>2
  <2>4. CASE posts[p][at[r]] = 1
    BY <1>1, <1>2, <2>2, <2>4 DEF Known
  <2> QED BY <1>10, <2>3, <2>4 DEF Lookup, p
<1>11. CASE Intend(r)
  <2>1. stage[r] = "attempt" /\ UNCHANGED <<at, wire, posts>>
    BY <1>11 DEF Intend, github
  <2>2. file[f][at[r]] = "pending"
    BY <1>2, <1>3, <2>1 DEF JobOf
  <2>3. posts[p][at[r]] + wire[p][at[r]] = 0
    BY <1>1, <1>2, <2>2 DEF Known
  <2>4. PICK s \in {"posting", "stale"} : WritesStatus(r, s)
    BY <1>11 DEF Intend
  <2>5. /\ file'[f][at[r]] = s
        /\ \A v \in Revisions \ {at[r]} : file'[f][v] = file[f][v]
    BY <1>4, <2>1, <2>4 DEF Status
  <2>6. Known(f, p, at[r])'
    BY <1>1, <2>1, <2>3, <2>5 DEF Known
  <2> QED BY <1>6, <2>1, <2>3, <2>5, <2>6
<1>12. CASE Send(r)
  <2>1. /\ stage[r] = "send" /\ stage'[r] # "send" /\ UNCHANGED <<at, posts, file>>
        /\ wire' = [wire EXCEPT ![p][at[r]] = @ + 1]
    BY <1>1, <1>12 DEF Send, Goes, engine, p
  <2>2. posts[p][at[r]] + wire[p][at[r]] = 0 /\ file[f][at[r]] = "posting"
    BY <1>2, <1>3, <2>1 DEF JobOf, PostsInv, p
  <2>3. /\ wire'[p][at[r]] = wire[p][at[r]] + 1
        /\ \A v \in Revisions \ {at[r]} : wire'[p][v] = wire[p][v]
    BY <1>1, <2>1
  <2>4. Known(f, p, at[r])'
    BY <1>1, <2>1, <2>2, <2>3 DEF Known
  <2> QED BY <1>6, <2>1, <2>3, <2>4
<1>13. CASE Answer(r)
  <2>1. /\ stage[r] = "await" /\ stage'[r] # "send" /\ UNCHANGED <<at, posts, wire>>
        /\ posts[p][at[r]] > 0 /\ WritesStatus(r, "submitted")
    BY <1>1, <1>13 DEF Answer, Goes, Returns, github, p
  <2>2. /\ file'[f][at[r]] = "submitted"
        /\ \A v \in Revisions \ {at[r]} : file'[f][v] = file[f][v]
    BY <1>4, <2>1 DEF Status
  <2>3. posts[p][at[r]] = 1 /\ wire[p][at[r]] = 0
    <3>1. posts[p][at[r]] + wire[p][at[r]] \in {0, 1}
      BY <1>1, <1>2 DEF Known
    <3>2. posts[p][at[r]] \in Nat /\ wire[p][at[r]] \in Nat
      BY <1>1
    <3> QED BY <2>1, <3>1, <3>2
  <2>4. Known(f, p, at[r])'
    BY <2>1, <2>2, <2>3 DEF Known
  <2> QED BY <1>6, <2>1, <2>2, <2>4
<1>14. CASE Rejected(r)
  <2>1. /\ stage[r] = "await" /\ stage'[r] # "send" /\ UNCHANGED <<at, posts, wire>>
        /\ wire[p][at[r]] = 0 /\ posts[p][at[r]] = 0 /\ WritesStatus(r, "failed")
    BY <1>1, <1>14 DEF Rejected, Goes, Returns, github, p
  <2>2. /\ file'[f][at[r]] = "failed"
        /\ \A v \in Revisions \ {at[r]} : file'[f][v] = file[f][v]
    BY <1>4, <2>1 DEF Status
  <2>3. Known(f, p, at[r])'
    BY <2>1, <2>2 DEF Known
  <2> QED BY <1>6, <2>1, <2>2, <2>3
<1>15. CASE Fails(r)
  <2>1. stage'[r] # "send" /\ UNCHANGED <<at, wire, posts>>
    BY <1>1, <1>15 DEF Fails, Goes, Returns, github
  <2>2. CASE UNCHANGED file
    BY <1>5, <2>1, <2>2
  <2>3. CASE stage[r] = "attempt" /\ WritesStatus(r, "failed")
    <3>1. file[f][at[r]] = "pending"
      BY <1>2, <1>3, <2>3 DEF JobOf
    <3>2. /\ file'[f][at[r]] = "failed"
          /\ \A v \in Revisions \ {at[r]} : file'[f][v] = file[f][v]
      BY <1>4, <2>1, <2>3 DEF Status
    <3>3. Known(f, p, at[r])'
      BY <1>1, <1>2, <2>1, <3>1, <3>2 DEF Known
    <3> QED BY <1>6, <2>1, <3>2, <3>3
  <2> QED BY <1>15, <2>2, <2>3 DEF Fails
<1> QED BY <1>7, <1>8, <1>9, <1>10, <1>11, <1>12, <1>13, <1>14, <1>15 DEF Engine

LEMMA PostsStep ==
  ASSUME OneState, TypeOK, LocksInv, JobsInv, PostsInv, [Next]_vars
  PROVE  PostsInv'
<1>1. ASSUME NEW r \in Runs, Engine(r) PROVE PostsInv'
  BY <1>1, PostsEngine
<1>2. CASE /\ UNCHANGED <<reply, posts, wire>> /\ \A r \in Runs : ~Engine(r)
  <2>1. UNCHANGED <<file, at>> /\ \A r \in Runs : stage'[r] = "send" => stage[r] = "send"
    BY <1>2, OtherSteps
  <2> QED BY <1>2, <2>1 DEF PostsInv, Known, CertifiedIsPosted
<1>3. ASSUME NEW r \in Runs, Reply(r) PROVE PostsInv'
  <2>1. /\ UNCHANGED <<posts, wire, file, at>> /\ \A q \in Runs : stage'[q] = "send" => stage[q] = "send"
        /\ \A q \in Runs \ {r} : reply'[q] = reply[q]
    BY <1>3 DEF Reply, Goes, engine, github, TypeOK
  <2>2. reply'[r] = "certified" => posts'[Repo(r)][Task[r].rev] = 1
    <3>1. outcome[r] \in {"none", "ok", "error", "locked"} /\ gone[r] \in BOOLEAN /\ Task[r].rev \in Revisions
      BY TaskAssumption DEF TypeOK
    <3>2. reply'[r] = "certified" => file[Task[r].state][Task[r].rev] = "submitted"
      BY <1>3, <3>1 DEF Reply, Complete, TypeOK
    <3> QED BY <2>1, <3>1, <3>2 DEF PostsInv, Known
  <2> QED BY <2>1, <2>2 DEF PostsInv, Known, CertifiedIsPosted
<1>4. ASSUME NEW p \in Repos, NEW v \in Revisions, Deliver(p, v) \/ Decline(p, v) PROVE PostsInv'
  <2>1. /\ UNCHANGED <<file, at, stage, reply>> /\ wire[p][v] > 0
        /\ wire' = [wire EXCEPT ![p][v] = @ - 1]
        /\ posts' = posts \/ posts' = [posts EXCEPT ![p][v] = @ + 1]
    BY <1>4 DEF Deliver, Decline, handler, engine
  <2>2. /\ wire[p][v] \in Nat /\ posts[p][v] \in Nat
        /\ wire'[p][v] = wire[p][v] - 1 /\ posts'[p][v] \in {posts[p][v], posts[p][v] + 1}
        /\ \A q \in Repos, u \in Revisions :
             q # p \/ u # v => wire'[q][u] = wire[q][u] /\ posts'[q][u] = posts[q][u]
    BY <2>1 DEF TypeOK
  <2>3. ASSUME NEW r \in Runs, NEW u \in Revisions PROVE Known(Task[r].state, Repo(r), u)'
    <3>1. CASE Repo(r) = p /\ u = v
      BY <2>1, <2>2, <3>1 DEF PostsInv, Known
    <3>2. CASE Repo(r) # p \/ u # v
      BY <2>1, <2>2, <3>2, RunTypes DEF PostsInv, Known
    <3> QED BY <3>1, <3>2
  <2>4. ASSUME NEW r \in Runs, stage'[r] = "send"
        PROVE  (posts[Repo(r)][at[r]] + wire[Repo(r)][at[r]] = 0)'
    <3>1. at[r] \in Revisions /\ Repo(r) \in Repos
      BY RunTypes DEF TypeOK
    <3>2. posts[Repo(r)][at[r]] + wire[Repo(r)][at[r]] = 0
      BY <2>1, <2>4 DEF PostsInv
    <3>3. Repo(r) # p \/ at[r] # v
      BY <2>1, <2>2, <3>2
    <3> QED BY <2>1, <2>2, <3>1, <3>2, <3>3
  <2>5. ASSUME NEW r \in Runs, reply'[r] = "certified" PROVE posts'[Repo(r)][Task[r].rev] = 1
    <3>1. Task[r].rev \in Revisions /\ Repo(r) \in Repos
      BY TaskAssumption, RunTypes
    <3>2. posts[Repo(r)][Task[r].rev] = 1
      BY <2>1, <2>5 DEF PostsInv, CertifiedIsPosted
    <3>3. Known(Task[r].state, Repo(r), Task[r].rev)
      BY <3>1 DEF PostsInv
    <3>4. Repo(r) # p \/ Task[r].rev # v
      BY <2>1, <2>2, <3>2, <3>3 DEF Known
    <3> QED BY <2>2, <3>1, <3>2, <3>4
  <2> QED BY <2>3, <2>4, <2>5 DEF PostsInv, CertifiedIsPosted
<1>5. CASE UNCHANGED vars
  BY <1>2, <1>1, <1>5 DEF vars, handler, github
<1>6. ASSUME NEW r \in Runs, Begin(r) \/ Lock(r) \/ Refuse(r) \/ Unlock(r) \/ Disconnect(r) PROVE PostsInv'
  BY <1>1, <1>2, <1>6 DEF Begin, Lock, Refuse, Unlock, Disconnect, handler, github
<1>7. CASE Shutdown \/ Drained \/ Expire \/ StartAgain
  BY <1>1, <1>2, <1>7 DEF Shutdown, Drained, Expire, StartAgain, handler, github
<1>8. CASE \E p \in Repos, v \in Revisions : Push(p, v)
  BY <1>1, <1>2, <1>8 DEF Push, handler
<1> QED BY <1>1, <1>3, <1>4, <1>5, <1>6, <1>7, <1>8 DEF Next, Handle, Engine

-----------------------------------------------------------------------------
(***************************************************************************)
(* The runs together keep the promise of PublishOnce.                      *)
(***************************************************************************)

Phase(x) ==
  CASE x = "posting"   -> "intent"
    [] x = "submitted" -> "done"
    [] OTHER           -> "open"
PhaseOf(j) == Phase(file[j[1]][j[2]])
Fate(j) == IF posts[RepoOf[j[1]]][j[2]] # 0 THEN "published"
           ELSE IF wire[RepoOf[j[1]]][j[2]] # 0 THEN "sent" ELSE "none"

LEMMA Phases ==
  /\ \A x : Phase(x) = "intent" <=> x = "posting"
  /\ \A x : Phase(x) = "done" <=> x = "submitted"
  /\ \A x : Phase(x) \in {"open", "intent", "done"}
  BY DEF Phase

\* A state directory belongs to one repository.
LEMMA RepoOfState ==
  ASSUME NEW r \in Runs
  PROVE  RepoOf[Task[r].state] = Repo(r)
<1> DEFINE s == Task[r].state
           p == CHOOSE p \in Repos : \E q \in Runs : Task[q].state = s /\ Task[q].repo = p
<1>1. s \in States /\ Repo(r) \in Repos
  BY RunTypes
<1>2. \E q \in Runs : Task[q].state = s /\ Task[q].repo = p
  BY <1>1 DEF Repo
<1>3. p = Repo(r)
  BY <1>2, TaskAssumption DEF Repo
<1> QED BY <1>1, <1>3 DEF RepoOf

\* What is known of a job.
LEMMA JobKnown ==
  ASSUME PostsInv, NEW j \in Jobs
  PROVE  /\ j[1] \in States /\ j[2] \in Revisions
         /\ \E r \in Runs : j[1] = Task[r].state /\ RepoOf[j[1]] = Repo(r)
         /\ Known(j[1], RepoOf[j[1]], j[2])
<1>1. j[1] \in States /\ j[2] \in Revisions
  BY DEF Jobs
<1>2. PICK r \in Runs : j[1] = Task[r].state
  BY <1>1 DEF States
<1>3. RepoOf[j[1]] = Repo(r)
  BY <1>2, RepoOfState
<1> QED BY <1>1, <1>2, <1>3 DEF PostsInv

\* Every step changes the phase of one job at most.
LEMMA OnePhase ==
  ASSUME TypeOK, LocksInv, JobsInv, [Next]_vars
  PROVE  \E m : \A j \in Jobs \ {m} : PhaseOf(j)' = PhaseOf(j)
<1> DEFINE Goal == \E m : \A j \in Jobs \ {m} : PhaseOf(j)' = PhaseOf(j)
<1>1. CASE UNCHANGED file
  BY <1>1 DEF PhaseOf
<1>2. ASSUME NEW r \in Runs, Engine(r) PROVE Goal
  <2> DEFINE f == Task[r].state
  <2>1. /\ memory \in [Runs -> [Revisions -> Status]] /\ memory[r] \in [Revisions -> Status]
        /\ file \in [States -> [Revisions -> Status]] /\ f \in States /\ at[r] \in Revisions
    BY RunTypes DEF TypeOK
  <2>2. /\ \A g \in States \ {f} : file'[g] = file[g]
        /\ stage[r] \in Working \ {"load"} => memory[r] = file[f]
    BY <1>2, EngineWrites DEF JobsInv, JobOf
  <2>3. ASSUME NEW jobs, Writes(r, jobs) PROVE file'[f] = jobs
    BY <2>1, <2>3 DEF Writes
  <2> HIDE DEF f
  <2>4. ASSUME NEW v \in Revisions,
               \A u \in Revisions \ {v} : Phase(file'[f][u]) = Phase(file[f][u])
        PROVE  Goal
    <3>1. \A j \in Jobs \ {<<f, v>>} : PhaseOf(j)' = PhaseOf(j)
      <4> SUFFICES ASSUME NEW j \in Jobs \ {<<f, v>>} PROVE PhaseOf(j)' = PhaseOf(j)
        OBVIOUS
      <4>1. j[1] \in States /\ j[2] \in Revisions /\ j = <<j[1], j[2]>>
        BY DEF Jobs
      <4>2. j[1] # f \/ j[2] # v
        BY <4>1
      <4> QED BY <2>2, <2>4, <4>1, <4>2 DEF PhaseOf
    <3> QED BY <3>1
  <2> HIDE DEF Goal
  <2>5. ASSUME NEW v \in Revisions, NEW x, Writes(r, [memory[r] EXCEPT ![v] = x]),
               stage[r] \in Working \ {"load"}
        PROVE  Goal
    <3>1. \A u \in Revisions \ {v} : file'[f][u] = file[f][u]
      BY <2>1, <2>2, <2>3, <2>5
    <3> QED BY <2>4, <2>5, <3>1
  <2>6. CASE UNCHANGED file
    BY <1>1, <2>6 DEF Goal
  <2> USE DEF Working, Fallible
  <2>7. CASE Load(r) \/ Send(r) \/ GiveUp(r)
    BY <2>6, <2>7 DEF Load, Send, GiveUp, engine
  <2>8. CASE Reconcile(r)
    BY <2>5, <2>6, <2>8 DEF Reconcile
  <2>9. CASE Scan(r)
    <3> DEFINE v == head[Repo(r)]  jobs == Superseded(memory[r], v)
               opened == [jobs EXCEPT ![v] = IF @ \in {"none", "stale"} THEN "pending" ELSE @]
    <3>1. memory[r] = file[f] /\ v \in Revisions
      BY <2>2, <2>9, RunTypes DEF Scan, TypeOK
    <3>2. \A u \in Revisions : Phase(jobs[u]) = Phase(file[f][u])
      BY <3>1 DEF Superseded, Phase
    <3>3. jobs \in [Revisions -> Status]
      BY <2>1, <3>1, SupersededTypes
    <3>4. Writes(r, opened) \/ Writes(r, jobs) \/ Writes(r, memory[r])
      BY <2>9 DEF Scan
    <3> HIDE DEF jobs, v
    <3>5. \A u \in Revisions \ {v} : opened[u] = jobs[u]
      BY <3>1, <3>3
    <3> HIDE DEF opened
    <3>6. file'[f] \in {opened, jobs, file[f]}
      BY <2>3, <3>1, <3>4
    <3>7. \A u \in Revisions \ {v} : Phase(file'[f][u]) = Phase(file[f][u])
      BY <3>2, <3>5, <3>6
    <3> QED BY <2>4, <3>1, <3>7
  <2>10. CASE Lookup(r) \/ Intend(r) \/ Answer(r) \/ Rejected(r)
    BY <2>1, <2>5, <2>10 DEF Lookup, Intend, Answer, Rejected, WritesStatus
  <2>11. CASE Fails(r)
    BY <2>1, <2>5, <2>6, <2>11 DEF Fails, WritesStatus
  <2> QED BY <1>2, <2>7, <2>8, <2>9, <2>10, <2>11 DEF Engine
<1>3. CASE \A r \in Runs : ~Engine(r)
  BY <1>1, <1>3, OtherSteps
<1> QED BY <1>2, <1>3

\* A step that does not reach GitHub is one of PublishOnce, or none.
LEMMA LocalStep ==
  ASSUME TypeOK, LocksInv, JobsInv, PostsInv, PostsInv', [Next]_vars, UNCHANGED <<posts, wire>>
  PROVE  [Publication!Next]_(Publication!vars)
<1> DEFINE phase == [j \in Jobs |-> PhaseOf(j)]
<1>1. PICK m : \A j \in Jobs \ {m} : PhaseOf(j)' = PhaseOf(j)
  BY OnePhase
<1>2. CASE \A j \in Jobs : PhaseOf(j)' = PhaseOf(j)
  BY <1>2 DEF Publication!vars, PhaseOf, Phase
<1>3. CASE m \in Jobs /\ PhaseOf(m)' # PhaseOf(m)
  <2>1. phase' = [phase EXCEPT ![m] = PhaseOf(m)']
    BY <1>1, <1>3 DEF PhaseOf, Phase
  <2> DEFINE p == RepoOf[m[1]]  v == m[2]
             before == file[m[1]][v]  after == file'[m[1]][v]
  <2>2. Known(m[1], p, v) /\ Known(m[1], p, v)' /\ m[1] \in States /\ v \in Revisions
    <3>1. PICK r \in Runs : m[1] = Task[r].state /\ RepoOf[m[1]] = Repo(r)
      BY <1>3, JobKnown
    <3>2. m[1] \in States /\ v \in Revisions /\ Known(m[1], p, v)
      BY <1>3, JobKnown
    <3>3. Known(Task[r].state, Repo(r), v)'
      BY <3>2 DEF PostsInv
    <3> QED BY <3>1, <3>2, <3>3 DEF Known, Repo
  <2>3. posts[p][v] \in Nat /\ wire[p][v] \in Nat
    <3>1. PICK r \in Runs : m[1] = Task[r].state /\ RepoOf[m[1]] = Repo(r)
      BY <1>3, JobKnown
    <3> QED BY <2>2, <3>1, RunTypes DEF TypeOK
  <2>4. /\ before \notin {"posting", "submitted"} => posts[p][v] = 0 /\ wire[p][v] = 0
        /\ after \notin {"posting", "submitted"} => posts[p][v] = 0 /\ wire[p][v] = 0
        /\ after = "submitted" => posts[p][v] = 1
    BY <2>2, <2>3 DEF Known
  <2>5. before # "submitted"
    <3>1. before = "submitted" => after = "submitted"
      BY <2>2, SubmittedStep
    <3> QED BY <1>3, <3>1 DEF PhaseOf
  <2>6. /\ PhaseOf(m) = Phase(before) /\ PhaseOf(m)' = Phase(after)
        /\ Fate(m) = IF posts[p][v] # 0 THEN "published" ELSE IF wire[p][v] # 0 THEN "sent" ELSE "none"
    BY DEF PhaseOf, Fate
  <2> HIDE DEF before, after, p, v
  <2>7. CASE PhaseOf(m) = "open" /\ PhaseOf(m)' = "intent"
    <3>1. Fate(m) = "none"
      BY <2>4, <2>6, <2>7, Phases
    <3>2. Publication!Commit(m)
      BY <1>3, <2>1, <2>7, <3>1 DEF Publication!Commit, PhaseOf, Phase, Fate
    <3> QED BY <1>3, <3>2 DEF Publication!Next
  <2>8. CASE PhaseOf(m) = "intent" /\ PhaseOf(m)' = "done"
    <3>1. after = "submitted"
      BY <2>6, <2>8, Phases
    <3>2. posts[p][v] # 0
      BY <2>4, <3>1
    <3>3. Fate(m) = "published"
      BY <2>6, <3>2
    <3>4. Publication!Confirm(m)
      BY <1>3, <2>1, <2>8, <3>3 DEF Publication!Confirm, PhaseOf, Phase, Fate
    <3> QED BY <1>3, <3>4 DEF Publication!Next
  <2>9. CASE PhaseOf(m) = "intent" /\ PhaseOf(m)' = "open"
    <3>1. Fate(m) = "none"
      BY <2>4, <2>6, <2>9, Phases
    <3>2. Publication!Withdraw(m)
      BY <1>3, <2>1, <2>9, <3>1 DEF Publication!Withdraw, PhaseOf, Phase, Fate
    <3> QED BY <1>3, <3>2 DEF Publication!Next
  <2>10. ~(PhaseOf(m) = "open" /\ PhaseOf(m)' = "done")
    BY <2>4, <2>6, Phases
  <2>11. PhaseOf(m) # "done"
    BY <2>5, <2>6, Phases
  <2> QED BY <1>3, <2>6, <2>7, <2>8, <2>9, <2>10, <2>11, Phases
<1> QED BY <1>1, <1>2, <1>3

\* A step of the request for one revision is one of PublishOnce.
LEMMA RemoteStep ==
  ASSUME OneState, TypeOK, PostsInv, NEW r \in Runs, NEW v \in Revisions, UNCHANGED file,
         \A p \in Repos, u \in Revisions :
           p # Repo(r) \/ u # v => posts'[p][u] = posts[p][u] /\ wire'[p][u] = wire[p][u],
         \/ /\ file[Task[r].state][v] = "posting" /\ posts[Repo(r)][v] = 0 /\ wire[Repo(r)][v] = 0
            /\ posts'[Repo(r)][v] = 0 /\ wire'[Repo(r)][v] = 1
         \/ /\ posts[Repo(r)][v] = 0 /\ wire[Repo(r)][v] = 1 /\ wire'[Repo(r)][v] = 0
  PROVE  Publication!Next
<1> DEFINE remote == [j \in Jobs |-> Fate(j)]
<1>0. PICK k : k = <<Task[r].state, v>>
  OBVIOUS
<1>1. k \in Jobs /\ k[1] = Task[r].state /\ k[2] = v /\ RepoOf[k[1]] = Repo(r)
  BY <1>0, RunTypes, RepoOfState DEF Jobs
<1>2. \A j \in Jobs \ {k} : Fate(j)' = Fate(j)
  <2> SUFFICES ASSUME NEW j \in Jobs \ {k} PROVE Fate(j)' = Fate(j)
    OBVIOUS
  <2>1. PICK q \in Runs : j[1] = Task[q].state /\ RepoOf[j[1]] = Repo(q)
    BY JobKnown
  <2>2. j = <<j[1], j[2]>> /\ j[2] \in Revisions
    BY DEF Jobs
  <2>3. Repo(q) # Repo(r) \/ j[2] # v
    BY <1>0, <2>1, <2>2 DEF OneState, Repo
  <2> QED BY <2>1, <2>2, <2>3, RunTypes DEF Fate
<1>3. /\ Fate(k) = IF posts[Repo(r)][v] # 0 THEN "published" ELSE IF wire[Repo(r)][v] # 0 THEN "sent" ELSE "none"
      /\ Fate(k)' = IF posts'[Repo(r)][v] # 0 THEN "published" ELSE IF wire'[Repo(r)][v] # 0 THEN "sent" ELSE "none"
      /\ PhaseOf(k) = Phase(file[Task[r].state][v])
  BY <1>1 DEF Fate, PhaseOf
<1>4. remote' = [remote EXCEPT ![k] = Fate(k)'] /\ k \in Jobs
  BY <1>1, <1>2 DEF Fate
<1>5. CASE PhaseOf(k) = "intent" /\ Fate(k) = "none" /\ Fate(k)' = "sent"
  <2>1. Publication!Send(k)
    BY <1>4, <1>5 DEF Publication!Send, PhaseOf, Phase, Fate
  <2> QED BY <1>4, <2>1 DEF Publication!Next
<1>6. CASE Fate(k) = "sent" /\ Fate(k)' \in {"none", "published"}
  <2>1. Publication!Resolve(k)
    BY <1>4, <1>6 DEF Publication!Resolve, PhaseOf, Phase, Fate
  <2> QED BY <1>4, <2>1 DEF Publication!Next
<1> QED BY <1>3, <1>5, <1>6 DEF Phase

\* A request is sent once for the intention on file.
LEMMA SendStep ==
  ASSUME OneState, TypeOK, JobsInv, PostsInv, NEW r \in Runs, Send(r)
  PROVE  Publication!Next
<1> DEFINE p == Repo(r)  v == at[r]  f == Task[r].state
<1>1. /\ p \in Repos /\ v \in Revisions
      /\ posts[p][v] \in Nat /\ wire[p][v] \in Nat /\ file[f] \in [Revisions -> Status]
  BY RunTypes DEF TypeOK
<1>2. /\ stage[r] = "send" /\ UNCHANGED <<posts, file>>
      /\ wire' = [wire EXCEPT ![p][v] = @ + 1]
  BY DEF Send, engine
<1>3. posts[p][v] = 0 /\ wire[p][v] = 0 /\ file[f][v] = "posting"
  <2>1. posts[p][v] + wire[p][v] = 0
    BY <1>2 DEF PostsInv
  <2>2. file[f][v] = "posting"
    BY <1>2 DEF JobsInv, JobOf, Working, Fallible
  <2> HIDE DEF p, v, f
  <2> QED BY <1>1, <2>1, <2>2
<1>4. /\ wire'[p][v] = 1
      /\ \A q \in Repos, u \in Revisions : q # p \/ u # v => wire'[q][u] = wire[q][u]
  BY <1>1, <1>2, <1>3 DEF TypeOK
<1> QED BY <1>1, <1>2, <1>3, <1>4, RemoteStep

\* GitHub answers a request once.
LEMMA AnswerStep ==
  ASSUME OneState, TypeOK, PostsInv, NEW p \in Repos, NEW v \in Revisions,
         Deliver(p, v) \/ Decline(p, v)
  PROVE  Publication!Next
<1>1. PICK r \in Runs : p = Repo(r)
  BY DEF Repos, Repo
<1>2. /\ wire[p][v] > 0 /\ UNCHANGED file /\ wire' = [wire EXCEPT ![p][v] = @ - 1]
      /\ posts' = posts \/ posts' = [posts EXCEPT ![p][v] = @ + 1]
  BY DEF Deliver, Decline, engine
<1>3. posts[p][v] \in Nat /\ wire[p][v] \in Nat
  BY DEF TypeOK
<1>4. posts[p][v] = 0 /\ wire[p][v] = 1
  BY <1>1, <1>2, <1>3 DEF PostsInv, Known
<1>5. /\ wire'[p][v] = 0
      /\ \A q \in Repos, u \in Revisions :
           q # p \/ u # v => posts'[q][u] = posts[q][u] /\ wire'[q][u] = wire[q][u]
  BY <1>2, <1>4 DEF TypeOK
<1> QED BY <1>1, <1>2, <1>4, <1>5, RemoteStep

\* A step sends a request, answers one, or leaves all of them alone.
LEMMA WireSteps ==
  ASSUME [Next]_vars
  PROVE  \/ UNCHANGED <<posts, wire>>
         \/ \E r \in Runs : Send(r)
         \/ \E p \in Repos, v \in Revisions : Deliver(p, v) \/ Decline(p, v)
<1>1. ASSUME NEW r \in Runs, Handle(r), ~Send(r) PROVE UNCHANGED <<posts, wire>>
  BY <1>1 DEF Handle, Begin, Lock, Refuse, Unlock, Reply, Load, Reconcile, Scan, Lookup, Intend,
              Answer, Rejected, GiveUp, Fails, github
<1>2. ASSUME NEW r \in Runs, Disconnect(r) PROVE UNCHANGED <<posts, wire>>
  BY <1>2 DEF Disconnect, github
<1>3. CASE Shutdown \/ Drained \/ Expire \/ StartAgain \/ UNCHANGED vars
  BY <1>3 DEF Shutdown, Drained, Expire, StartAgain, vars, github
<1>4. ASSUME NEW p \in Repos, NEW v \in Revisions, Push(p, v) PROVE UNCHANGED <<posts, wire>>
  BY <1>4 DEF Push
<1> QED BY <1>1, <1>2, <1>3, <1>4 DEF Next

LEMMA PublicationInit == Init => Publication!Init
<1> SUFFICES ASSUME Init PROVE Publication!Init
  OBVIOUS
<1>1. ASSUME NEW j \in Jobs
      PROVE  /\ file[j[1]][j[2]] = "none"
             /\ posts[RepoOf[j[1]]][j[2]] = 0 /\ wire[RepoOf[j[1]]][j[2]] = 0
  <2>1. PICK r \in Runs : j[1] = Task[r].state /\ j[2] \in Revisions
    BY DEF Jobs, States
  <2>2. RepoOf[j[1]] \in Repos
    BY <2>1, RepoOfState, RunTypes
  <2> QED BY <2>1, <2>2, RunTypes DEF Init, NoJobs
<1> QED BY <1>1 DEF Publication!Init

LEMMA PublicationStep ==
  ASSUME OneState, TypeOK, LocksInv, JobsInv, PostsInv, [Next]_vars
  PROVE  [Publication!Next]_(Publication!vars)
<1>1. CASE UNCHANGED <<posts, wire>>
  <2>1. PostsInv'
    BY PostsStep
  <2> QED BY <1>1, <2>1, LocalStep
<1>2. CASE \E r \in Runs : Send(r)
  BY <1>2, SendStep
<1>3. CASE \E p \in Repos, v \in Revisions : Deliver(p, v) \/ Decline(p, v)
  BY <1>3, AnswerStep
<1> QED BY <1>1, <1>2, <1>3, WireSteps

-----------------------------------------------------------------------------
(***************************************************************************)
(* Theorems.                                                               *)
(***************************************************************************)

SafeInv == TypeOK /\ LocksInv /\ RefusedInv /\ JobsInv

LEMMA Safe == Spec => []SafeInv
<1>1. Init => SafeInv
  BY InitType, InitLocks, InitJobs DEF SafeInv
<1>2. SafeInv /\ [Next]_vars => SafeInv'
  BY TypeStep, LocksStep, RefusedStep, JobsStep DEF SafeInv
<1> QED BY <1>1, <1>2, PTL DEF Spec

\* Every variable has its type.
THEOREM ServiceTypeCorrect == Spec => []TypeOK
<1>1. SafeInv => TypeOK
  BY DEF SafeInv
<1> QED BY <1>1, Safe, PTL

\* No two runs work on one repository, in one state directory or in one
\* checkout at a time (state.go: lockConfig).
THEOREM RunsExclude == Spec => []Exclusive
<1>1. SafeInv => Exclusive
  BY LocksExclude DEF SafeInv
<1> QED BY <1>1, Safe, PTL

\* A run works with its three locks only, and a handler that answers has none:
\* what a refused, failed or cut off run had taken is given back (state.go:
\* lockConfig).
THEOREM LocksGivenBack == Spec => []LocksReturned
<1>1. SafeInv => LocksReturned
  BY LocksFit DEF SafeInv
<1> QED BY <1>1, Safe, PTL

\* Runs that compete for locks are never all refused (state.go: the order in
\* which lockConfig takes them).
THEOREM OneGetsThrough == Spec => []NotAllRefused
<1>1. SafeInv => NotAllRefused
  BY SomebodyWorks DEF SafeInv
<1> QED BY <1>1, Safe, PTL

\* What a run has recorded as submitted is not written over by another.
THEOREM RecordsStand == Spec => SubmittedStays
<1>1. SafeInv /\ [Next]_vars =>
        [\A s \in States, v \in Revisions : file[s][v] = "submitted" => file'[s][v] = "submitted"]_vars
  BY SubmittedStep DEF SafeInv
<1> QED BY <1>1, Safe, PTL DEF Spec, SubmittedStays

LEMMA SafePosts == ASSUME OneState PROVE Spec => []PostsInv
<1>1. Init => PostsInv
  BY InitPosts
<1>2. SafeInv /\ PostsInv /\ [Next]_vars => PostsInv'
  BY PostsStep DEF SafeInv
<1> QED BY <1>1, <1>2, Safe, PTL DEF Spec

\* With one state directory per repository, runs review a revision once,
\* requests counted that GitHub may still act on (run.go: review).
THEOREM RunsPostOnce == ASSUME OneState PROVE Spec => []PostedOnce
<1>1. PostsInv => PostedOnce
  BY DEF PostsInv, Known, PostedOnce, Repos, Repo
<1> QED BY <1>1, SafePosts, PTL

\* With one state directory per repository, what a stream certifies is on
\* GitHub (worker.go: reviewResult).
THEOREM CertificatesHold == ASSUME OneState PROVE Spec => []CertifiedIsPosted
<1>1. PostsInv => CertifiedIsPosted
  BY DEF PostsInv
<1> QED BY <1>1, SafePosts, PTL

\* With one state directory per repository, the runs together keep the promise
\* of PublishOnce, job by job: they commit, send once, and leave the commitment
\* when the outcome is known, whoever of them is refused, cut off or started
\* again in between (run.go: review, reconcile; server.go: Shutdown).
THEOREM RunsKeepThePromise == ASSUME OneState PROVE Spec => RunsPublishOnce
<1>1. SafeInv /\ PostsInv /\ [Next]_vars => [Publication!Next]_(Publication!vars)
  BY PublicationStep DEF SafeInv
<1> QED BY <1>1, PublicationInit, Safe, SafePosts, PTL DEF Spec, RunsPublishOnce, Publication!Spec
=============================================================================
