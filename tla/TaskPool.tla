------------------------------- MODULE TaskPool -------------------------------
(* The worker pool of one mission (orchestrator/workers.py) on the task table
   of the store (store/db.py).  The scheduling loop and the workers are
   coroutines of one event loop: what runs between two suspension points is
   one action.  bus.publish never suspends, so a whole pass of the loop,
   promotion and claims included, is atomic, while a worker suspends in
   backend.create, in every agent step and in backend.teardown.

   The table outlives the process.  When a mission is resumed it has a pool
   again, on the rows of its former pools and on those of the plan that each
   resumption adds (orchestrator.py:53-63, 150-157).  Two processes running
   one mission at the same time are left to Mission (its variable shared).    *)
EXTENDS Naturals, FiniteSets

CONSTANTS
  Tasks,        \* the tasks of all the mission's plans
  PlanOf,       \* PlanOf[t]: the plan t belongs to; plan 0 is that of the first run
  SeqOf,        \* SeqOf[t]: the seq column of t, its place in its plan
  Deps,         \* Deps[t]: the depends_on column of t
  MaxWorkers,   \* max_workers, the "workers" column of the mission
  MaxAttempts,  \* MAX_ATTEMPTS of workers.py
  MaxSubmits,   \* bound: submit_candidate calls in one batch of tool calls
  MaxResumes    \* bound: resumptions that get as far as storing their plan

ASSUME TasksAssumption ==
  IsFiniteSet(Tasks) /\ PlanOf \in [Tasks -> Nat] /\ SeqOf \in [Tasks -> Nat]
(* validate_dag refuses a dependency that is not in the same plan. *)
ASSUME DepsAssumption ==
  /\ Deps \in [Tasks -> SUBSET Tasks]
  /\ \A t \in Tasks : \A d \in Deps[t] : PlanOf[d] = PlanOf[t]
ASSUME BoundsAssumption ==
  /\ MaxWorkers \in Nat \ {0} /\ MaxAttempts \in Nat \ {0}
  /\ MaxSubmits \in Nat /\ MaxResumes \in Nat

VARIABLES
  status,    \* status column of each task
  attempts,  \* attempts column of each task
  worker,    \* worker[r]: how far the coroutine of run r has come
  submits,   \* submits[r]: the candidates stored by run r
  pool,      \* how far run_until_done has come
  resumes    \* how often the mission was resumed

vars == <<status, attempts, worker, submits, pool, resumes>>

(* A task of a plan that is not stored yet is "absent". *)
Statuses == {"absent", "pending", "ready", "running", "done", "failed"}
Settled  == {"done", "failed"}

(* A run is one worker coroutine: its task, and the attempts value of the row
   it claimed, which is the value before the claim added one.  That value is
   also the number in the run's agent id.                                   *)
Runs == Tasks \X (0..(MaxAttempts + MaxResumes))

Phases == {"none",      \* never started
           "creating",  \* awaiting backend.create
           "agent",     \* awaiting agent.run
           "teardown",  \* status written, awaiting backend.teardown
           "ended",     \* over, its row written
           "lost",      \* backend.create raised: nothing touched the row
           "killed"}    \* died with its process before it wrote the row

(* Mutations: definitions that no other definition uses, each the form a
   plausible bug would give to the definition that follows it.  PROJECT.json
   says which property notices which mutation.                              *)
InflightNeverDiscarded == {r \in Runs : worker[r] # "none"}

Inflight   == {r \in Runs : worker[r] \in {"creating", "agent", "teardown"}}
Working(t) == {r \in Runs : r[1] = t /\ worker[r] \in {"creating", "agent"}}
Candidates(t) == {r \in Runs : r[1] = t /\ submits[r] > 0}

TypeOK ==
  /\ status \in [Tasks -> Statuses]
  /\ resumes \in 0..MaxResumes
  /\ attempts \in [Tasks -> 0..(MaxAttempts + 1 + resumes)]
  /\ worker \in [Runs -> Phases]
  /\ submits \in [Runs -> 0..MaxSubmits]
  /\ pool \in {"looping", "draining", "returned", "deadlock", "raised"}

Init ==
  /\ status = [t \in Tasks |-> IF PlanOf[t] = 0 THEN "pending" ELSE "absent"]
  /\ attempts = [t \in Tasks |-> 0]
  /\ worker = [r \in Runs |-> "none"]
  /\ submits = [r \in Runs |-> 0]
  /\ pool = "looping"
  /\ resumes = 0

-----------------------------------------------------------------------------
(* The server is killed and started again, and the mission resumed.         *)

ResetUnlessFailed == [t \in Tasks |->
  CASE status[t] \in {"running", "done"} -> "ready"
    [] status[t] = "absent" /\ PlanOf[t] = resumes + 1 -> "pending"
    [] OTHER -> status[t]]

(* rehydrate_pending_missions puts claimed, running and retrying rows back to
   "ready" and leaves their attempts; then the mission plans again, and
   create_tasks adds the rows of the new plan.                               *)
Rehydrated == [t \in Tasks |->
  CASE status[t] = "running" -> "ready"
    [] status[t] = "absent" /\ PlanOf[t] = resumes + 1 -> "pending"
    [] OTHER -> status[t]]

(* The coroutines die with the process, candidates stay.  If the ids of the new
   plan clash with old rows, or planning fails, there is no further pool.     *)
Resume ==
  /\ resumes < MaxResumes
  /\ resumes' = resumes + 1
  /\ status' = Rehydrated
  /\ worker' = [r \in Runs |->
        CASE worker[r] \in {"creating", "agent", "lost"} -> "killed"
          [] worker[r] = "teardown" -> "ended"
          [] OTHER -> worker[r]]
  /\ pool' = "looping"
  /\ UNCHANGED <<attempts, submits>>

-----------------------------------------------------------------------------
(* One pass of run_until_done.                                              *)

DepsSettled(t) == \A d \in Deps[t] : status[d] \in Settled

DepsDone(t) == \A d \in Deps[t] : status[d] = "done"

PromotedRootsOnly == [t \in Tasks |->
  IF status[t] = "pending" /\ Deps[t] = {} THEN "ready" ELSE status[t]]

(* _promote_ready_tasks *)
Promoted == [t \in Tasks |->
  IF status[t] = "pending" /\ DepsDone(t) THEN "ready" ELSE status[t]]

ClaimableWhileRunning == {t \in Tasks : /\ Promoted[t] \in {"ready", "running"}
                                        /\ attempts[t] <= MaxAttempts + resumes
                                        /\ DepsDone(t)}

(* What claim_ready_task would accept after the promotion. *)
Claimable == {t \in Tasks : Promoted[t] = "ready" /\ DepsDone(t)}

ClaimedOneTooMany(C) ==
  /\ \A t \in C, u \in Claimable \ C : SeqOf[t] <= SeqOf[u]
  /\ C # {} => Cardinality(Inflight) + Cardinality(C) <= MaxWorkers + 1
  /\ C = Claimable \/ Cardinality(Inflight) + Cardinality(C) > MaxWorkers

(* The claim loop takes claimable rows in seq order until the pool is full.  Rows
   of two plans may have the same seq; the order between them is SQLite's.    *)
ClaimedNow(C) ==
  /\ \A t \in C, u \in Claimable \ C : SeqOf[t] <= SeqOf[u]
  /\ C # {} => Cardinality(Inflight) + Cardinality(C) <= MaxWorkers
  /\ C = Claimable \/ Cardinality(Inflight) + Cardinality(C) >= MaxWorkers

(* Claim, mark running, start a coroutine for each claimed task. *)
Launch(C) ==
  /\ status' = [t \in Tasks |-> IF t \in C THEN "running" ELSE Promoted[t]]
  /\ attempts' = [t \in Tasks |-> IF t \in C THEN attempts[t] + 1 ELSE attempts[t]]
  /\ worker' = [r \in Runs |-> IF r[1] \in C /\ r[2] = attempts[r[1]]
                               THEN "creating" ELSE worker[r]]

NeverGivesUp(C) == FALSE

(* "task deadlock": nothing was claimed and nobody is in flight. *)
GivesUp(C) == Inflight = {} /\ C = {}

AllSettled == \A t \in Tasks : status[t] \in Settled \cup {"absent"}

Tick ==
  /\ pool = "looping"
  /\ ~AllSettled
  /\ \E C \in SUBSET Claimable :
       /\ ClaimedNow(C)
       /\ Launch(C)
       /\ pool' = IF GivesUp(C) THEN "deadlock" ELSE "looping"
  /\ UNCHANGED <<submits, resumes>>

LeaveLoop ==
  /\ pool = "looping"
  /\ AllSettled
  /\ pool' = "draining"
  /\ UNCHANGED <<status, attempts, worker, submits, resumes>>

(* asyncio.gather over the workers still in flight. *)
Gathered ==
  /\ pool = "draining"
  /\ Inflight = {}
  /\ pool' = "returned"
  /\ UNCHANGED <<status, attempts, worker, submits, resumes>>

-----------------------------------------------------------------------------
(* _run_worker.                                                             *)

Created(r) ==
  /\ worker[r] = "creating"
  /\ worker' = [worker EXCEPT ![r] = "agent"]
  /\ UNCHANGED <<status, attempts, submits, pool, resumes>>

(* backend.create is outside the try block: the exception stays in a task
   nobody awaits and the row stays "running".                               *)
CreateFails(r) ==
  /\ worker[r] = "creating"
  /\ worker' = [worker EXCEPT ![r] = "lost"]
  /\ UNCHANGED <<status, attempts, submits, pool, resumes>>

(* on_submit, possibly several times in one batch of tool calls. *)
Submit(r) ==
  /\ worker[r] = "agent"
  /\ submits[r] < MaxSubmits
  /\ submits' = [submits EXCEPT ![r] = @ + 1]
  /\ UNCHANGED <<status, attempts, worker, pool, resumes>>

(* agent.run returns: should_stop saw a submission, or the model answered
   without a tool call, or the steps are used up.  "submitted.is_set" is not
   called, so the condition holds in all three cases.                       *)
AgentReturns(r) ==
  /\ worker[r] = "agent"
  /\ status' = [status EXCEPT ![r[1]] = "done"]
  /\ worker' = [worker EXCEPT ![r] = "teardown"]
  /\ UNCHANGED <<attempts, submits, pool, resumes>>

(* The agent can only raise out of llm.chat, and after a submission the loop
   stops before the next chat.                                              *)
MayCrash(r) == worker[r] = "agent" /\ submits[r] = 0

RetryOnceMore(r)  == r[2] <= MaxAttempts + resumes
RetryOnceLess(r)  == r[2] + 1 < MaxAttempts

(* _retry_or_fail, with the attempts value of the claimed row. *)
MayRetry(r) == r[2] < MaxAttempts

CountedAsClaimed(r) == r[2]
(* What the retry writes into the attempts column. *)
CountedAgain(r) == r[2] + 1

AgentCrashes(r) ==
  /\ MayCrash(r)
  /\ IF MayRetry(r)
     THEN /\ status' = [status EXCEPT ![r[1]] = "ready"]
          /\ attempts' = [attempts EXCEPT ![r[1]] = CountedAgain(r)]
     ELSE /\ status' = [status EXCEPT ![r[1]] = "failed"]
          /\ UNCHANGED attempts
  /\ worker' = [worker EXCEPT ![r] = "teardown"]
  /\ UNCHANGED <<submits, pool, resumes>>

TornDown(r) ==
  /\ worker[r] = "teardown"
  /\ worker' = [worker EXCEPT ![r] = "ended"]
  /\ UNCHANGED <<status, attempts, submits, pool, resumes>>

(* A teardown that raises is only noticed by the final gather, which then
   raises out of the pool and cancels the other workers.                    *)
TeardownFails(r) ==
  /\ worker[r] = "teardown"
  /\ IF pool = "draining"
     THEN /\ pool' = "raised"
          /\ worker' = [q \in Runs |-> IF q \in Inflight THEN "ended" ELSE worker[q]]
     ELSE /\ worker' = [worker EXCEPT ![r] = "ended"]
          /\ UNCHANGED pool
  /\ UNCHANGED <<status, attempts, submits, resumes>>

WorkerStep(r) ==
  \/ Created(r) \/ CreateFails(r)
  \/ Submit(r) \/ AgentReturns(r) \/ AgentCrashes(r)
  \/ TornDown(r) \/ TeardownFails(r)

PoolStep == Tick \/ LeaveLoop \/ Gathered

Next == Resume \/ PoolStep \/ \E r \in Runs : WorkerStep(r)

Spec == Init /\ [][Next]_vars

(* The loop wakes up every POLL_INTERVAL_S and every await of a worker ends:
   subprocesses and chat calls have timeouts, agent steps are bounded.  As a pool
   and its workers only ever go forward, it is enough that something of this goes
   on.  No fairness makes a server die or a mission resume.                  *)
Progress == PoolStep \/ \E r \in Runs : WorkerStep(r)

FairSpec == Spec /\ WF_vars(Progress)

-----------------------------------------------------------------------------
(* Properties.                                                              *)

(* A task is never worked on by two workers: the status guard of the claim's
   UPDATE and the retry that puts the row back only once its worker is through. *)
OneWorkerPerTask == \A t \in Tasks : \A q, r \in Working(t) : q = r

(* While a worker is busy with a task, every dependency of the task is done,
   although other workers keep writing the table.                           *)
DepsDoneWhileWorking ==
  \A t \in Tasks : Working(t) # {} => \A d \in Deps[t] : status[d] = "done"

(* max_workers bounds the coroutines, those still tearing down included.    *)
BoundedParallelism == Cardinality(Inflight) <= MaxWorkers

(* A task that has a candidate is run again, or fails, only if the server died
   after the candidate was stored and before its run wrote "done": any other
   run that stored one is the last of its task, retries and resumptions
   included.  (After such a kill verifier and judge do see two runs' candidates
   of one task: README, divergences.)                                        *)
RerunOnlyAfterKill ==
  \A t \in Tasks : \A r \in Candidates(t) : worker[r] # "killed" =>
    /\ status[t] \in {"running", "done"}
    /\ attempts[t] = r[2] + 1

(* A task fails only after at least MAX_ATTEMPTS + 1 runs, all of them over, of
   which none but those cut short by a kill left a candidate.                *)
FailedOnlyAfterEveryRun ==
  \A t \in Tasks : status[t] = "failed" =>
    /\ attempts[t] > MaxAttempts
    /\ \A a \in 0..(attempts[t] - 1) :
         /\ worker[<<t, a>>] \in {"teardown", "ended", "killed"}
         /\ submits[<<t, a>>] > 0 => worker[<<t, a>>] = "killed"

(* The pool reports a "task deadlock" only when some task did fail or lost its
   worker in this process; neither a plan whose workers all return nor a row
   left over by a killed process ends that way.                             *)
DeadlockHasCause ==
  pool = "deadlock" => \/ \E t \in Tasks : status[t] = "failed"
                       \/ \E r \in Runs : worker[r] = "lost"

(* validate_dag has accepted the plan: among any tasks there is one that depends
   on none of them.                                                          *)
Acyclic == \A S \in SUBSET Tasks : S # {} => \E t \in S : Deps[t] \cap S = {}

(* No promotion, claim or late worker moves a row out of done or failed.    *)
SettledIsFinal ==
  [][\A t \in Tasks : status[t] \in Settled => status'[t] = status[t]]_vars

(* No agent id is used twice, over retries and resumptions: the attempts column
   that numbers a run is read by the claim, written back by the retry and left
   alone by a restart, and the rows of the agents table are keyed by it
   (INSERT OR IGNORE).                                                       *)
AgentIdsAreFresh ==
  [][\A r \in Runs :
       worker'[r] = "creating" /\ worker[r] # "creating" => worker[r] = "none"]_vars

(* run_until_done always ends, by returning or by raising, also when the mission
   is resumed once more.                                                     *)
PoolEnds == []<>(pool \in {"returned", "deadlock", "raised"})

(* A ready row is eventually claimed, however often earlier rows are retried. *)
ReadyIsClaimed == \A t \in Tasks : status[t] = "ready" ~> status[t] # "ready"

(* What makes the properties above inductive (proved in TaskPoolProofs).    *)
Started  == \A r \in Runs : worker[r] = "none" <=> attempts[r[1]] <= r[2]
BusyRow  == \A r \in Runs : worker[r] \in {"creating", "agent", "lost"} =>
              status[r[1]] = "running" /\ attempts[r[1]] = r[2] + 1
RunLeft  == \A t \in Tasks : status[t] \in {"absent", "pending", "ready"} =>
              attempts[t] <= MaxAttempts + resumes
DepsKept == \A t \in Tasks : status[t] \notin {"absent", "pending"} =>
              \A d \in Deps[t] : status[d] = "done"
HandedIn == \A r \in Runs : submits[r] > 0 =>
              \/ worker[r] = "agent" \/ worker[r] = "killed"
              \/ /\ worker[r] \in {"teardown", "ended"}
                 /\ status[r[1]] = "done" /\ attempts[r[1]] = r[2] + 1
UsedUp   == \A t \in Tasks : status[t] = "failed" => attempts[t] > MaxAttempts
Unplanned == \A t \in Tasks : status[t] = "absent" <=> PlanOf[t] > resumes
Drained  == pool = "draining" => AllSettled

IInv == /\ TypeOK /\ Started /\ BusyRow /\ RunLeft /\ DepsKept /\ HandedIn /\ UsedUp
        /\ Unplanned /\ BoundedParallelism /\ Drained

-----------------------------------------------------------------------------
(* The pool keeps the promise of TaskBoard: a row that is running without a
   worker is a lost card.                                                   *)

CardOf(t) ==
  CASE status[t] = "absent" -> "unwritten"
    [] status[t] \in {"pending", "ready"} -> "open"
    [] status[t] = "done"   -> "accepted"
    [] status[t] = "failed" -> "rejected"
    [] OTHER -> IF Working(t) # {} THEN "active" ELSE "lost"

Board == INSTANCE TaskBoard WITH
  card     <- [t \in Tasks |-> CardOf(t)],
  runs     <- attempts,
  closed   <- pool # "looping",
  reopened <- resumes,
  Workers  <- MaxWorkers,
  MaxRuns  <- MaxAttempts + 1

(* Every pass of the loop and every step of a worker is a step of the board
   or leaves it unchanged.                                                  *)
ImplementsBoard == Board!Spec

-----------------------------------------------------------------------------
(* What the documentation says of the pool.                                 *)

(* docs/ARCHITECTURE.md:78-80: a worker that finishes without submitting is
   retried, so a done task has a candidate.                                 *)
DoneTaskHasCandidate == \A t \in Tasks : status[t] = "done" => Candidates(t) # {}
=============================================================================
