---------------------------- MODULE TaskPoolProofs ----------------------------
(* Proofs about TaskPool, for any finite set of tasks, any plans, dependencies,
   bounds and number of resumptions.  The inductive invariant is IInv of TaskPool; there is one
   lemma per kind of step.                                                  *)
EXTENDS TaskPool, FiniteSetTheorems, TLAPS

USE TasksAssumption, DepsAssumption, BoundsAssumption

-----------------------------------------------------------------------------
(* The parts of IInv that speak of rows and runs, without the counting.     *)
Rows == /\ TypeOK /\ Started /\ BusyRow /\ RunLeft /\ DepsKept /\ HandedIn /\ UsedUp
        /\ Unplanned

(* A run is determined by its task and its number. *)
LEMMA RunsArePairs ==
  /\ \A r \in Runs : r[1] \in Tasks /\ r[2] \in 0..(MaxAttempts + MaxResumes) /\ r[2] \in Nat
  /\ \A q, r \in Runs : q[1] = r[1] /\ q[2] = r[2] => q = r
BY DEF Runs

(* The attempts column counts, and so do the resumptions. *)
LEMMA AttemptsAreNat ==
  TypeOK => resumes \in 0..MaxResumes /\ \A t \in Tasks : attempts[t] \in Nat
BY DEF TypeOK

(* A stored plan that nobody has worked on satisfies every part. *)
LEMMA RowsInit == Init => Rows
<1> SUFFICES ASSUME Init PROVE Rows
  OBVIOUS
<1>1. TypeOK
  BY DEF Init, TypeOK, Statuses, Phases
<1>2. Started /\ BusyRow /\ HandedIn
  BY RunsArePairs DEF Init, Started, BusyRow, HandedIn
<1>3. RunLeft /\ DepsKept /\ UsedUp /\ Unplanned
  BY DEF Init, RunLeft, DepsKept, UsedUp, Unplanned
<1>. QED  BY <1>1, <1>2, <1>3 DEF Rows

(* A resumption keeps the rows consistent: the rows it frees have a run left
   that no run of a former process has used.                                 *)
LEMMA RowsResume == Rows /\ Resume => Rows'
<1> SUFFICES ASSUME Rows, Resume PROVE Rows'
  OBVIOUS
<1>0. /\ TypeOK /\ resumes \in 0..MaxResumes /\ resumes < MaxResumes
      /\ resumes' = resumes + 1 /\ UNCHANGED <<attempts, submits>>
      /\ pool' = "looping"
  BY AttemptsAreNat DEF Rows, Resume
<1>1. \A t \in Tasks :
        \/ status[t] = "running" /\ status'[t] = "ready"
        \/ status[t] = "absent" /\ PlanOf[t] = resumes + 1 /\ status'[t] = "pending"
        \/ /\ status[t] # "running" /\ ~(status[t] = "absent" /\ PlanOf[t] = resumes + 1)
           /\ status'[t] = status[t]
  BY DEF Resume, Rehydrated
<1>2. \A r \in Runs :
        \/ worker[r] \in {"creating", "agent", "lost"} /\ worker'[r] = "killed"
        \/ worker[r] = "teardown" /\ worker'[r] = "ended"
        \/ worker[r] \notin {"creating", "agent", "lost", "teardown"} /\ worker'[r] = worker[r]
  BY DEF Resume
<1>3. TypeOK'
  <2>1. status' \in [Tasks -> Statuses]
    BY <1>0 DEF Resume, Rehydrated, TypeOK, Statuses
  <2>2. attempts' \in [Tasks -> 0..(MaxAttempts + 1 + resumes')]
    BY <1>0 DEF TypeOK
  <2>3. worker' \in [Runs -> Phases]
    BY <1>0 DEF Resume, TypeOK, Phases
  <2>. QED  BY <2>1, <2>2, <2>3, <1>0 DEF TypeOK
<1>4. Started'
  BY <1>0, <1>2 DEF Rows, Started
<1>5. BusyRow'
  BY <1>2 DEF BusyRow
<1>6. RunLeft'
  <2>. SUFFICES ASSUME NEW t \in Tasks, status'[t] \in {"absent", "pending", "ready"}
                PROVE  attempts'[t] <= MaxAttempts + resumes'
    BY DEF RunLeft
  <2>1. attempts[t] \in 0..(MaxAttempts + 1 + resumes)
    BY <1>0 DEF TypeOK
  <2>. QED  BY <2>1, <1>0
<1>7. DepsKept'
  <2>. SUFFICES ASSUME NEW t \in Tasks, status'[t] \notin {"absent", "pending"},
                       NEW d \in Deps[t]
                PROVE  status'[d] = "done"
    BY DEF DepsKept
  <2>1. status[t] \notin {"absent", "pending"}
    BY <1>1
  <2>2. d \in Tasks /\ status[d] = "done"
    BY <2>1 DEF Rows, DepsKept
  <2>. QED  BY <2>2, <1>1
<1>8. HandedIn'
  <2>. SUFFICES ASSUME NEW r \in Runs, submits'[r] > 0
                PROVE  \/ worker'[r] = "agent" \/ worker'[r] = "killed"
                       \/ /\ worker'[r] \in {"teardown", "ended"}
                          /\ status'[r[1]] = "done" /\ attempts'[r[1]] = r[2] + 1
    BY DEF HandedIn
  <2>1. r[1] \in Tasks /\ submits[r] > 0
    BY <1>0, RunsArePairs
  <2>2. \/ worker[r] = "agent" \/ worker[r] = "killed"
        \/ /\ worker[r] \in {"teardown", "ended"}
           /\ status[r[1]] = "done" /\ attempts[r[1]] = r[2] + 1
    BY <2>1 DEF Rows, HandedIn
  <2>. QED  BY <2>1, <2>2, <1>0, <1>1, <1>2
<1>9. UsedUp'
  BY <1>0, <1>1 DEF Rows, UsedUp
<1>10. Unplanned'
  <2>. SUFFICES ASSUME NEW t \in Tasks
                PROVE  status'[t] = "absent" <=> PlanOf[t] > resumes'
    BY DEF Unplanned
  <2>1. PlanOf[t] \in Nat /\ (status[t] = "absent" <=> PlanOf[t] > resumes)
    BY DEF Rows, Unplanned
  <2>. QED  BY <2>1, <1>0, <1>1
<1>. QED  BY <1>3, <1>4, <1>5, <1>6, <1>7, <1>8, <1>9, <1>10 DEF Rows

(* A pass of the scheduling loop keeps the rows consistent: a promoted or
   claimed row has its dependencies done, and a claimed row starts the run
   whose number is its attempts value.                                      *)
LEMMA RowsTick == Rows /\ Tick => Rows'
<1> SUFFICES ASSUME Rows, Tick PROVE Rows'
  OBVIOUS
<1>1. PICK C \in SUBSET Claimable : ClaimedNow(C) /\ Launch(C)
  BY DEF Tick
<1>0. C \in SUBSET Tasks
  BY <1>1 DEF Claimable
<1>2. \A t \in C : /\ status[t] \in {"pending", "ready"}
                   /\ DepsDone(t)
                   /\ attempts[t] \in 0..(MaxAttempts + resumes)
  <2>. SUFFICES ASSUME NEW t \in C
                PROVE  /\ status[t] \in {"pending", "ready"}
                       /\ DepsDone(t)
                       /\ attempts[t] \in 0..(MaxAttempts + resumes)
    OBVIOUS
  <2>1. t \in Tasks /\ Promoted[t] = "ready" /\ DepsDone(t)
    BY <1>1 DEF Claimable
  <2>2. status[t] \in {"pending", "ready"}
    BY <2>1 DEF Promoted
  <2>3. attempts[t] <= MaxAttempts + resumes
    BY <2>1, <2>2 DEF Rows, RunLeft
  <2>. QED  BY <2>1, <2>2, <2>3 DEF Rows, TypeOK
<1>3. \A t \in Tasks \ C : /\ attempts'[t] = attempts[t]
                           /\ \/ status'[t] = status[t]
                              \/ status[t] = "pending" /\ status'[t] = "ready" /\ DepsDone(t)
  BY <1>1 DEF Launch, Promoted
<1>4. \A t \in C : status'[t] = "running" /\ attempts'[t] = attempts[t] + 1
  BY <1>1, <1>0 DEF Launch
<1>5. \A r \in Runs : worker'[r] = IF r[1] \in C /\ r[2] = attempts[r[1]]
                                   THEN "creating" ELSE worker[r]
  BY <1>1 DEF Launch
<1>6. UNCHANGED <<submits, resumes>>
  BY DEF Tick
<1>7. TypeOK'
  <2>1. status' \in [Tasks -> Statuses]
    BY <1>1 DEF Launch, Promoted, Rows, TypeOK, Statuses
  <2>2. attempts' \in [Tasks -> 0..(MaxAttempts + 1 + resumes)]
    BY <1>1, <1>2 DEF Launch, Rows, TypeOK
  <2>3. worker' \in [Runs -> Phases]
    BY <1>1 DEF Launch, Rows, TypeOK, Phases
  <2>4. pool' \in {"looping", "draining", "returned", "deadlock", "raised"}
    BY DEF Tick
  <2>. QED  BY <2>1, <2>2, <2>3, <2>4, <1>6 DEF Rows, TypeOK
<1>8. Started'
  <2>. SUFFICES ASSUME NEW r \in Runs
                PROVE  worker'[r] = "none" <=> attempts'[r[1]] <= r[2]
    BY DEF Started
  <2>0. /\ r[1] \in Tasks /\ r[2] \in Nat /\ attempts[r[1]] \in Nat
        /\ worker[r] = "none" <=> attempts[r[1]] <= r[2]
    BY RunsArePairs, AttemptsAreNat DEF Rows, Started
  <2>1. CASE r[1] \notin C
    BY <2>0, <2>1, <1>3, <1>5
  <2>2. CASE r[1] \in C
    <3>1. attempts'[r[1]] = attempts[r[1]] + 1
      BY <2>2, <1>4
    <3>2. CASE r[2] = attempts[r[1]]
      BY <3>1, <3>2, <2>0, <2>2, <1>5
    <3>3. CASE r[2] # attempts[r[1]]
      <4>1. worker'[r] = worker[r]
        BY <3>3, <1>5
      <4>. QED  BY <4>1, <3>1, <3>3, <2>0
    <3>. QED  BY <3>2, <3>3
  <2>. QED  BY <2>1, <2>2
<1>9. BusyRow'
  <2>. SUFFICES ASSUME NEW r \in Runs, worker'[r] \in {"creating", "agent", "lost"}
                PROVE  status'[r[1]] = "running" /\ attempts'[r[1]] = r[2] + 1
    BY DEF BusyRow
  <2>0. r[1] \in Tasks
    BY RunsArePairs
  <2>1. CASE r[1] \in C /\ r[2] = attempts[r[1]]
    BY <2>1, <1>4
  <2>2. CASE ~(r[1] \in C /\ r[2] = attempts[r[1]])
    <3>1. status[r[1]] = "running" /\ attempts[r[1]] = r[2] + 1
      BY <2>2, <1>5 DEF Rows, BusyRow
    <3>. QED  BY <3>1, <2>0, <1>2, <1>3
  <2>. QED  BY <2>1, <2>2
<1>10. RunLeft'
  <2>. SUFFICES ASSUME NEW t \in Tasks, status'[t] \in {"absent", "pending", "ready"}
                PROVE  attempts'[t] <= MaxAttempts + resumes'
    BY DEF RunLeft
  <2>1. t \notin C
    BY <1>4
  <2>. QED  BY <2>1, <1>3, <1>6 DEF Rows, RunLeft
<1>11. DepsKept'
  <2>. SUFFICES ASSUME NEW t \in Tasks, status'[t] \notin {"absent", "pending"},
                       NEW d \in Deps[t]
                PROVE  status'[d] = "done"
    BY DEF DepsKept
  <2>1. status[d] = "done"
    BY <1>2, <1>3 DEF DepsDone, Rows, DepsKept
  <2>. QED  BY <2>1, <1>2, <1>3
<1>12. HandedIn'
  <2>. SUFFICES ASSUME NEW r \in Runs, submits'[r] > 0
                PROVE  \/ worker'[r] = "agent" \/ worker'[r] = "killed"
                       \/ /\ worker'[r] \in {"teardown", "ended"}
                          /\ status'[r[1]] = "done" /\ attempts'[r[1]] = r[2] + 1
    BY DEF HandedIn
  <2>1. \/ worker[r] = "agent" \/ worker[r] = "killed"
        \/ /\ worker[r] \in {"teardown", "ended"}
           /\ status[r[1]] = "done" /\ attempts[r[1]] = r[2] + 1
    BY <1>6 DEF Rows, HandedIn
  <2>2. r[1] \in Tasks /\ r[2] \in Nat /\ (worker[r] = "none" <=> attempts[r[1]] <= r[2])
    BY RunsArePairs DEF Rows, Started
  <2>3. worker'[r] = worker[r]
    BY <2>1, <2>2, <1>5
  <2>4. CASE worker[r] \in {"agent", "killed"}
    BY <2>3, <2>4
  <2>5. CASE worker[r] \in {"teardown", "ended"}
    <3>1. r[1] \in Tasks \ C
      BY <2>1, <2>2, <2>5, <1>2
    <3>. QED  BY <2>1, <2>3, <2>5, <3>1, <1>3
  <2>. QED  BY <2>1, <2>4, <2>5
<1>13. UsedUp'
  BY <1>3, <1>4 DEF Rows, UsedUp
<1>14. Unplanned'
  BY <1>2, <1>3, <1>4, <1>6 DEF Rows, Unplanned
<1>. QED  BY <1>7, <1>8, <1>9, <1>10, <1>11, <1>12, <1>13, <1>14 DEF Rows

(* The other steps of the loop touch no row. *)
LEMMA RowsLoopEnds == Rows /\ (LeaveLoop \/ Gathered) => Rows'
BY DEF Rows, LeaveLoop, Gathered, TypeOK, Started, BusyRow, RunLeft, DepsKept,
       HandedIn, UsedUp, Unplanned

(* The steps of a worker that write no row. *)
LEMMA RowsQuietStep ==
  ASSUME NEW r \in Runs, Rows, Drained,
         Created(r) \/ CreateFails(r) \/ Submit(r) \/ TornDown(r) \/ TeardownFails(r)
  PROVE  Rows'
<1>1. TypeOK'
  BY DEF Rows, TypeOK, Created, CreateFails, Submit, TornDown, TeardownFails, Phases
<1>2. Started' /\ BusyRow'
  BY DEF Rows, TypeOK, Started, BusyRow, Inflight, Created, CreateFails, Submit,
         TornDown, TeardownFails
<1>3. RunLeft' /\ DepsKept' /\ UsedUp' /\ Unplanned'
  BY DEF Rows, RunLeft, DepsKept, UsedUp, Unplanned, Created, CreateFails, Submit,
         TornDown, TeardownFails
<1>4. HandedIn'
  <2>1. CASE Created(r) \/ CreateFails(r) \/ Submit(r) \/ TornDown(r)
    BY <2>1, RunsArePairs DEF Rows, TypeOK, HandedIn, Created, CreateFails, Submit, TornDown
  <2>2. CASE TeardownFails(r)
    <3>1. pool = "draining" => \A q \in Runs : worker[q] # "agent"
      BY RunsArePairs DEF Drained, AllSettled, Settled, Rows, BusyRow
    <3>. QED  BY <2>2, <3>1, RunsArePairs DEF Rows, TypeOK, HandedIn, Inflight, TeardownFails
  <2>. QED  BY <2>1, <2>2
<1>. QED  BY <1>1, <1>2, <1>3, <1>4 DEF Rows

(* A worker whose agent returned marks the row done and starts its teardown. *)
LEMMA RowsReturn ==
  ASSUME NEW r \in Runs, Rows, AgentReturns(r)
  PROVE  Rows'
<1>. /\ r[1] \in Tasks /\ worker[r] = "agent"
     /\ status' = [status EXCEPT ![r[1]] = "done"]
     /\ worker' = [worker EXCEPT ![r] = "teardown"]
     /\ UNCHANGED <<attempts, submits, pool, resumes>>
  BY RunsArePairs DEF AgentReturns
<1>1. status[r[1]] = "running" /\ attempts[r[1]] = r[2] + 1
  BY DEF Rows, BusyRow
<1>2. TypeOK'
  BY DEF Rows, TypeOK, Statuses, Phases
<1>3. Started'
  BY <1>1, RunsArePairs DEF Rows, TypeOK, Started
<1>6. BusyRow'
  <2>. SUFFICES ASSUME NEW q \in Runs, worker'[q] \in {"creating", "agent", "lost"}
                PROVE  status'[q[1]] = "running" /\ attempts'[q[1]] = q[2] + 1
    BY DEF BusyRow
  <2>1. q # r /\ worker[q] = worker'[q]
    BY DEF Rows, TypeOK
  <2>2. status[q[1]] = "running" /\ attempts[q[1]] = q[2] + 1
    BY <2>1 DEF Rows, BusyRow
  <2>3. q[1] # r[1]
    BY <1>1, <2>1, <2>2, RunsArePairs
  <2>. QED  BY <2>2, <2>3, RunsArePairs DEF Rows, TypeOK
<1>4. RunLeft' /\ DepsKept' /\ UsedUp' /\ Unplanned'
  BY <1>1 DEF Rows, TypeOK, RunLeft, DepsKept, UsedUp, Unplanned
<1>5. HandedIn'
  BY <1>1, RunsArePairs DEF Rows, TypeOK, HandedIn
<1>. QED  BY <1>2, <1>3, <1>4, <1>5, <1>6 DEF Rows

(* _retry_or_fail writes back the attempts value the row already has. *)
LEMMA CrashKeepsAttempts ==
  ASSUME NEW r \in Runs, TypeOK, BusyRow, AgentCrashes(r)
  PROVE  attempts' = attempts
<1>1. attempts[r[1]] = r[2] + 1
  BY DEF AgentCrashes, MayCrash, BusyRow
<1>2. attempts \in [Tasks -> 0..(MaxAttempts + 1 + resumes)]
  BY DEF TypeOK
<1>3. CASE MayRetry(r)
  <2>1. attempts' = [attempts EXCEPT ![r[1]] = attempts[r[1]]]
    BY <1>1, <1>3 DEF AgentCrashes, CountedAgain
  <2>. QED  BY <2>1, <1>2
<1>4. CASE ~MayRetry(r)
  BY <1>4 DEF AgentCrashes
<1>. QED  BY <1>3, <1>4

(* A worker whose agent crashed puts the row back to ready, or fails it. *)
LEMMA RowsCrash ==
  ASSUME NEW r \in Runs, Rows, AgentCrashes(r)
  PROVE  Rows'
<1>. /\ r[1] \in Tasks /\ r[2] \in 0..(MaxAttempts + MaxResumes) /\ r[2] \in Nat
     /\ worker[r] = "agent" /\ submits[r] = 0
     /\ worker' = [worker EXCEPT ![r] = "teardown"]
     /\ UNCHANGED <<submits, pool, resumes>>
  BY RunsArePairs DEF AgentCrashes, MayCrash
<1>1. status[r[1]] = "running" /\ attempts[r[1]] = r[2] + 1
  BY DEF Rows, BusyRow
<1>2. attempts' = attempts
  BY CrashKeepsAttempts DEF Rows
<1>3. \/ status' = [status EXCEPT ![r[1]] = "ready"] /\ r[2] < MaxAttempts
      \/ status' = [status EXCEPT ![r[1]] = "failed"] /\ r[2] >= MaxAttempts
  BY DEF AgentCrashes, MayRetry
<1>4. TypeOK'
  BY <1>2, <1>3 DEF Rows, TypeOK, Statuses, Phases
<1>5. Started'
  BY <1>2 DEF Rows, TypeOK, Started
<1>6. BusyRow'
  <2>. SUFFICES ASSUME NEW q \in Runs, worker'[q] \in {"creating", "agent", "lost"}
                PROVE  status'[q[1]] = "running" /\ attempts'[q[1]] = q[2] + 1
    BY DEF BusyRow
  <2>1. q # r /\ worker[q] = worker'[q]
    BY DEF Rows, TypeOK
  <2>2. status[q[1]] = "running" /\ attempts[q[1]] = q[2] + 1
    BY <2>1 DEF Rows, BusyRow
  <2>3. q[1] # r[1]
    BY <2>1, <2>2, <1>1, RunsArePairs
  <2>. QED  BY <2>2, <2>3, <1>2, <1>3, RunsArePairs DEF Rows, TypeOK
<1>7. RunLeft' /\ DepsKept' /\ UsedUp' /\ Unplanned'
  BY <1>1, <1>2, <1>3, AttemptsAreNat
  DEF Rows, TypeOK, RunLeft, DepsKept, UsedUp, Unplanned
<1>8. HandedIn'
  <2>. SUFFICES ASSUME NEW q \in Runs, submits'[q] > 0
                PROVE  \/ worker'[q] = "agent" \/ worker'[q] = "killed"
                       \/ /\ worker'[q] \in {"teardown", "ended"}
                          /\ status'[q[1]] = "done" /\ attempts'[q[1]] = q[2] + 1
    BY DEF HandedIn
  <2>1. /\ q # r
        /\ \/ worker[q] = "agent" \/ worker[q] = "killed"
           \/ /\ worker[q] \in {"teardown", "ended"}
              /\ status[q[1]] = "done" /\ attempts[q[1]] = q[2] + 1
    BY DEF Rows, HandedIn
  <2>2. worker'[q] = worker[q]
    BY <2>1 DEF Rows, TypeOK
  <2>3. CASE worker[q] \in {"teardown", "ended"}
    <3>1. q[1] # r[1]
      BY <2>1, <2>3, <1>1
    <3>. QED  BY <2>1, <2>2, <2>3, <3>1, <1>2, <1>3, RunsArePairs DEF Rows, TypeOK
  <2>. QED  BY <2>1, <2>2, <2>3
<1>. QED  BY <1>4, <1>5, <1>6, <1>7, <1>8 DEF Rows

(* Every step of the pool and of its workers keeps the rows consistent. *)
LEMMA RowsStep == Rows /\ Drained /\ [Next]_vars => Rows'
<1> SUFFICES ASSUME Rows, Drained, [Next]_vars PROVE Rows'
  OBVIOUS
<1>1. CASE PoolStep
  BY <1>1, RowsTick, RowsLoopEnds DEF PoolStep
<1>2. CASE \E r \in Runs : WorkerStep(r)
  BY <1>2, RowsQuietStep, RowsReturn, RowsCrash DEF WorkerStep
<1>3. CASE UNCHANGED vars
  BY <1>3 DEF vars, Rows, TypeOK, Started, BusyRow, RunLeft, DepsKept, HandedIn, UsedUp,
              Unplanned
<1>4. CASE Resume
  BY <1>4, RowsResume
<1>. QED  BY <1>1, <1>2, <1>3, <1>4 DEF Next

-----------------------------------------------------------------------------
(* Counting the coroutines in flight.                                       *)

(* There are finitely many runs: tasks times attempts. *)
LEMMA RunsAreFinite == IsFiniteSet(Runs)
<1>1. IsFiniteSet(0..(MaxAttempts + MaxResumes))
  BY FS_Interval
<1>. QED  BY <1>1, FS_Product DEF Runs

(* What is in flight can be counted. *)
LEMMA InflightIsFinite == IsFiniteSet(Inflight) /\ Cardinality(Inflight) \in Nat
<1>1. Inflight \in SUBSET Runs
  BY DEF Inflight
<1>. QED  BY <1>1, RunsAreFinite, FS_Subset, FS_CardinalityType

(* One pass starts at most one coroutine per claimed task. *)
LEMMA LaunchAddsAtMost ==
  ASSUME TypeOK, NEW C \in SUBSET Tasks, Launch(C)
  PROVE  \/ C = {} /\ Inflight' = Inflight
         \/ Cardinality(Inflight') <= Cardinality(Inflight) + Cardinality(C)
<1>. DEFINE New == {r \in Runs : r[1] \in C /\ r[2] = attempts[r[1]]}
<1>0. \A r \in Runs : worker'[r] = IF r \in New THEN "creating" ELSE worker[r]
  BY DEF Launch
<1>1. CASE C = {}
  BY <1>0, <1>1 DEF Inflight
<1>2. CASE C # {}
  <2>1. IsFiniteSet(C) /\ Cardinality(C) \in Nat
    BY FS_Subset, FS_CardinalityType
  <2>. DEFINE f == [t \in C |-> IF <<t, attempts[t]>> \in New THEN <<t, attempts[t]>>
                                ELSE CHOOSE r \in New : TRUE]
  <2>2. CASE New = {}
    <3>1. Inflight' = Inflight
      BY <2>2, <1>0 DEF Inflight
    <3>. QED  BY <3>1, <2>1, InflightIsFinite
  <2>3. CASE New # {}
    <3>1. f \in [C -> New]
      BY <2>3
    <3>2. \A r \in New : f[r[1]] = r
      <4>. SUFFICES ASSUME NEW r \in New PROVE f[r[1]] = r
        OBVIOUS
      <4>1. r = <<r[1], r[2]>>
        BY DEF Runs
      <4>. QED  BY <4>1
    <3>3. f \in Surjection(C, New)
      <4>. SUFFICES \A r \in New : \E t \in C : f[t] = r
        BY <3>1 DEF Surjection
      <4>. QED  BY <3>2
    <3>4. IsFiniteSet(New) /\ Cardinality(New) <= Cardinality(C)
      BY <3>3, <2>1, FS_Surjection
    <3>5. Inflight' = Inflight \cup (New \ Inflight)
      BY <1>0 DEF Inflight
    <3>. DEFINE Fresh == New \ Inflight
    <3>6. /\ IsFiniteSet(Fresh) /\ Cardinality(Fresh) \in Nat
          /\ Cardinality(Fresh) <= Cardinality(New) /\ Cardinality(New) \in Nat
      <4>1. Fresh \in SUBSET New
        OBVIOUS
      <4>. QED  BY <4>1, <3>4, FS_Subset, FS_CardinalityType
    <3>7. Cardinality(Inflight \cup Fresh) = Cardinality(Inflight) + Cardinality(Fresh)
      <4>1. Inflight \cap Fresh = {}
        OBVIOUS
      <4>2. Cardinality(Inflight \cap Fresh) = 0
        BY <4>1, FS_EmptySet
      <4>3. Cardinality(Inflight \cup Fresh) =
              Cardinality(Inflight) + Cardinality(Fresh) - Cardinality(Inflight \cap Fresh)
        BY <3>6, InflightIsFinite, FS_Union
      <4>. QED  BY <4>2, <4>3, <3>6, InflightIsFinite
    <3>. QED  BY <3>4, <3>5, <3>6, <3>7, <2>1, InflightIsFinite
  <2>. QED  BY <2>2, <2>3
<1>. QED  BY <1>1, <1>2

(* Every other step leaves the set of coroutines in flight or shrinks it. *)
LEMMA OthersAddNone ==
  ASSUME TypeOK, \/ LeaveLoop \/ Gathered \/ Resume \/ UNCHANGED vars
                 \/ \E r \in Runs : WorkerStep(r)
  PROVE  Inflight' \subseteq Inflight
<1>0. CASE Resume
  BY <1>0 DEF Resume, Inflight
<1>1. CASE LeaveLoop \/ Gathered \/ UNCHANGED vars
  BY <1>1 DEF LeaveLoop, Gathered, vars, Inflight
<1>2. ASSUME NEW r \in Runs, WorkerStep(r) PROVE Inflight' \subseteq Inflight
  BY <1>2 DEF TypeOK, Inflight, WorkerStep, Created, CreateFails, Submit, AgentReturns,
              AgentCrashes, MayCrash, TornDown, TeardownFails
<1>. QED  BY <1>0, <1>1, <1>2

(* A pass claims only as much as max_workers leaves room for. *)
LEMMA BoundedStep == IInv /\ [Next]_vars => BoundedParallelism'
<1> SUFFICES ASSUME IInv, [Next]_vars PROVE BoundedParallelism'
  OBVIOUS
<1>0. TypeOK /\ Cardinality(Inflight) <= MaxWorkers /\ Cardinality(Inflight) \in Nat
  BY InflightIsFinite DEF IInv, BoundedParallelism
<1>1. CASE Tick
  <2>1. PICK C \in SUBSET Claimable : ClaimedNow(C) /\ Launch(C)
    BY <1>1 DEF Tick
  <2>. C \in SUBSET Tasks
    BY <2>1 DEF Claimable
  <2>2. CASE C = {} /\ Inflight' = Inflight
    BY <2>2, <1>0 DEF BoundedParallelism
  <2>3. CASE /\ ~(C = {} /\ Inflight' = Inflight)
             /\ Cardinality(Inflight') <= Cardinality(Inflight) + Cardinality(C)
    <3>1. IsFiniteSet(C) /\ Cardinality(C) \in Nat
      BY FS_Subset, FS_CardinalityType
    <3>2. Cardinality(Inflight') \in Nat
      <4>1. Inflight' \in SUBSET Runs
        BY DEF Inflight
      <4>. QED  BY <4>1, RunsAreFinite, FS_Subset, FS_CardinalityType
    <3>3. Cardinality(Inflight) + Cardinality(C) <= MaxWorkers
      <4>1. C = {} => Cardinality(C) = 0
        BY FS_EmptySet
      <4>. QED  BY <4>1, <2>1, <1>0, <3>1 DEF ClaimedNow
    <3>. QED  BY <2>3, <3>1, <3>2, <3>3, <1>0 DEF BoundedParallelism
  <2>. QED  BY <2>1, <2>2, <2>3, <1>0, LaunchAddsAtMost
<1>2. CASE \/ LeaveLoop \/ Gathered \/ Resume \/ UNCHANGED vars
           \/ \E r \in Runs : WorkerStep(r)
  <2>1. Inflight' \in SUBSET Inflight
    BY <1>0, <1>2, OthersAddNone
  <2>2. /\ Cardinality(Inflight') <= Cardinality(Inflight)
        /\ Cardinality(Inflight') \in Nat
    BY <2>1, InflightIsFinite, FS_Subset, FS_CardinalityType
  <2>. QED  BY <2>2, <1>0 DEF BoundedParallelism
<1>. QED  BY <1>1, <1>2 DEF Next, PoolStep

(* No step takes a row out of done or failed. *)
LEMMA SettledStep ==
  ASSUME IInv, [Next]_vars, NEW t \in Tasks, status[t] \in Settled
  PROVE  status'[t] = status[t]
<1>1. CASE Tick
  <2>1. PICK C \in SUBSET Claimable : ClaimedNow(C) /\ Launch(C)
    BY <1>1 DEF Tick
  <2>2. t \notin C
    BY <2>1 DEF Claimable, Promoted, Settled
  <2>. QED  BY <2>1, <2>2 DEF Launch, Promoted, Settled
<1>2. CASE LeaveLoop \/ Gathered \/ Resume \/ UNCHANGED vars
  BY <1>2 DEF LeaveLoop, Gathered, Resume, Rehydrated, Settled, vars
<1>3. ASSUME NEW r \in Runs, WorkerStep(r) PROVE status'[t] = status[t]
  <2>1. CASE AgentReturns(r) \/ AgentCrashes(r)
    <3>1. status[r[1]] = "running"
      BY <2>1 DEF AgentReturns, AgentCrashes, MayCrash, IInv, BusyRow
    <3>2. t # r[1]
      BY <3>1 DEF Settled
    <3>. QED  BY <2>1, <3>2 DEF AgentReturns, AgentCrashes, IInv, TypeOK
  <2>2. CASE ~(AgentReturns(r) \/ AgentCrashes(r))
    BY <1>3, <2>2 DEF WorkerStep, Created, CreateFails, Submit, TornDown, TeardownFails
  <2>. QED  BY <2>1, <2>2
<1>. QED  BY <1>1, <1>2, <1>3 DEF Next, PoolStep

(* The loop is only left once every row is settled, and rows stay settled. *)
LEMMA DrainedStep == IInv /\ [Next]_vars => Drained'
<1> SUFFICES ASSUME IInv, [Next]_vars, pool' = "draining" PROVE AllSettled'
  BY DEF Drained
<1>0. resumes' = resumes
  BY DEF Next, vars, Resume, PoolStep, Tick, LeaveLoop, Gathered, WorkerStep, Created,
         CreateFails, Submit, AgentReturns, AgentCrashes, TornDown, TeardownFails
<1>1. AllSettled
  <2>1. CASE LeaveLoop
    BY <2>1 DEF LeaveLoop
  <2>2. CASE pool = "draining"
    BY <2>2 DEF IInv, Drained
  <2>3. CASE ~LeaveLoop /\ pool # "draining"
    BY <2>3 DEF Next, vars, Resume, PoolStep, Tick, Gathered, WorkerStep, Created, CreateFails,
                Submit, AgentReturns, AgentCrashes, TornDown, TeardownFails
  <2>. QED  BY <2>1, <2>2, <2>3
<1>2. Unplanned /\ Unplanned'
  BY RowsStep DEF IInv, Rows
<1>. QED  BY <1>0, <1>1, <1>2, SettledStep DEF AllSettled, Unplanned

(* The inductive invariant: all that the theorems below rest on. *)
LEMMA Inductive == Spec => []IInv
<1>1. Init => IInv
  <2>1. Init => Inflight = {}
    BY DEF Init, Inflight
  <2>2. Init => Drained
    BY DEF Init, Drained
  <2>3. Init => BoundedParallelism
    <3>. SUFFICES ASSUME Init PROVE Cardinality(Inflight) <= MaxWorkers
      BY DEF BoundedParallelism
    <3>1. Cardinality(Inflight) = 0
      BY <2>1, FS_EmptySet
    <3>. QED  BY <3>1, BoundsAssumption
  <2>4. Init => Rows
    BY RowsInit
  <2>. QED  BY <2>2, <2>3, <2>4 DEF IInv, Rows
<1>2. IInv /\ [Next]_vars => IInv'
  BY RowsStep, BoundedStep, DrainedStep DEF IInv, Rows
<1>. QED  BY <1>1, <1>2, PTL DEF Spec

-----------------------------------------------------------------------------
(* The rows, runs and phases always have their types: in particular no task
   is claimed more often than MaxAttempts + 1 times, and once more for each
   time the mission was resumed.                                            *)
THEOREM TypeCorrect == Spec => []TypeOK
<1>1. IInv => TypeOK
  BY DEF IInv
<1>. QED  BY <1>1, Inductive, PTL

(* No two workers ever work on the same task at the same time. *)
THEOREM WorkerUnique == Spec => []OneWorkerPerTask
<1>1. IInv => OneWorkerPerTask
  <2>. SUFFICES ASSUME IInv, NEW t \in Tasks, NEW q \in Working(t), NEW r \in Working(t)
                PROVE  q = r
    BY DEF OneWorkerPerTask
  <2>1. attempts[t] = q[2] + 1 /\ attempts[t] = r[2] + 1
    BY DEF IInv, BusyRow, Working
  <2>. QED  BY <2>1, RunsArePairs DEF Working
<1>. QED  BY <1>1, Inductive, PTL

(* A worker only ever works on top of dependencies that are done. *)
THEOREM WorkOnDoneDeps == Spec => []DepsDoneWhileWorking
<1>1. IInv => DepsDoneWhileWorking
  BY DEF IInv, DepsDoneWhileWorking, BusyRow, DepsKept, Working
<1>. QED  BY <1>1, Inductive, PTL

(* The pool never runs more coroutines than the mission's worker count. *)
THEOREM ParallelismIsBounded == Spec => []BoundedParallelism
<1>1. IInv => BoundedParallelism
  BY DEF IInv
<1>. QED  BY <1>1, Inductive, PTL

(* A task with a stored candidate is run again only after a kill that came
   between the storing of the candidate and the end of its run, over any number
   of resumptions.                                                          *)
THEOREM SubmissionIsLastUnlessKilled == Spec => []RerunOnlyAfterKill
<1>1. IInv => RerunOnlyAfterKill
  BY DEF IInv, RerunOnlyAfterKill, HandedIn, BusyRow, Candidates
<1>. QED  BY <1>1, Inductive, PTL

(* A failed task has used up every run, and none of them left a candidate but
   those that a kill cut short.                                             *)
THEOREM FailureIsExhaustion == Spec => []FailedOnlyAfterEveryRun
<1>1. IInv => FailedOnlyAfterEveryRun
  <2>. SUFFICES ASSUME IInv, NEW t \in Tasks, status[t] = "failed"
                PROVE  /\ attempts[t] > MaxAttempts
                       /\ \A a \in 0..(attempts[t] - 1) :
                            /\ worker[<<t, a>>] \in {"teardown", "ended", "killed"}
                            /\ submits[<<t, a>>] > 0 => worker[<<t, a>>] = "killed"
    BY DEF FailedOnlyAfterEveryRun
  <2>1. attempts[t] > MaxAttempts
    BY DEF IInv, UsedUp
  <2>2. attempts[t] \in 0..(MaxAttempts + 1 + resumes) /\ resumes \in 0..MaxResumes
    BY DEF IInv, TypeOK
  <2>3. ASSUME NEW a \in 0..(attempts[t] - 1)
        PROVE  /\ worker[<<t, a>>] \in {"teardown", "ended", "killed"}
               /\ submits[<<t, a>>] > 0 => worker[<<t, a>>] = "killed"
    <3>. DEFINE r == <<t, a>>
    <3>1. a \in Nat /\ a <= MaxAttempts + MaxResumes /\ a < attempts[t]
      BY <2>2
    <3>2. r \in Runs /\ r[1] = t /\ r[2] = a
      BY <3>1 DEF Runs
    <3>3. worker[r] # "none"
      BY <3>1, <3>2, <2>2 DEF IInv, Started
    <3>4. worker[r] \notin {"creating", "agent", "lost"}
      BY <3>2 DEF IInv, BusyRow
    <3>5. worker[r] \in Phases
      BY <3>2 DEF IInv, TypeOK
    <3>6. submits[r] > 0 => worker[r] = "killed"
      BY <3>2, <3>4 DEF IInv, HandedIn
    <3>. QED  BY <3>3, <3>4, <3>5, <3>6 DEF Phases
  <2>. QED  BY <2>1, <2>3
<1>. QED  BY <1>1, Inductive, PTL

(* No run is started under a number that one before it had, in this process or
   in an earlier one.                                                       *)
THEOREM RunIdsAreFresh == Spec => AgentIdsAreFresh
<1>1. IInv /\ [Next]_vars =>
        [\A r \in Runs :
           worker'[r] = "creating" /\ worker[r] # "creating" => worker[r] = "none"]_vars
  <2>. SUFFICES ASSUME IInv, [Next]_vars, NEW r \in Runs,
                       worker'[r] = "creating", worker[r] # "creating"
                PROVE  worker[r] = "none"
    OBVIOUS
  <2>0. r[1] \in Tasks /\ r[2] \in Nat
    BY RunsArePairs
  <2>1. CASE Tick
    <3>1. PICK C \in SUBSET Claimable : ClaimedNow(C) /\ Launch(C)
      BY <2>1 DEF Tick
    <3>2. r[2] = attempts[r[1]]
      BY <3>1 DEF Launch
    <3>. QED  BY <3>2, <2>0 DEF IInv, Started
  <2>2. CASE ~Tick
    BY <2>2 DEF Next, vars, Resume, PoolStep, LeaveLoop, Gathered, WorkerStep, Created,
                CreateFails, Submit, AgentReturns, AgentCrashes, TornDown, TeardownFails,
                IInv, TypeOK
  <2>. QED  BY <2>1, <2>2
<1>. QED  BY <1>1, Inductive, PTL DEF Spec, AgentIdsAreFresh

(* A row that is done or failed keeps its status for good. *)
THEOREM SettledStays == Spec => SettledIsFinal
<1>1. IInv /\ [Next]_vars =>
        [\A t \in Tasks : status[t] \in Settled => status'[t] = status[t]]_vars
  BY SettledStep
<1>. QED  BY <1>1, Inductive, PTL DEF Spec, SettledIsFinal

-----------------------------------------------------------------------------
(* What a "task deadlock" tells.                                            *)

(* A row that says running has a worker, or had one that was lost. *)
RunningHasRun == \A t \in Tasks : status[t] = "running" =>
  \E r \in Runs : r[1] = t /\ worker[r] \in {"creating", "agent", "lost"}

LEMMA RunningHasRunStep == IInv /\ RunningHasRun /\ [Next]_vars => RunningHasRun'
<1> SUFFICES ASSUME IInv, RunningHasRun, [Next]_vars, NEW t \in Tasks, status'[t] = "running"
             PROVE  \E r \in Runs : r[1] = t /\ worker'[r] \in {"creating", "agent", "lost"}
  BY DEF RunningHasRun
<1>1. CASE Tick
  <2>1. PICK C \in SUBSET Claimable : ClaimedNow(C) /\ Launch(C)
    BY <1>1 DEF Tick
  <2>2. CASE t \in C
    <3>1. status[t] \in {"pending", "ready"}
      BY <2>1, <2>2 DEF Claimable, Promoted
    <3>. attempts[t] \in 0..(MaxAttempts + MaxResumes)
      BY <3>1 DEF IInv, TypeOK, RunLeft
    <3>. <<t, attempts[t]>> \in Runs /\ worker'[<<t, attempts[t]>>] = "creating"
      BY <2>1, <2>2 DEF Launch, Runs
    <3>. QED  OBVIOUS
  <2>3. CASE t \notin C
    <3>1. status[t] = "running"
      BY <2>1, <2>3 DEF Launch, Promoted
    <3>2. PICK r \in Runs : r[1] = t /\ worker[r] \in {"creating", "agent", "lost"}
      BY <3>1 DEF RunningHasRun
    <3>. QED  BY <2>1, <2>3, <3>2 DEF Launch
  <2>. QED  BY <2>2, <2>3
<1>2. CASE Resume
  BY <1>2 DEF Resume, Rehydrated
<1>3. CASE ~Tick /\ ~Resume
  <2>1. status[t] = "running"
    BY <1>3 DEF Next, vars, PoolStep, LeaveLoop, Gathered, WorkerStep, Created, CreateFails, Submit,
                AgentReturns, AgentCrashes, TornDown, TeardownFails, IInv, TypeOK
  <2>2. PICK r \in Runs : r[1] = t /\ worker[r] \in {"creating", "agent", "lost"}
    BY <2>1 DEF RunningHasRun
  <2>3. pool # "draining"
    BY <2>1 DEF IInv, Drained, AllSettled, Settled
  <2>4. ASSUME NEW q \in Runs, WorkerStep(q) PROVE worker'[r] \in {"creating", "agent", "lost"}
    <3>1. CASE AgentReturns(q) \/ AgentCrashes(q)
      <4>. q[1] # t
        BY <3>1 DEF AgentReturns, AgentCrashes, IInv, TypeOK
      <4>. QED  BY <2>2, <3>1 DEF AgentReturns, AgentCrashes, IInv, TypeOK
    <3>2. CASE ~(AgentReturns(q) \/ AgentCrashes(q))
      BY <2>2, <2>3, <2>4, <3>2 DEF WorkerStep, Created, CreateFails, Submit, TornDown,
                                    TeardownFails, IInv, TypeOK
    <3>. QED  BY <3>1, <3>2
  <2>5. CASE LeaveLoop \/ Gathered \/ UNCHANGED vars
    BY <2>2, <2>5 DEF LeaveLoop, Gathered, vars
  <2>. QED  BY <1>3, <2>2, <2>4, <2>5 DEF Next, PoolStep
<1>. QED  BY <1>1, <1>2, <1>3

(* A pass gives up on unsettled tasks.  If the plan has no cycle, one of them
   waits for none of the others: it is running, or it would have been claimed,
   or one of its dependencies has failed.                                    *)
LEMMA GivingUpHasCause ==
  ASSUME Acyclic, IInv, RunningHasRun, Tick, pool' = "deadlock"
  PROVE  DeadlockHasCause'
<1>1. PICK C \in SUBSET Claimable : ClaimedNow(C) /\ Launch(C) /\ GivesUp(C)
  BY DEF Tick
<1>2. C = {} /\ Inflight = {} /\ Claimable = {}
  BY <1>1, FS_EmptySet DEF GivesUp, ClaimedNow
<1>3. /\ \A r \in Runs : worker'[r] = worker[r]
      /\ \A t \in Tasks : status[t] = "failed" => status'[t] = "failed"
  BY <1>1, <1>2 DEF Launch, Promoted
<1>4. PICK t \in Tasks : /\ status[t] \notin Settled \cup {"absent"}
                        /\ \A d \in Deps[t] : status[d] \in Settled
  <2>. DEFINE S == {t \in Tasks : status[t] \notin Settled \cup {"absent"}}
  <2>1. S # {}
    BY DEF Tick, AllSettled
  <2>2. PICK t \in S : Deps[t] \cap S = {}
    BY <2>1 DEF Acyclic
  <2>3. ASSUME NEW d \in Deps[t] PROVE status[d] \in Settled
    <3>1. t \in Tasks /\ d \in Tasks /\ PlanOf[d] = PlanOf[t] /\ status[t] # "absent"
      BY <2>2
    <3>2. status[d] # "absent"
      BY <3>1 DEF IInv, Unplanned
    <3>. QED  BY <2>2, <3>1, <3>2
  <2>. QED  BY <2>2, <2>3
<1>5. CASE \E d \in Deps[t] : status[d] = "failed"
  BY <1>3, <1>5 DEF DeadlockHasCause
<1>6. CASE DepsDone(t)
  <2>1. status[t] = "running"
    BY <1>2, <1>4, <1>6 DEF Claimable, Promoted, IInv, TypeOK, Statuses, Settled
  <2>2. PICK r \in Runs : worker[r] \in {"creating", "agent", "lost"}
    BY <2>1 DEF RunningHasRun
  <2>3. worker[r] = "lost"
    BY <1>2, <2>2 DEF Inflight
  <2>. QED  BY <1>3, <2>3 DEF DeadlockHasCause
<1>. QED  BY <1>4, <1>5, <1>6 DEF DepsDone, Settled

(* After that nothing undoes the cause. *)
LEMMA DeadlockStep ==
  ASSUME Acyclic, IInv, RunningHasRun, DeadlockHasCause, [Next]_vars
  PROVE  DeadlockHasCause'
<1> SUFFICES ASSUME pool' = "deadlock" PROVE DeadlockHasCause'
  BY DEF DeadlockHasCause
<1>1. CASE Tick
  BY <1>1, GivingUpHasCause
<1>2. CASE ~Tick
  <2>. ~Resume
    BY DEF Resume
  <2>1. pool = "deadlock"
    BY <1>2 DEF Next, vars, PoolStep, LeaveLoop, Gathered, WorkerStep, Created, CreateFails, Submit,
                AgentReturns, AgentCrashes, TornDown, TeardownFails
  <2>2. CASE \E t \in Tasks : status[t] = "failed"
    BY <2>2, SettledStep DEF DeadlockHasCause, Settled
  <2>3. CASE \E r \in Runs : worker[r] = "lost"
    <3>1. PICK r \in Runs : worker[r] = "lost"
      BY <2>3
    <3>2. worker'[r] = "lost"
      BY <1>2, <2>1, <3>1 DEF Next, vars, PoolStep, LeaveLoop, Gathered, WorkerStep, Created,
                              CreateFails, Submit, AgentReturns, AgentCrashes, MayCrash,
                              TornDown, TeardownFails, IInv, TypeOK
    <3>. QED  BY <3>2 DEF DeadlockHasCause
  <2>. QED  BY <2>1, <2>2, <2>3 DEF DeadlockHasCause
<1>. QED  BY <1>1, <1>2

(* When the plan has no cycle, which validate_dag sees to, the pool reports a
   "task deadlock" only after a task has failed or lost its worker.          *)
THEOREM DeadlockIsCaused == Acyclic => (Spec => []DeadlockHasCause)
<1>. SUFFICES ASSUME Acyclic PROVE Spec => []DeadlockHasCause
  OBVIOUS
<1>1. Init => RunningHasRun /\ DeadlockHasCause
  BY DEF Init, RunningHasRun, DeadlockHasCause
<1>2. IInv /\ RunningHasRun /\ DeadlockHasCause /\ [Next]_vars =>
        (RunningHasRun /\ DeadlockHasCause)'
  BY RunningHasRunStep, DeadlockStep
<1>. QED  BY <1>1, <1>2, Inductive, PTL DEF Spec

-----------------------------------------------------------------------------
(* Refinement of TaskBoard.                                                 *)

(* What a card of the board shows of a row and its runs. *)
LEMMA CardFacts ==
  ASSUME TypeOK, NEW t \in Tasks
  PROVE  /\ status[t] \in {"pending", "ready"} <=> CardOf(t) = "open"
         /\ status[t] = "absent" <=> CardOf(t) = "unwritten"
         /\ status[t] = "done" <=> CardOf(t) = "accepted"
         /\ status[t] = "failed" <=> CardOf(t) = "rejected"
         /\ status[t] = "running" /\ Working(t) # {} <=> CardOf(t) = "active"
         /\ status[t] = "running" /\ Working(t) = {} <=> CardOf(t) = "lost"
<1>1. status[t] \in Statuses
  BY DEF TypeOK
<1>. QED  BY <1>1 DEF CardOf, Statuses

(* The same of the state after a step. *)
LEMMA CardFactsNext ==
  ASSUME TypeOK', NEW t \in Tasks
  PROVE  /\ status'[t] \in {"pending", "ready"} <=> CardOf(t)' = "open"
         /\ status'[t] = "absent" <=> CardOf(t)' = "unwritten"
         /\ status'[t] = "done" <=> CardOf(t)' = "accepted"
         /\ status'[t] = "failed" <=> CardOf(t)' = "rejected"
         /\ status'[t] = "running" /\ Working(t)' # {} <=> CardOf(t)' = "active"
         /\ status'[t] = "running" /\ Working(t)' = {} <=> CardOf(t)' = "lost"
<1>1. status'[t] \in Statuses
  BY DEF TypeOK
<1>. QED  BY <1>1 DEF CardOf, Statuses

(* The board counts with its own instance of FiniteSets. *)
LEMMA SameCount == ASSUME NEW S PROVE Board!Cardinality(S) = Cardinality(S)
BY DEF Cardinality, Board!Cardinality

(* A step that changes neither a card nor whether the loop runs is a stutter. *)
LEMMA BoardStutter ==
  ASSUME \A t \in Tasks : CardOf(t)' = CardOf(t),
         attempts' = attempts, resumes' = resumes, (pool # "looping")' = (pool # "looping")
  PROVE  UNCHANGED Board!vars
BY DEF Board!vars

(* Each active card has a coroutine in flight of its own. *)
LEMMA ActiveFitsInflight ==
  ASSUME TypeOK
  PROVE  /\ IsFiniteSet(Board!Active)
         /\ Cardinality(Board!Active) \in Nat
         /\ Cardinality(Board!Active) <= Cardinality(Inflight)
<1>. DEFINE A == Board!Active
            g == [t \in A |-> CHOOSE r \in Runs : r \in Working(t)]
<1>1. A \in SUBSET Tasks
  BY DEF Board!Active
<1>2. \A t \in A : g[t] \in Runs /\ g[t] \in Working(t)
  <2>. SUFFICES ASSUME NEW t \in A PROVE g[t] \in Runs /\ g[t] \in Working(t)
    OBVIOUS
  <2>1. Working(t) # {}
    BY CardFacts DEF Board!Active
  <2>2. \E r \in Runs : r \in Working(t)
    BY <2>1 DEF Working
  <2>. QED  BY <2>2
<1>3. g \in Injection(A, Inflight)
  <2>1. \A t \in A : g[t] \in Inflight
    BY <1>2 DEF Working, Inflight
  <2>2. g \in [A -> Inflight]
    BY <2>1
  <2>3. \A s, t \in A : g[s] = g[t] => s = t
    BY <1>2 DEF Working
  <2>. QED  BY <2>2, <2>3 DEF Injection, IsInjective
<1>4. IsFiniteSet(A) /\ Cardinality(A) <= Cardinality(Inflight)
  BY <1>3, InflightIsFinite, FS_Injection
<1>. QED  BY <1>4, FS_CardinalityType

(* An untouched plan maps to a board with its cards in the open column. *)
LEMMA BoardInit == Init => Board!Init
<1> SUFFICES ASSUME Init PROVE Board!Init
  OBVIOUS
<1>1. \A t \in Tasks : CardOf(t) = IF PlanOf[t] = 0 THEN "open" ELSE "unwritten"
  BY DEF Init, CardOf
<1>. QED  BY <1>1 DEF Init, Board!Init

(* A pass of the loop takes up the claimed cards, closes the board, or does
   not show.                                                                *)
LEMMA BoardTick ==
  ASSUME IInv, TypeOK', Tick
  PROVE  [Board!Next]_(Board!vars)
<1>0. TypeOK /\ RunLeft /\ resumes \in Nat /\ resumes' = resumes
  BY DEF IInv, TypeOK, Tick
<1>1. PICK C \in SUBSET Claimable :
        ClaimedNow(C) /\ Launch(C) /\ pool' = IF GivesUp(C) THEN "deadlock" ELSE "looping"
  BY DEF Tick
<1>. C \in SUBSET Tasks
  BY <1>1 DEF Claimable
<1>2. pool = "looping"
  BY DEF Tick
<1>3. \A t \in Tasks \ C : CardOf(t)' = CardOf(t) /\ attempts'[t] = attempts[t]
  <2>. SUFFICES ASSUME NEW t \in Tasks \ C
                PROVE  CardOf(t)' = CardOf(t) /\ attempts'[t] = attempts[t]
    OBVIOUS
  <2>1. \A r \in Runs : r[1] = t => worker'[r] = worker[r]
    BY <1>1 DEF Launch
  <2>2. Working(t)' = Working(t)
    BY <2>1 DEF Working
  <2>3. \/ status'[t] = status[t]
        \/ status[t] = "pending" /\ status'[t] = "ready"
    BY <1>1 DEF Launch, Promoted
  <2>4. attempts'[t] = attempts[t]
    BY <1>1 DEF Launch
  <2>. QED  BY <2>2, <2>3, <2>4 DEF CardOf
<1>4. \A t \in C : /\ CardOf(t) = "open" /\ \A d \in Deps[t] : CardOf(d) = "accepted"
                   /\ attempts[t] < MaxAttempts + 1 + resumes
                   /\ CardOf(t)' = "active" /\ attempts'[t] = attempts[t] + 1
  <2>. SUFFICES ASSUME NEW t \in C
                PROVE  /\ CardOf(t) = "open" /\ \A d \in Deps[t] : CardOf(d) = "accepted"
                       /\ attempts[t] < MaxAttempts + 1 + resumes
                       /\ CardOf(t)' = "active" /\ attempts'[t] = attempts[t] + 1
    OBVIOUS
  <2>1. t \in Tasks /\ Promoted[t] = "ready" /\ DepsDone(t)
    BY <1>1 DEF Claimable
  <2>2. status[t] \in {"pending", "ready"}
    BY <2>1 DEF Promoted
  <2>3. attempts[t] \in Nat /\ attempts[t] <= MaxAttempts + resumes
    BY <2>1, <2>2, <1>0, AttemptsAreNat DEF RunLeft
  <2>4. CardOf(t) = "open"
    BY <2>1, <2>2, <1>0, CardFacts
  <2>5. \A d \in Deps[t] : d \in Tasks /\ status[d] = "done"
    BY <2>1 DEF DepsDone
  <2>6. \A d \in Deps[t] : CardOf(d) = "accepted"
    BY <2>5, <1>0, CardFacts
  <2>7. status'[t] = "running" /\ attempts'[t] = attempts[t] + 1
    BY <2>1, <1>1 DEF Launch
  <2>8. Working(t)' # {}
    <3>. DEFINE r == <<t, attempts[t]>>
    <3>1. r \in Runs /\ r[1] = t /\ r[2] = attempts[t]
      BY <2>1, <2>3, <1>0 DEF Runs, TypeOK
    <3>2. worker'[r] = "creating"
      BY <3>1, <1>1 DEF Launch
    <3>. QED  BY <3>1, <3>2 DEF Working
  <2>9. CardOf(t)' = "active"
    BY <2>7, <2>8 DEF CardOf
  <2>10. attempts[t] < MaxAttempts + 1 + resumes
    BY <2>3, <1>0, BoundsAssumption DEF TypeOK
  <2>. QED  BY <2>4, <2>6, <2>7, <2>9, <2>10
<1>5. CASE C # {}
  <2>1. pool' = "looping"
    BY <1>1, <1>5 DEF GivesUp
  <2>2. C \subseteq Board!Eligible
    BY <1>4 DEF Board!Eligible
  <2>3. Cardinality(Board!Active \cup C) <= MaxWorkers
    <3>1. IsFiniteSet(C) /\ Cardinality(C) \in Nat
      BY FS_Subset, FS_CardinalityType
    <3>2. Cardinality(Inflight) + Cardinality(C) <= MaxWorkers
      BY <1>1, <1>5 DEF ClaimedNow
    <3>. DEFINE A == Board!Active
    <3>3. /\ IsFiniteSet(A) /\ Cardinality(A) \in Nat
          /\ Cardinality(A) <= Cardinality(Inflight)
      BY <1>0, ActiveFitsInflight
    <3>. HIDE DEF A
    <3>4. IsFiniteSet(A \cap C) /\ Cardinality(A \cap C) \in Nat
      <4>1. A \cap C \in SUBSET A
        OBVIOUS
      <4>. QED  BY <4>1, <3>3, FS_Subset, FS_CardinalityType
    <3>5. Cardinality(A \cup C) = Cardinality(A) + Cardinality(C) - Cardinality(A \cap C)
      BY <3>1, <3>3, FS_Union
    <3>6. Cardinality(A \cup C) <= MaxWorkers
      BY <3>1, <3>2, <3>3, <3>4, <3>5, InflightIsFinite
    <3>. QED  BY <3>6 DEF A
  <2>4. [t \in Tasks |-> CardOf(t)]' =
          [t \in Tasks |-> IF t \in C THEN "active" ELSE [u \in Tasks |-> CardOf(u)][t]]
    BY <1>3, <1>4
  <2>5. attempts' = [t \in Tasks |-> IF t \in C THEN attempts[t] + 1 ELSE attempts[t]]
    BY <1>1 DEF Launch
  <2>6. ~(pool # "looping") /\ UNCHANGED (pool # "looping")
    BY <2>1, <1>2
  <2>7. \A t \in C : attempts[t] < MaxAttempts + 1 + resumes
    BY <1>4
  <2>8. Board!TakeUp(C)
    BY <2>2, <2>3, <2>4, <2>5, <2>6, <2>7, <1>0, <1>5, SameCount DEF Board!TakeUp
  <2>. QED  BY <2>8 DEF Board!Next
<1>6. CASE C = {}
  <2>0. \A t \in Tasks : CardOf(t)' = CardOf(t)
    BY <1>3, <1>6
  <2>1. attempts' = attempts
    BY <1>1, <1>6, <1>0 DEF Launch, TypeOK
  <2>2. CASE ~GivesUp(C)
    BY <2>0, <2>1, <2>2, <1>0, <1>1, <1>2, BoardStutter
  <2>3. CASE GivesUp(C)
    <3>1. Board!Active = {}
      <4>1. \A t \in Tasks : Working(t) = {}
        BY <2>3 DEF GivesUp, Inflight, Working
      <4>. QED  BY <4>1, <1>0, CardFacts DEF Board!Active
    <3>2. Board!Eligible = {}
      <4>1. Claimable = {}
        BY <1>1, <1>6, <2>3, FS_EmptySet DEF ClaimedNow, GivesUp
      <4>2. ASSUME NEW t \in Tasks, CardOf(t) = "open",
                   \A d \in Deps[t] : CardOf(d) = "accepted"
            PROVE  t \in Claimable
        <5>1. status[t] \in {"pending", "ready"}
          BY <4>2, <1>0, CardFacts
        <5>2. \A d \in Deps[t] : d \in Tasks
          OBVIOUS
        <5>3. DepsDone(t)
          BY <4>2, <5>2, <1>0, CardFacts DEF DepsDone
        <5>. QED  BY <5>1, <5>3 DEF Claimable, Promoted
      <4>. QED  BY <4>1, <4>2 DEF Board!Eligible
    <3>3. Board!Close
      BY <3>1, <3>2, <2>0, <2>1, <2>3, <1>0, <1>1, <1>2 DEF Board!Close
    <3>. QED  BY <3>3 DEF Board!Next
  <2>. QED  BY <2>2, <2>3
<1>. QED  BY <1>5, <1>6

(* Leaving the loop closes the board; the final gather does not show. *)
LEMMA BoardLoopEnds ==
  ASSUME IInv, LeaveLoop \/ Gathered
  PROVE  [Board!Next]_(Board!vars)
<1>0. TypeOK
  BY DEF IInv
<1>1. /\ attempts' = attempts /\ status' = status /\ worker' = worker
      /\ resumes' = resumes /\ \A t \in Tasks : CardOf(t)' = CardOf(t)
  BY DEF LeaveLoop, Gathered, CardOf, Working
<1>2. CASE LeaveLoop
  <2>1. \A t \in Tasks : CardOf(t) \in {"accepted", "rejected", "unwritten"}
    BY <1>2, <1>0, CardFacts DEF LeaveLoop, AllSettled, Settled
  <2>2. Board!Active = {} /\ Board!Eligible = {}
    BY <2>1 DEF Board!Active, Board!Eligible
  <2>3. ~(pool # "looping") /\ (pool # "looping")'
    BY <1>2 DEF LeaveLoop
  <2>4. Board!Close
    BY <2>2, <2>3, <1>1 DEF Board!Close
  <2>. QED  BY <2>4 DEF Board!Next
<1>3. CASE Gathered
  <2>1. (pool # "looping")' = (pool # "looping")
    BY <1>3 DEF Gathered
  <2>. QED  BY <2>1, <1>1, BoardStutter
<1>. QED  BY <1>2, <1>3

(* A worker that hands its card over settles it in one of the four columns. *)
LEMMA BoardSettle ==
  ASSUME IInv, TypeOK', NEW r \in Runs,
         worker[r] \in {"creating", "agent"},
         worker'[r] \notin {"creating", "agent"},
         \A q \in Runs : q # r => worker'[q] = worker[q],
         \A t \in Tasks : t # r[1] => status'[t] = status[t],
         UNCHANGED <<attempts, pool, resumes>>,
         NEW column \in {"open", "accepted", "rejected", "lost"},
         CardOf(r[1])' = column,
         column = "rejected" => r[2] >= MaxAttempts,
         column = "open" => r[2] < MaxAttempts
  PROVE  [Board!Next]_(Board!vars)
<1>0. TypeOK /\ r[1] \in Tasks /\ r[2] \in Nat
  BY RunsArePairs DEF IInv
<1>1. status[r[1]] = "running" /\ attempts[r[1]] = r[2] + 1
  BY DEF IInv, BusyRow
<1>2. CardOf(r[1]) = "active"
  <2>1. r \in Working(r[1])
    BY DEF Working
  <2>. QED  BY <2>1, <1>0, <1>1, CardFacts
<1>3. \A t \in Tasks : t # r[1] => CardOf(t)' = CardOf(t)
  <2>. SUFFICES ASSUME NEW t \in Tasks, t # r[1] PROVE CardOf(t)' = CardOf(t)
    OBVIOUS
  <2>1. Working(t)' = Working(t)
    BY DEF Working
  <2>. QED  BY <2>1 DEF CardOf
<1>4. [t \in Tasks |-> CardOf(t)]' =
        [[t \in Tasks |-> CardOf(t)] EXCEPT ![r[1]] = column]
  BY <1>0, <1>3
<1>5. /\ column = "rejected" => attempts[r[1]] >= MaxAttempts + 1
      /\ column = "open" => attempts[r[1]] < MaxAttempts + 1
  BY <1>0, <1>1
<1>6. Board!Settle(r[1], column)
  BY <1>0, <1>2, <1>4, <1>5 DEF Board!Settle
<1>. QED  BY <1>0, <1>6 DEF Board!Next

(* Each step of a worker is a step of the board or does not show on it. *)
LEMMA BoardWorkerStep ==
  ASSUME IInv, TypeOK', NEW r \in Runs, WorkerStep(r)
  PROVE  [Board!Next]_(Board!vars)
<1>0. /\ TypeOK /\ BusyRow /\ r[1] \in Tasks /\ r[2] \in Nat
  BY RunsArePairs DEF IInv
<1>1. CASE Created(r) \/ Submit(r)
  <2>1. \A t \in Tasks : Working(t)' = Working(t)
    BY <1>0, <1>1 DEF Created, Submit, Working, TypeOK
  <2>2. UNCHANGED <<status, attempts, pool, resumes>>
    BY <1>1 DEF Created, Submit
  <2>3. \A t \in Tasks : CardOf(t)' = CardOf(t)
    BY <2>1, <2>2 DEF CardOf
  <2>. QED  BY <2>2, <2>3, BoardStutter
<1>2. CASE CreateFails(r)
  <2>1. /\ worker[r] = "creating" /\ worker'[r] = "lost"
        /\ \A q \in Runs : q # r => worker'[q] = worker[q]
        /\ UNCHANGED <<status, attempts, pool, resumes>>
    BY <1>0, <1>2 DEF CreateFails, TypeOK
  <2>2. status'[r[1]] = "running"
    BY <2>1, <1>0 DEF BusyRow
  <2>3. Working(r[1])' = {}
    <3>1. \A q \in Working(r[1]) : q = r
      BY <2>1, <1>0, RunsArePairs DEF BusyRow, Working
    <3>. QED  BY <3>1, <2>1 DEF Working
  <2>4. CardOf(r[1])' = "lost"
    BY <2>2, <2>3 DEF CardOf
  <2>. QED  BY <2>1, <2>4, BoardSettle
<1>3. CASE AgentReturns(r)
  <2>1. /\ worker[r] = "agent" /\ worker'[r] = "teardown"
        /\ \A q \in Runs : q # r => worker'[q] = worker[q]
        /\ \A t \in Tasks : t # r[1] => status'[t] = status[t]
        /\ status'[r[1]] = "done"
        /\ UNCHANGED <<attempts, pool, resumes>>
    BY <1>0, <1>3 DEF AgentReturns, TypeOK
  <2>2. CardOf(r[1])' = "accepted"
    BY <2>1 DEF CardOf
  <2>. QED  BY <2>1, <2>2, BoardSettle
<1>4. CASE AgentCrashes(r)
  <2>1. /\ worker[r] = "agent" /\ worker'[r] = "teardown"
        /\ \A q \in Runs : q # r => worker'[q] = worker[q]
        /\ \A t \in Tasks : t # r[1] => status'[t] = status[t]
        /\ UNCHANGED <<pool, resumes>>
    BY <1>0, <1>4 DEF AgentCrashes, MayCrash, TypeOK
  <2>2. attempts' = attempts
    BY <1>4, CrashKeepsAttempts DEF IInv
  <2>3. CASE MayRetry(r)
    <3>1. status'[r[1]] = "ready" /\ r[2] < MaxAttempts
      BY <1>0, <1>4, <2>3 DEF AgentCrashes, MayRetry, TypeOK
    <3>2. CardOf(r[1])' = "open"
      BY <3>1 DEF CardOf
    <3>. QED  BY <2>1, <2>2, <3>1, <3>2, BoardSettle
  <2>4. CASE ~MayRetry(r)
    <3>1. status'[r[1]] = "failed" /\ r[2] >= MaxAttempts
      BY <1>0, <1>4, <2>4 DEF AgentCrashes, MayRetry, TypeOK
    <3>2. CardOf(r[1])' = "rejected"
      BY <3>1 DEF CardOf
    <3>. QED  BY <2>1, <2>2, <3>1, <3>2, BoardSettle
  <2>. QED  BY <2>3, <2>4
<1>5. CASE TornDown(r) \/ TeardownFails(r)
  <2>1. UNCHANGED <<status, attempts, resumes>>
    BY <1>5 DEF TornDown, TeardownFails
  <2>2. \A t \in Tasks : status[t] = "running" => Working(t)' = Working(t)
    <3>1. CASE TeardownFails(r) /\ pool = "draining"
      BY <3>1 DEF IInv, Drained, AllSettled, Settled
    <3>2. CASE ~(TeardownFails(r) /\ pool = "draining")
      BY <1>0, <1>5, <3>2 DEF TornDown, TeardownFails, Working, TypeOK
    <3>. QED  BY <3>1, <3>2
  <2>3. \A t \in Tasks : CardOf(t)' = CardOf(t)
    BY <2>1, <2>2, <1>0 DEF CardOf, TypeOK, Statuses
  <2>4. (pool # "looping")' = (pool # "looping")
    BY <1>5 DEF TornDown, TeardownFails
  <2>. QED  BY <2>1, <2>3, <2>4, BoardStutter
<1>. QED  BY <1>1, <1>2, <1>3, <1>4, <1>5 DEF WorkerStep

(* A resumption reopens the board: the cards of running rows are open again,
   and those of the new plan are put up.                                    *)
LEMMA BoardReopens ==
  ASSUME IInv, TypeOK', Resume
  PROVE  Board!Reopen
<1>0. TypeOK /\ resumes' = resumes + 1 /\ attempts' = attempts /\ pool' = "looping"
  BY DEF IInv, Resume
<1>1. ASSUME NEW t \in Tasks
      PROVE  CardOf(t)' = IF \/ CardOf(t) \in {"active", "lost"}
                             \/ CardOf(t) = "unwritten" /\ PlanOf[t] = resumes'
                          THEN "open" ELSE CardOf(t)
  <2>0. status[t] \in Statuses
    BY <1>0 DEF TypeOK
  <2>1. status'[t] = CASE status[t] = "running" -> "ready"
                       [] status[t] = "absent" /\ PlanOf[t] = resumes' -> "pending"
                       [] OTHER -> status[t]
    BY <1>0 DEF Resume, Rehydrated
  <2>2. CASE status[t] = "running"
    <3>1. CardOf(t) \in {"active", "lost"}
      BY <2>2 DEF CardOf
    <3>2. CardOf(t)' = "open"
      BY <2>1, <2>2, CardFactsNext
    <3>. QED  BY <3>1, <3>2
  <2>3. CASE status[t] = "absent" /\ PlanOf[t] = resumes'
    <3>1. CardOf(t) = "unwritten"
      BY <2>3 DEF CardOf
    <3>2. CardOf(t)' = "open"
      BY <2>1, <2>3, CardFactsNext
    <3>. QED  BY <3>1, <3>2, <2>3
  <2>4. CASE status[t] # "running" /\ ~(status[t] = "absent" /\ PlanOf[t] = resumes')
    <3>1. status'[t] = status[t]
      BY <2>1, <2>4
    <3>2. CardOf(t)' = CardOf(t)
      BY <3>1, <2>0, <2>4 DEF CardOf, Statuses
    <3>3. CardOf(t) \notin {"active", "lost"}
      BY <2>4, <1>0, CardFacts
    <3>4. CardOf(t) = "unwritten" => status[t] = "absent"
      BY <1>0, CardFacts
    <3>. QED  BY <2>4, <3>2, <3>3, <3>4
  <2>. QED  BY <2>2, <2>3, <2>4
<1>2. [t \in Tasks |-> CardOf(t)]' =
        [t \in Tasks |->
           IF \/ [u \in Tasks |-> CardOf(u)][t] \in {"active", "lost"}
              \/ [u \in Tasks |-> CardOf(u)][t] = "unwritten" /\ PlanOf[t] = resumes'
           THEN "open" ELSE [u \in Tasks |-> CardOf(u)][t]]
  BY <1>1
<1>3. (pool # "looping")' = FALSE
  BY <1>0
<1>. QED  BY <1>0, <1>2, <1>3 DEF Board!Reopen

(* The worker pool implements the task board. *)
THEOREM PoolImplementsBoard == Spec => ImplementsBoard
<1>1. IInv /\ IInv' /\ [Next]_vars => [Board!Next]_(Board!vars)
  <2> SUFFICES ASSUME IInv, TypeOK', [Next]_vars PROVE [Board!Next]_(Board!vars)
    BY DEF IInv
  <2>1. CASE Tick
    BY <2>1, BoardTick
  <2>2. CASE LeaveLoop \/ Gathered
    BY <2>2, BoardLoopEnds
  <2>3. ASSUME NEW r \in Runs, WorkerStep(r) PROVE [Board!Next]_(Board!vars)
    BY <2>3, BoardWorkerStep
  <2>4. CASE UNCHANGED vars
    <3>1. \A t \in Tasks : CardOf(t)' = CardOf(t)
      BY <2>4 DEF vars, CardOf, Working
    <3>. QED  BY <3>1, <2>4, BoardStutter DEF vars
  <2>5. CASE Resume
    BY <2>5, BoardReopens DEF Board!Next
  <2>. QED  BY <2>1, <2>2, <2>3, <2>4, <2>5 DEF Next, PoolStep
<1>. QED  BY <1>1, BoardInit, Inductive, PTL DEF Spec, ImplementsBoard, Board!Spec
=============================================================================
