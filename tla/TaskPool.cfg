SPECIFICATION FairSpec
CONSTANTS
  Tasks = {1, 2, 3, 4}
  PlanOf <- TwoPlans
  SeqOf <- Places
  Deps <- JoinDeps
  MaxWorkers = 2
  MaxAttempts = 1
  MaxSubmits = 1
  MaxResumes = 1
INVARIANTS
  TypeOK
  OneWorkerPerTask
  DepsDoneWhileWorking
  BoundedParallelism
  RerunOnlyAfterKill
  FailedOnlyAfterEveryRun
  DeadlockHasCause
PROPERTIES
  AgentIdsAreFresh
  ImplementsBoard
  PoolEnds
  ReadyIsClaimed
CHECK_DEADLOCK FALSE
