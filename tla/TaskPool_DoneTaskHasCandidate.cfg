SPECIFICATION Spec
CONSTANTS
  Tasks = {1, 2, 3, 4}
  PlanOf <- TwoPlans
  SeqOf <- Places
  Deps <- JoinDeps
  MaxWorkers = 2
  MaxAttempts = 1
  MaxSubmits = 1
  MaxResumes = 1
INVARIANT
  DoneTaskHasCandidate
CHECK_DEADLOCK FALSE
