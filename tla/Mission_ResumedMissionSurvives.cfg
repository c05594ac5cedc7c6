SPECIFICATION Spec
CONSTANTS
  Missions = {m1, m2}
  FromCli = {m2}
  None = None
  MaxStarts = 2
INVARIANT
  ResumedMissionSurvives
CHECK_DEADLOCK FALSE
