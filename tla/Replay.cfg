SPECIFICATION Spec
CONSTANTS
  Missions = {2, 3}
  Agents = {"planner", "w1", "w2"}
  RoleOf <- MCRoleOf
  ByHand = {1, 4}
  Matched <- MCMatched
  StepsOf <- MCStepsOf
  MaxRecorded = 3
  MaxChats = 3
INVARIANTS
  StepsInOrder
  NeverBack
  SoleSessionIsReplayed
CHECK_DEADLOCK FALSE
