SPECIFICATION Spec
CONSTANTS
  c1 = c1
  c2 = c2
  c3 = c3
  Winners <- ThreeWinners
INVARIANTS
  ResultIsGreen
  ResultIsLastStretch
  ResultBranchExists
CHECK_DEADLOCK FALSE
