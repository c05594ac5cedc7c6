SPECIFICATION PlanSpec
CONSTANTS
  a = a
  b = b
  c = c
  unknown = unknown
  Answers <- SomeAnswers
  Repairs <- SomeRepairs
INVARIANTS
  AcceptsExactlyPlans
