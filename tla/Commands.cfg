SPECIFICATION CallsFairSpec
CONSTANTS
  Calls = {c1, c2}
  Threads = 1
INVARIANTS
  ZeroIsTrue
PROPERTIES
  EffectsBelongToCall
  CallsEnd
CHECK_DEADLOCK FALSE
