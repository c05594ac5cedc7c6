SPECIFICATION FairSpec
CONSTANTS
  Pages = {p1, p2}
  MaxEvents = 4
  MaxCuts = 2
INVARIANTS
  ShownInOrder
  NothingLostInStream
PROPERTIES
  PagesCatchUp
  ImplementsFeed
CHECK_DEADLOCK FALSE
