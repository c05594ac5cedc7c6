SPECIFICATION FairSpec
CONSTANTS
  Cands = {1, 2, 3}
  Former = {1}
  Slots = 2
  Ghost = Ghost
  MaxRanks = 2
INVARIANTS
  WinnersAreVerified
  ReturnedIsStored
  JudgePicksOne
PROPERTIES
  VerificationEnds
CHECK_DEADLOCK FALSE
