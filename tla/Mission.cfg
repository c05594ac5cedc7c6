SPECIFICATION FairSpec
CONSTANTS
  Missions = {m1, m2}
  FromCli = {m2}
  None = None
  MaxStarts = 2
INVARIANTS
  AnnouncedOnceAndTrue
  BuiltInOneRepo
PROPERTIES
  TerminalIsFinal
  ResumedRowsAreFree
  MissionsEnd
  CliReturns
CHECK_DEADLOCK FALSE
