CONSTANTS
  Sources = {"s"}
  Ordinary = {}
  MaxGeneration = 2
  MaxCommands = 1
  MaxLate = 1
  MaxPushes = 1
SPECIFICATION FairSpec
INVARIANTS
  TombstonesHold
  OffMeansWithdrawn
  CacheIsCurrent
PROPERTIES
  OneReportWithdraws
  SidecarObeys
  CommandsAnswered
  OptOutArrives
