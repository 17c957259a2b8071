CONSTANTS
  Objects <- TwoSizes
  Resources = {"img", "lts", "demo"}
  Movers = {m1}
  MaxMoves = 1
  MaxFaults = 1
  Anywhere = Anywhere
  Jobs <- TwoJobs
  Launches <- TwoLaunches
SPECIFICATION FairSpec
INVARIANTS TypeOK CopiesWhole CleanEnd MovesComplete
PROPERTIES WholeKept Arrives
CHECK_DEADLOCK FALSE
