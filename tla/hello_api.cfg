CONSTANTS
  c1 = c1
  c2 = c2
  Clients <- Pair
  MaxFaults = 2
SPECIFICATION FairSpec
INVARIANTS TypeOK PrintedRan CallsKnown LeftAfterFailure
PROPERTY AgentsEnd
CHECK_DEADLOCK FALSE
