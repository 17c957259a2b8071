CONSTANTS
  Objects = {o1}
  Leaves <- ChainLeaves
  Resources <- ChainResources
  LeavesOf <- ChainLeavesOf
  Groups <- ChainGroups
  Tiers <- ChainTiers
  ParentOf <- ChainParentOf
  TierTime <- ChainTime
  QueryOf <- ChainQuery
  PutLeaves <- ChainPut
  Sweeps = {s1}
  Rules = {}
  MaxAge = 2
  MaxGets = 0
  MaxFaults = 0
  ReplOnGoodCopy = {"fail"}
  MayOverwrite = TRUE
  NoResource = NoResource
  NoTask = NoTask
SPECIFICATION Spec
INVARIANT LatestKept
