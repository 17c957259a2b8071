CONSTANTS
  Objects = {o1}
  Leaves <- ChainLeaves
  Resources <- ChainResources
  LeavesOf <- ChainLeavesOf
  Groups <- ChainGroups
  Tiers <- ChainTiers
  ParentOf <- ChainParentOf
  TierTime <- ChainTime
  QueryOf <- ChainQuery
  PutLeaves <- ChainPut
  Sweeps = {s1}
  Rules = {d1, d2}
  MaxAge = 2
  MaxGets = 2
  MaxFaults = 1
  ReplOnGoodCopy = {"fail"}
  MayOverwrite = FALSE
  NoResource = NoResource
  NoTask = NoTask
SPECIFICATION FairSpec
INVARIANTS TypeOK TopSafe
PROPERTIES NoDataLoss PlaceSpec Settles
