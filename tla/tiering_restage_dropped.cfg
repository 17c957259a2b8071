CONSTANTS
  Objects = {o1}
  Leaves <- ChainLeaves
  Resources <- ChainResources
  LeavesOf <- ChainLeavesOf
  Groups <- ChainGroups
  Tiers <- ChainTiers
  ParentOf <- ChainParentOf
  TierTime <- ChainTime
  QueryOf <- ChainQuery
  PutLeaves <- MediumPut
  Sweeps = {}
  Rules = {d1}
  MaxAge = 2
  MaxGets = 1
  MaxFaults = 1
  ReplOnGoodCopy = {"fail"}
  MayOverwrite = FALSE
  NoResource = NoResource
  NoTask = NoTask
SPECIFICATION FairSpec
PROPERTY RestageDone
