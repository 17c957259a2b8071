CONSTANTS
  Objects = {o1}
  Leaves <- TreeLeaves
  Resources <- TreeResources
  LeavesOf <- TreeLeavesOf
  Groups <- TreeGroups
  Tiers <- TreeTiers
  ParentOf <- TreeParentOf
  TierTime <- TreeTime
  QueryOf <- TreeQuery
  PutLeaves <- TreePut
  Sweeps = {s1}
  Rules = {d1}
  MaxAge = 2
  MaxGets = 1
  MaxFaults = 1
  ReplOnGoodCopy = {"ok", "fail"}
  MayOverwrite = TRUE
  NoResource = NoResource
  NoTask = NoTask
SPECIFICATION FairSpec
PROPERTIES AlongTiers TierTimeApplied PolicyEnds RulesEnd
