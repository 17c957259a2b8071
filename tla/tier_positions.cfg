CONSTANTS
  RescNames = {"r1", "r2"}
  GroupNames = {"g", "k"}
  Units <- TwoDigits
  UnitLess <- HelpersLess
  SortUnits <- HelpersSort
  Position <- Value
  Digits <- Len
  MaxRows = 2
SPECIFICATION Spec
INVARIANT NumericTiers
CHECK_DEADLOCK FALSE
