CONSTANTS
  RescNames = {"r1", "r2"}
  GroupNames = {"g", "k"}
  Units <- TwoDigits
  UnitLess <- HelpersLess
  SortUnits <- HelpersSort
  Position <- Value
  Digits <- Len
  MaxRows = 4
SPECIFICATION Spec
INVARIANTS PositionsKept GroupTiers SameDigitsTiers
CHECK_DEADLOCK FALSE
