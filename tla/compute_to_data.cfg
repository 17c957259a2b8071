CONSTANTS
  Inputs = {o1, o2}
  Report = Report
  Tasks = {t1, t2}
  Commands <- ConfigCommands
  Allowances <- ConfigAllowances
  Remote = {o1}
  MaxFaults = 2
  Earlier = Earlier
  NoInput = NoInput
  NoTask = NoTask
SPECIFICATION Spec
INVARIANTS TypeOK OneTaskPerInput NoContainerLeft
PROPERTIES VerdictRight OwnProductWhole PartialExplained
CHECK_DEADLOCK FALSE
