CONSTANTS
  Base = 10
  Scale = 1
  MaxInt = 31
  Account = {1, 2}
  Active = {1}
  MonthLength <- MCMonthLength
  TaskValue <- MCTaskValue
  Typed <- MCTyped
  Recipient = TRUE
  MaxRows = 2
  MaxRuns = 2
  MaxFaults = 1
SPECIFICATION Spec
CHECK_DEADLOCK FALSE
INVARIANTS
  TypeOK
  StatementsAgree
  RowsAreReported
  JobsCoverTheMonthBefore
