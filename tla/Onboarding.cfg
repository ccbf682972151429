CONSTANTS
  Process = {p1, j}
  Job = {j}
  Request = {1, 2, 3}
  Name = {n1, n2}
  LastVersion = 2
  TenantVersion = 1
  MaxSignups = 2
  MaxCrashes = 1
  MaxFaults = 1
SPECIFICATION Spec
CHECK_DEADLOCK FALSE
INVARIANTS
  TypeOK
  SchemaIsInStep
  LoginsAreComplete
  LeftoversAreExplained
PROPERTIES
  StartsGetThrough
