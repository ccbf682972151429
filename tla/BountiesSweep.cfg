CONSTANTS
  Bounty = {wash}
  Holder = {ann, ben}
  Operator = {op}
  Process = {api1, api2}
  StartsActive = {TRUE, FALSE}
  MaxTime = 3
  Window = 1
  MaxFaults = 2
SPECIFICATION FairSpec
INVARIANTS
  TypeOK
  ClaimsAreKept
  ExpiryReportsAreTrue
  WarningsAreExplained
PROPERTIES
  ExpiredBountiesRetire
