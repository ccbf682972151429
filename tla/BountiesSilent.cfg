CONSTANTS
  Bounty = {wash}
  Holder = {ann, ben}
  Operator = {}
  Process = {api}
  StartsActive = {TRUE}
  MaxTime = 2
  Window = 1
  MaxFaults = 0
SPECIFICATION FairSpec
PROPERTIES
  ExpiriesAreReported
