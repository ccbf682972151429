CONSTANTS
  Key = {k1, k2}
  Body = {redeem, adjust}
  Call = {c1, c2}
  MaxOverlaps = 1
  MaxFaults = 1
SPECIFICATION Spec
INVARIANT KeysExecuteOnce
