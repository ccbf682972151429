CONSTANTS
  Tab = {t1, t2}
  Call = {c1, c2}
  TokenId = {1, 2, 3}
  MaxOverlaps = 1
  MaxFaults = 1
SYMMETRY Symmetry
SPECIFICATION Spec
CHECK_DEADLOCK FALSE
INVARIANTS
  TypeOK
  LiveTokensAreExplained
  StoredTokenIsUsable
