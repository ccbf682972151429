CONSTANTS
  Key = {k1}
  Body = {redeem, adjust}
  Call = {c1, c2, c3}
  MaxOverlaps = 2
  MaxFaults = 2
SPECIFICATION Spec
INVARIANTS
  TypeOK
  AnswersAreOwn
  AnswersAgree
  RepeatsAreExplained
PROPERTIES
  FirstResponseStands
