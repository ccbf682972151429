CONSTANTS
  Wallet = {alice}
  Issuance = issuance
  Redemption = redemption
  Request = {r1, r2}
  Task = {bounty}
  Bounty = {bounty}
  Coin = 1
  MaxFaults = 1
  Transfers = 3
  Rows = 2
  MaxAmount = 2
  TransferId <- MCTransferId
  RowId <- MCRowId
  Amount <- MCAmount
SPECIFICATION Spec
INVARIANT PendingRowsAwaitDecision
