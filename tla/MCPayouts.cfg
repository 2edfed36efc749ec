SPECIFICATION DeskSpec
CONSTANTS
  alice = alice
  rewardA = rewardA
  commissionB = commissionB
  bob = bob
  k1 = k1
  k2 = k2
  tx1 = tx1
  tx2 = tx2
  NoTxid = NoTxid
  Users <- MCUsers
  Earnings <- MCEarnings
  EarningUser <- MCEarningUser
  EarningBucket <- MCEarningBucket
  EarningAmount <- MCEarningAmount
  RequestKeys = {k1, k2}
  Amounts <- MCAmounts
  LegacySources = {"REWARDS"}
  PayoutPolicies <- MCPolicies
  Networks = {"TRON", "BSC"}
  Txids = {tx1, tx2}
INVARIANTS
  LedgerMatchesStatus
  OneTransferPerPayout
PROPERTIES
  QuoteAndEndAreFinal
  PayoutCustodyHolds
