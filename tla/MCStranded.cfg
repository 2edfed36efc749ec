SPECIFICATION FundsSpec
CONSTANTS
  alice = alice
  bob = bob
  dep1 = dep1
  dep2 = dep2
  commission1 = commission1
  commission2 = commission2
  k1 = k1
  r1 = r1
  tx1 = tx1
  NoTxid = NoTxid
  Users <- BobUsers
  Earnings <- BobEarnings
  EarningUser <- BobEarningUser
  EarningBucket <- BobEarningBucket
  EarningAmount <- BobEarningAmount
  RequestKeys = {k1}
  Amounts = {2}
  LegacySources = {}
  PayoutPolicies <- MCPolicies
  Networks = {"TRON"}
  Txids = {tx1}
  Deposits = {}
  DepositUser <- NoDeposits
  DepositAmount <- NoDeposits
  DepositPlan <- NoDeposits
  Packages = {"ALPHA", "PRIME"}
  Plans <- MCPlans
  Catalogues <- MCCatalogues
  PurchaseKeys = {r1}
  PurchaseAmounts = {2}
  TradingModels = {"V1"}
  GateSettings = {FALSE}
INVARIANT
  PrincipalCanBeReturned
