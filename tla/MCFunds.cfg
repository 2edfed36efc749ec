SPECIFICATION FairFundsSpec
CONSTANTS
  alice = alice
  bob = bob
  dep1 = dep1
  dep2 = dep2
  commission1 = commission1
  commission2 = commission2
  k1 = k1
  r1 = r1
  tx1 = tx1
  NoTxid = NoTxid
  Users <- AliceUsers
  Earnings <- AliceEarnings
  EarningUser <- AliceEarningUser
  EarningBucket <- AliceEarningBucket
  EarningAmount <- AliceEarningAmount
  RequestKeys = {k1}
  Amounts = {2}
  LegacySources = {}
  PayoutPolicies <- MCPolicies
  Networks = {"TRON"}
  Txids = {tx1}
  Deposits <- MCDeposits
  DepositUser <- MCDepositUser
  DepositAmount <- MCDepositAmount
  DepositPlan <- MCDepositPlan
  Packages = {"ALPHA", "PRIME"}
  Plans <- MCPlans
  Catalogues <- MCCatalogues
  PurchaseKeys = {r1}
  PurchaseAmounts = {2}
  TradingModels = {"V1", "V2"}
  GateSettings = {TRUE, FALSE}
INVARIANTS
  DepositChainInOrder
  PrincipalReturnedOnce
  PayoutAccountsMatchRows
  ControlMirrorsWallets
  PrincipalBacksPackages
  PaidPackagesStayFunded
PROPERTIES
  OnlyActivationOverdraws
  FinishedPackagesComplete
