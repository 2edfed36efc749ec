CONSTANTS
  bronze = bronze
  silver = silver
  plain = plain
  Members = {1, 2, 3}
  InitialSponsor <- MCSponsor
  Kinds = {bronze, silver, plain}
  Purchases <- MCPurchases
  Ending = {silver}
  Reconcilable = {1}
  Price <- MCPrice
  LevelCount = 2
  Policies <- MCPolicies
  BatchLimit = 3
  MaxMoves = 1
SPECIFICATION FairAwardSpec
INVARIANTS
  AwardsMatchTracks
  PackagesCountOnce
PROPERTIES
  AwardsAreEarned
  AwardsArrive
