CONSTANTS
  root = root
  ann = ann
  ben = ben
  small = small
  large = large
  Nobody = Nobody
  Root = root
  Users <- MCUsers
  StartTree <- MCStartTree
  Suspendable = {}
  MaxSponsorDepth = 3
  MaxTime = 4
  Offers <- MCOffers
  Plans <- MCPlans
  MaxPurchases = 2
SPECIFICATION CommissionSpec
CHECK_DEADLOCK FALSE
INVARIANTS
  CreditedOnce
PROPERTIES
  PendingKeepsItsTerms
