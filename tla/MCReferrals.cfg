CONSTANTS
  u1 = u1
  u2 = u2
  u3 = u3
  u4 = u4
  Nobody = Nobody
  Users <- MCUsers
  Suspendable <- MCSuspendable
  MaxSponsorDepth = 4
  MaxTime = 6
SPECIFICATION ReferralSpec
SYMMETRY MCSymmetry
CHECK_DEADLOCK FALSE
INVARIANTS
  PastTreesAcyclic
  OneTree
PROPERTIES
  PastSponsorsFrozen
