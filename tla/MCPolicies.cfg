CONSTANTS
  ann = ann
  ben = ben
  Admins <- BothAdmins
  Families <- MCFamilies
  Contents <- MCContents
  Studies <- MCStudies
SPECIFICATION VersionsSpec
CHECK_DEADLOCK FALSE
INVARIANTS
  RangesDisjoint
  AlwaysASuccessor
  PublishedAsShown
PROPERTIES
  PastIsSettled
