CONSTANTS
  ann = ann
  ben = ben
  Admins <- BothAdmins
  Families <- MCFamilies
  Contents <- MCContents
  Studies <- AgreementStudies
SPECIFICATION VersionsSpec
CHECK_DEADLOCK FALSE
INVARIANTS
  CalendarsAgree
