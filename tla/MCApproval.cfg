SPECIFICATION FairApprovalSpec
CONSTANTS
  older = older
  newer = newer
  admin = admin
  worker = worker
  Deposits = {older}
  Age <- OneAge
  Admins = {admin}
  Worker = worker
  BatchLimit = 1
  OperationsModes = {"AUTOMATIC", "CONTROLLED_MANUAL"}
  MaxRequests = 2
  MaxRestarts = 1
INVARIANTS
  AutomaticApprovalIsPaid
PROPERTIES
  ReviewIsFinal
  PaidDepositsAreProcessed
