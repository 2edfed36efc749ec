SPECIFICATION FairApprovalSpec
CONSTANTS
  older = older
  newer = newer
  admin = admin
  worker = worker
  Deposits = {older, newer}
  Age <- TwoAges
  Admins = {}
  Worker = worker
  BatchLimit = 2
  OperationsModes = {"AUTOMATIC"}
  MaxRequests = 0
  MaxRestarts = 0
PROPERTY
  PaidDepositsAreProcessed
