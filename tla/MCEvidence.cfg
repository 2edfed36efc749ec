SPECIFICATION ApprovalSpec
CONSTANTS
  older = older
  newer = newer
  admin = admin
  worker = worker
  Deposits = {older}
  Age <- OneAge
  Admins = {admin}
  Worker = worker
  BatchLimit = 1
  OperationsModes = {"AUTOMATIC"}
  MaxRequests = 2
  MaxRestarts = 0
PROPERTY
  NoAutomaticApprovalWithoutEvidence
