----------------------------- MODULE MCApproval -----------------------------
(***************************************************************************)
(* Small instances of deposit approval: one or two deposits of one rail,   *)
(* the worker and at most one administrator at a time.                     *)
(***************************************************************************)
EXTENDS DepositApproval, TLC

CONSTANTS older, newer, admin, worker

OneAge == (older :> 1)
TwoAges == (older :> 1) @@ (newer :> 2)
=============================================================================
