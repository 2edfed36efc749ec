------------------------------ MODULE MCFunds -------------------------------
(***************************************************************************)
(* Small instances of the funds system.  alice pays two deposits of 2      *)
(* units, one for a plan that activates by itself and gives its principal  *)
(* back, one for a single-active plan that an administrator activates, and *)
(* earns a commission of 2; she asks for one payout and reinvests once.    *)
(* The instances of single questions have alice with one deposit, or bob,  *)
(* who never deposits and has rewards of 2.                                *)
(***************************************************************************)
EXTENDS FundsAccounting, TLC

CONSTANTS alice, bob, dep1, dep2, commission1, commission2, k1, r1, tx1

FeePolicy ==
  [requestsEnabled |-> TRUE, buckets |-> {"TOTAL_WALLET"},
   minimum |-> 1, maximum |-> 9, fixedFee |-> 1, percentageFee |-> 0,
   network |-> "TRON"]
MCPolicies == {FeePolicy}

Returning ==
  [package |-> "ALPHA", mode |-> "MULTIPLE_ACTIVE", trigger |-> "PAYMENT_APPROVED",
   principal |-> "RETURN_SEPARATELY", rateMode |-> "FIXED",
   minimum |-> 2, maximum |-> 3]

Exclusive ==
  [package |-> "PRIME", mode |-> "SINGLE_ACTIVE", trigger |-> "MANUAL_ACTIVATION",
   principal |-> "INCLUDED_IN_TOTAL_RETURN", rateMode |-> "RANDOM_RANGE",
   minimum |-> 2, maximum |-> 2]

MCPlans == {Returning, Exclusive}
MCCatalogues == {MCPlans}
MCDeposits == {dep1, dep2}
MCDepositUser == (dep1 :> alice) @@ (dep2 :> alice)
MCDepositAmount == (dep1 :> 2) @@ (dep2 :> 2)
MCDepositPlan == (dep1 :> Returning) @@ (dep2 :> Exclusive)

AliceUsers == {alice}
AliceEarnings == {commission1}
AliceEarningUser == (commission1 :> alice)
AliceEarningBucket == (commission1 :> "REFERRAL_COMMISSION")
AliceEarningAmount == (commission1 :> 2)
AliceDeposits == {dep1}
AliceDepositUser == (dep1 :> alice)
AliceDepositAmount == (dep1 :> 2)
AliceDepositPlan == (dep1 :> Returning)

BobUsers == {bob}
BobEarnings == {commission2}
BobEarningUser == (commission2 :> bob)
BobEarningBucket == (commission2 :> "REWARDS")
BobEarningAmount == (commission2 :> 2)
NoDeposits == [d \in {} |-> {}]
=============================================================================
