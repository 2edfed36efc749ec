----------------------------- MODULE MCPayouts ------------------------------
(***************************************************************************)
(* Small instance of the payout desk: two users with earnings of 3 and 2   *)
(* units, two request keys, two fee policies on two networks (one rounds   *)
(* its percentage) and one that suspends requests.                         *)
(***************************************************************************)
EXTENDS Payouts, TLC

CONSTANTS alice, bob, rewardA, commissionB, k1, k2, tx1, tx2

MCUsers == {alice, bob}
MCEarnings == {rewardA, commissionB}
MCEarningUser == (rewardA :> alice) @@ (commissionB :> bob)
MCEarningBucket ==
  (rewardA :> "REWARDS") @@ (commissionB :> "REFERRAL_COMMISSION")
MCEarningAmount == (rewardA :> 3) @@ (commissionB :> 2)

FlatFee ==
  [requestsEnabled |-> TRUE, buckets |-> {"TOTAL_WALLET", "REWARDS"},
   minimum |-> 1, maximum |-> 9, fixedFee |-> 1, percentageFee |-> 0,
   network |-> "TRON"]

HalfUpFee ==
  [requestsEnabled |-> TRUE, buckets |-> {"TOTAL_WALLET"},
   minimum |-> 0, maximum |-> 3, fixedFee |-> 0, percentageFee |-> 25,
   network |-> "BSC"]

Suspended == [FlatFee EXCEPT !.requestsEnabled = FALSE]

MCPolicies == {FlatFee, HalfUpFee, Suspended}
MCAmounts == {1, 2}
=============================================================================
