--------------------------- MODULE MCCommissions ----------------------------
(***************************************************************************)
(* Small instance of the commissions: a root and two members in a line     *)
(* below it, two purchases, two plans (one pays two levels and matches     *)
(* packages, one unlocks levels by package and pays no first purchase),    *)
(* and packages of both basis rules.                                       *)
(***************************************************************************)
EXTENDS Commissions, TLC

CONSTANTS root, ann, ben, small, large

MCUsers == {root, ann, ben}
MCStartTree == (root :> Nobody) @@ (ann :> root) @@ (ben :> ann)

MCOffers ==
  {[package |-> small, price |-> 10, basis |-> "HIGHEST_ACTIVE_PACKAGE"],
   [package |-> large, price |-> 20, basis |-> "SINGLE_ACTIVE"]}

Level(enabled, rate, matching) ==
  [enabled |-> enabled, rate |-> rate, matching |-> matching]

MatchingPlan ==
  [firstPurchase |-> TRUE, newPurchase |-> TRUE, activePackageRequired |-> TRUE,
   levels |-> <<Level(TRUE, 10, TRUE), Level(TRUE, 50, FALSE)>>,
   depth |-> [p \in {} |-> 0]]

DepthPlan ==
  [firstPurchase |-> FALSE, newPurchase |-> TRUE, activePackageRequired |-> FALSE,
   levels |-> <<Level(FALSE, 10, FALSE), Level(TRUE, 50, FALSE)>>,
   depth |-> (small :> 1) @@ (large :> 2)]

MCPlans == {MatchingPlan, DepthPlan}
=============================================================================
