------------------------------ MODULE MCAwards ------------------------------
(***************************************************************************)
(* Small instances of awards: member 2 under 1, member 3 under 2, and two  *)
(* policies of which the second puts the kinds in the other order.  Only   *)
(* member 1 and 2 buy kinds that are awarded.                              *)
(***************************************************************************)
EXTENDS AwardRewards, TLC

CONSTANTS bronze, silver, plain

MCSponsor == <<0, 1, 2>>
MCPrice == (bronze :> 1) @@ (silver :> 2) @@ (plain :> 1)
MCPurchases == {<<1, bronze>>, <<1, silver>>, <<2, bronze>>, <<3, plain>>}
MCPolicies ==
  <<[enabled |-> TRUE,
     order |-> (bronze :> 1) @@ (silver :> 2) @@ (plain :> 0),
     award |-> (bronze :> 1) @@ (silver :> 2) @@ (plain :> 0),
     required |-> (bronze :> <<1, 0>>) @@ (silver :> <<0, 1>>) @@ (plain :> <<0, 0>>)],
    [enabled |-> TRUE,
     order |-> (bronze :> 3) @@ (silver :> 2) @@ (plain :> 0),
     award |-> (bronze :> 3) @@ (silver :> 1) @@ (plain :> 0),
     required |-> (bronze :> <<1, 0>>) @@ (silver :> <<1, 1>>) @@ (plain :> <<0, 0>>)]>>
=============================================================================
