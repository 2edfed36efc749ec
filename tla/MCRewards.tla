----------------------------- MODULE MCRewards -----------------------------
(***************************************************************************)
(* Small instances of rewards: a package of 2 units with a cap of 5 whose  *)
(* rewards are 1 and 3 (clipped to the cap), and one of internal trading.  *)
(***************************************************************************)
EXTENDS Rewards, TLC

CONSTANTS legacy, trading

MCSubs == {legacy, trading}
MCAuthority == (legacy :> "LEGACY_REWARD") @@ (trading :> "INTERNAL_TRADING")
MCActivatedAt == (legacy :> 1) @@ (trading :> 0)
MCPrice == (legacy :> 2) @@ (trading :> 2)
MCCapLimit == (legacy :> 5) @@ (trading :> 4)
MCWindows == {[from |-> 1, to |-> 3], [from |-> 1, to |-> Forever],
              [from |-> 2, to |-> Forever], [from |-> 3, to |-> Forever]}
MCCalculated == (legacy :> <<1, 1, 3>>) @@ (trading :> <<1, 1, 1>>)
=============================================================================
