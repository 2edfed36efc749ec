----------------------------- MODULE MCDeposits -----------------------------
(***************************************************************************)
(* Small instances of the submission of deposits: two users, a package for *)
(* each of two assets that may be received at the same wallet, and a       *)
(* deposit of the earlier release that is still open.                      *)
(***************************************************************************)
EXTENDS DepositSubmission, TLC

CONSTANTS ann, ben, usdt, usdc, wallet1, wallet2, tx1, tx2, silver, gold

MCUsers == {ann, ben}
MCPackages == {silver, gold}
MCCurrency == (silver :> usdt) @@ (gold :> usdc)
MCSender == (tx1 :> ann) @@ (tx2 :> ben)
MCPresent == {<<usdt, wallet1>>, <<usdc, wallet1>>, <<usdt, wallet2>>}
MCRoutes == {(silver :> <<usdt, wallet1>>) @@ (gold :> <<usdc, wallet1>>),
             (silver :> <<usdt, wallet1>>) @@ (gold :> NoAccount)}
MCEarlier == {[user |-> ben, package |-> gold, account |-> <<usdc, wallet1>>]}
=============================================================================
