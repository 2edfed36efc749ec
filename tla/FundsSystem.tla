---------------------------- MODULE FundsSystem -----------------------------
(***************************************************************************)
(* Payouts and subscriptions over one ledger: every handler that moves a   *)
(* user's money, interleaved.  The two parts share nothing but the ledger, *)
(* which is how a payout and a package can compete for the same money.     *)
(* Reinvestment came with the Total Wallet release.                        *)
(***************************************************************************)
EXTENDS Payouts, Subscriptions

fundsVars == <<ledgerVars, payoutVars, subscriptionVars>>

FundsInit == LedgerInit /\ PayoutInit /\ SubscriptionInit

FundsNext ==
  \/ PayoutNext /\ UNCHANGED subscriptionVars
  \/ SubscriptionNext /\ UNCHANGED payoutVars
  \/ totalWalletOnly /\ PurchaseNext /\ UNCHANGED payoutVars
  \/ \E e \in Earnings : PostEarning(e) /\ UNCHANGED <<payoutVars, subscriptionVars>>

FundsSpec == FundsInit /\ [][FundsNext]_fundsVars

\* All platform money is in the type the accounts have: no account, and no
\* recorded amount, ever leaves the naturals.
FundsTypeOK == LedgerTypeOK /\ PayoutTypeOK /\ SubscriptionTypeOK

-----------------------------------------------------------------------------
(* Packages against the ledger.                                             *)

\* A deposit funds a package only out of its own accounting: a subscription
\* row made by a deposit exists exactly when its funding was posted, which
\* implies the deposit was credited, which implies it was approved.
DepositChainInOrder ==
  \A d \in Deposits :
    /\ <<"PACKAGE_ACTIVATION", d>> \in posted
         <=> subscription[<<"DEPOSIT", d>>].status # "NONE"
    /\ <<"PACKAGE_ACTIVATION", d>> \in posted => <<"DEPOSIT_CREDIT", d>> \in posted
    /\ <<"DEPOSIT_CREDIT", d>> \in posted => deposit[d] = "APPROVED"

\* Principal is given back at most once, only for a completed package whose
\* terms return it, and always for one whose terms return it.
PrincipalReturnedOnce ==
  \A s \in SubscriptionIds :
    <<"PRINCIPAL_RETURN", s>> \in posted
      <=> /\ subscription[s].status = "COMPLETED"
          /\ subscription[s].plan.principal = "RETURN_SEPARATELY"

\* The reservation of a payout and a reinvestment check the Total Wallet they
\* spend; the only step that may leave a user's Total Wallet below zero is
\* the activation of a package from an approved deposit, which spends MAIN.
OnlyActivationOverdraws ==
  [][\A u \in Users :
       Available(u)' < Available(u) /\ Available(u)' < 0 =>
         \E d \in Deposits :
           /\ DepositUser[d] = u
           /\ <<"PACKAGE_ACTIVATION", d>> \in posted' \ posted]_fundsVars

-----------------------------------------------------------------------------
(* What the documents promise and the code does not keep.                   *)

\* The Total Wallet is what a user can still spend, so it is never negative.
\* The migration that introduced it calls it the spendable balance of payouts
\* and of package activation; activating from a deposit does not consult it.
TotalWalletNeverNegative == \A u \in Users : Available(u) >= 0

\* A package whose trading is over and whose terms return the principal can
\* have it returned: its user has the MAIN account the return is posted to.
PrincipalCanBeReturned ==
  \A s \in SubscriptionIds :
    /\ subscription[s].status = "ACTIVE"
    /\ subscription[s].trading = "COMPLETED"
    /\ subscription[s].plan.principal = "RETURN_SEPARATELY"
    => "MAIN" \in opened[Subscriber(s)]

\* While a V2 policy is in effect and the safety gate is off, no step issues
\* a subscription.
GateOffBlocksActivation ==
  [][\A s \in SubscriptionIds :
       /\ tradingModel = "V2"
       /\ ~ v2Gate
       /\ subscription[s].status = "NONE"
       => subscription'[s].status = "NONE"]_fundsVars

-----------------------------------------------------------------------------
(* The internal-trading worker scans the completed lifecycles of active     *)
(* subscriptions on every run, so the completion of a package that can be   *)
(* finalized is not put off for ever.  Nothing else here is automatic.      *)

CompletionWorker ==
  \A s \in SubscriptionIds :
    WF_fundsVars(FinalizeCompletion(s) /\ UNCHANGED payoutVars)

FairFundsSpec == FundsSpec /\ CompletionWorker

\* A package whose trading is over is completed in the end, and with it its
\* principal returned, once its user has wallet accounts: whatever else is
\* posted meanwhile, the principal account can always pay the return.
FinishedPackagesComplete ==
  \A s \in SubscriptionIds :
    (/\ subscription[s].trading = "COMPLETED"
     /\ "MAIN" \in opened[Subscriber(s)])
      ~> subscription[s].status = "COMPLETED"
=============================================================================
