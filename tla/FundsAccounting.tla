-------------------------- MODULE FundsAccounting ---------------------------
(***************************************************************************)
(* The books of the funds system: what every account must add up to.       *)
(*                                                                         *)
(* What a row contributes to an account is a function of the row that is   *)
(* zero where the row does not count, so that every sum is over all rows.  *)
(***************************************************************************)
EXTENDS FundsSystem, FiniteSets, Functions

ASSUME FiniteTables ==
  /\ IsFiniteSet(Users) /\ IsFiniteSet(RequestKeys)
  /\ IsFiniteSet(Deposits) /\ IsFiniteSet(PurchaseKeys)

BucketTotals == [u \in Users |-> SourceBalance(u)]

\* Debits equal credits over all accounts of the platform, after every step:
\* no handler books one leg of a transaction without the other.
TrialBalance ==
  system["DEPOSIT_CLEARING"] + system["PAYOUT_TOTAL_WALLET_CONTROL"]
    + system["EARNINGS_EXPENSE"]
  = SumFunction(BucketTotals) + system["PACKAGE_PRINCIPAL"]
    + system["PAYOUT_RESERVE"] + system["PAYOUT_SETTLEMENT"]
    + system["PAYOUT_FEE_REVENUE"]

\* The reserve holds exactly the gross amounts of the open payouts, so every
\* open payout can be rejected or settled; settlement and fee revenue hold
\* exactly the net amounts and the fees of the completed ones, as quoted when
\* each was requested.
GrossHeld == [p \in Payouts |-> IF payout[p].status \in OpenStatuses THEN payout[p].gross ELSE 0]
NetPaid == [p \in Payouts |-> IF payout[p].status = "COMPLETED" THEN payout[p].net ELSE 0]
FeeKept == [p \in Payouts |-> IF payout[p].status = "COMPLETED" THEN payout[p].fee ELSE 0]
PayoutAccountsMatchRows ==
  /\ system["PAYOUT_RESERVE"] = SumFunction(GrossHeld)
  /\ system["PAYOUT_SETTLEMENT"] = SumFunction(NetPaid)
  /\ system["PAYOUT_FEE_REVENUE"] = SumFunction(FeeKept)

\* The Total Wallet control account is the mirror of the users' event logs:
\* what users spent from their Total Wallets is what the control account owes
\* the buckets.
ControlMirrorsWallets ==
  system["PAYOUT_TOTAL_WALLET_CONTROL"] = - SumFunction(eventDelta)

\* What the Total Wallet of a user has paid for and not got back: payouts that
\* are open or completed, and reinvestments.
SpentOnPayouts(u) ==
  [p \in Payouts |->
     IF /\ Owner(p) = u /\ payout[p].source = "TOTAL_WALLET"
        /\ payout[p].status \in OpenStatuses \union {"COMPLETED"}
     THEN payout[p].gross ELSE 0]
SpentOnPackages(u) ==
  [s \in SubscriptionIds |->
     IF s[1] = "REINVESTMENT" /\ Subscriber(s) = u THEN subscription[s].principal ELSE 0]

\* The events of a user are exactly that: each release gives back what its own
\* reservation took, and no other engine writes them.
EventsAreSpending ==
  \A u \in Users :
    eventDelta[u] = - SumFunction(SpentOnPayouts(u)) - SumFunction(SpentOnPackages(u))

\* Package principal is exactly the principal of the subscriptions that have
\* not given it back: running ones, and completed ones whose terms keep it.
PrincipalHeld ==
  [s \in SubscriptionIds |->
     IF <<"PRINCIPAL_RETURN", s>> \in posted THEN 0 ELSE subscription[s].principal]
PrincipalBacksPackages == system["PACKAGE_PRINCIPAL"] = SumFunction(PrincipalHeld)

\* What an activation of a credited deposit will take from the user's MAIN.
AwaitingActivation(u) ==
  [d \in Deposits |->
     IF /\ DepositUser[d] = u
        /\ <<"DEPOSIT_CREDIT", d>> \in posted
        /\ <<"PACKAGE_ACTIVATION", d>> \notin posted
     THEN DepositAmount[d] ELSE 0]

\* MAIN covers the deposits credited and not yet activated, unless requests
\* of an earlier release could name MAIN itself: a payout from the Total
\* Wallet or a reinvestment never takes the money an activation will need.
PaidPackagesStayFunded ==
  "MAIN" \notin LegacySources =>
    \A u \in Users : component[u]["MAIN"] >= SumFunction(AwaitingActivation(u))

\* Rejecting an open payout, settling a submitted one and returning the
\* principal of a package are never refused for want of money on an account:
\* the balances that each would leave are no less than zero.
AlwaysCovered ==
  /\ \A p \in Payouts : payout[p].status \in OpenStatuses =>
       /\ system["PAYOUT_RESERVE"] >= payout[p].gross
       /\ payout[p].source = "TOTAL_WALLET" =>
            system["PAYOUT_TOTAL_WALLET_CONTROL"] >= payout[p].gross
  /\ \A s \in SubscriptionIds : <<"PRINCIPAL_RETURN", s>> \notin posted =>
       system["PACKAGE_PRINCIPAL"] >= subscription[s].principal
=============================================================================
