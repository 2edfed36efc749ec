--------------------------- MODULE Subscriptions ----------------------------
(***************************************************************************)
(* Package subscriptions (backend/src/subscriptions, the deposit posting   *)
(* of backend/src/wallet and the package completion of internal-trading).  *)
(*                                                                         *)
(* A deposit that is approved is posted to the user's MAIN bucket, and a   *)
(* later transaction moves it from MAIN to package principal.  The two are *)
(* separate database transactions: between them any other handler may run, *)
(* and a plan with manual activation keeps them apart until an             *)
(* administrator acts.  A user may also buy a package from the Total       *)
(* Wallet (reinvestment), which touches no bucket.                         *)
(***************************************************************************)
EXTENDS Ledger

CONSTANTS
  Deposits,         \* package deposits
  DepositUser,      \* deposit -> the user who pays
  DepositAmount,    \* deposit -> the amount, fixed at submission
  DepositPlan,      \* deposit -> the plan item snapshotted at submission
  Packages,         \* packages the plan items offer
  Plans,            \* package plan items
  Catalogues,       \* sets of plan items that may be on offer together
  PurchaseKeys,     \* client-chosen keys of reinvestments
  PurchaseAmounts,  \* amounts users reinvest
  TradingModels,    \* trading policies that take effect: NONE, V1, V2
  GateSettings      \* values the V2 safety gate is deployed with

VARIABLES
  deposit,          \* deposit -> review status
  subscription,     \* the user_package_subscriptions rows
  catalogue,        \* plan items published, in effect and AVAILABLE
  tradingModel,     \* financial model of the effective trading policy
  v2Gate            \* the environment's V2 safety gate is on

subscriptionVars == <<deposit, subscription, catalogue, tradingModel, v2Gate>>

PlanRows ==
  [package : Packages \union {"NONE"}, mode : {"SINGLE_ACTIVE", "MULTIPLE_ACTIVE"},
   trigger : {"PAYMENT_SUBMITTED", "PAYMENT_APPROVED", "MANUAL_ACTIVATION",
              "RULE_BASED"},
   principal : {"RETURN_SEPARATELY", "INCLUDED_IN_TOTAL_RETURN",
                "NON_REFUNDABLE_PACKAGE_VALUE"},
   rateMode : {"FIXED", "RANDOM_RANGE", "MANUAL", "RULE_BASED"},
   minimum : Nat, maximum : Nat]

\* A subscription is named by what created it: a deposit, or a user's key.
SubscriptionIds ==
  ({"DEPOSIT"} \X Deposits) \union ({"REINVESTMENT"} \X (Users \X PurchaseKeys))

Subscriber(s) ==
  IF s[1] = "DEPOSIT" THEN DepositUser[s[2]] ELSE s[2][1]

ASSUME SubscriptionsAssumption ==
  /\ Plans \subseteq PlanRows
  /\ Catalogues \subseteq SUBSET Plans
  /\ DepositUser \in [Deposits -> Users]
  /\ DepositAmount \in [Deposits -> Nat \ {0}]
  /\ DepositPlan \in [Deposits -> Plans]
  /\ PurchaseAmounts \subseteq Nat
  /\ TradingModels \subseteq {"NONE", "V1", "V2"}
  /\ GateSettings \subseteq BOOLEAN

\* status "NONE": no such row.  authority: what the activation snapshotted.
\* trading: the internal-trading lifecycle state, NONE until initialized.
SubscriptionRows(plans) ==
  [status : {"NONE", "ACTIVE", "COMPLETED"}, plan : plans, principal : Nat,
   authority : {"LEGACY_REWARD", "V1", "V2"},
   trading : {"NONE", "ACTIVE", "COMPLETED"}]

NoPlan ==
  [package |-> "NONE", mode |-> "SINGLE_ACTIVE", trigger |-> "RULE_BASED",
   principal |-> "INCLUDED_IN_TOTAL_RETURN", rateMode |-> "FIXED",
   minimum |-> 0, maximum |-> 0]

NoSubscription ==
  [status |-> "NONE", plan |-> NoPlan, principal |-> 0,
   authority |-> "LEGACY_REWARD", trading |-> "NONE"]

SubscriptionTypeOK ==
  /\ deposit \in [Deposits -> {"OPEN", "APPROVED", "REJECTED"}]
  /\ subscription \in [SubscriptionIds -> SubscriptionRows(Plans \union {NoPlan})]
  /\ catalogue \subseteq Plans
  /\ tradingModel \in TradingModels \union {"NONE"}
  /\ v2Gate \in BOOLEAN

SubscriptionInit ==
  /\ deposit = [d \in Deposits |-> "OPEN"]
  /\ subscription = [s \in SubscriptionIds |-> NoSubscription]
  /\ catalogue = {}
  /\ tradingModel = "NONE"
  /\ v2Gate = FALSE

-----------------------------------------------------------------------------
(* Configuration.                                                           *)

PublishPlan(plans) ==
  /\ catalogue' = plans
  /\ UNCHANGED <<ledgerVars, deposit, subscription, tradingModel, v2Gate>>

(* An enabled V2 policy is published only while the gate is on.             *)
PublishTradingPolicy(model) ==
  /\ model = "V2" => v2Gate
  /\ tradingModel' = model
  /\ UNCHANGED <<ledgerVars, deposit, subscription, catalogue, v2Gate>>

(* The backend restarts with another value of the gate's variable.          *)
RestartWithGate(setting) ==
  /\ v2Gate' = setting
  /\ UNCHANGED <<ledgerVars, deposit, subscription, catalogue, tradingModel>>

-----------------------------------------------------------------------------
(* Deposits.                                                                *)

ReviewDeposit(d, verdict) ==
  /\ deposit[d] = "OPEN"
  /\ deposit' = [deposit EXCEPT ![d] = verdict]
  /\ UNCHANGED <<ledgerVars, subscription, catalogue, tradingModel, v2Gate>>

\* ensureUserWalletAccounts: every bucket of the user exists from now on.
EnsureUserWalletAccounts(u) == opened' = [opened EXCEPT ![u] = Buckets]

PostApprovedDeposit(d) ==
  LET u == DepositUser[d]
      n == DepositAmount[d]
  IN /\ deposit[d] = "APPROVED"
     /\ <<"DEPOSIT_CREDIT", d>> \notin posted
     /\ EnsureUserWalletAccounts(u)
     /\ Post(<<"DEPOSIT_CREDIT", d>>,
             [component EXCEPT ![u]["MAIN"] = @ + n],
             [system EXCEPT !["DEPOSIT_CLEARING"] = @ + n],
             eventDelta)
     /\ UNCHANGED subscriptionVars

-----------------------------------------------------------------------------
(* Activation.                                                              *)

ActiveOf(u) ==
  {s \in SubscriptionIds : Subscriber(s) = u /\ subscription[s].status = "ACTIVE"}

\* Rate modes the engines can derive a daily rate from.
TradableRates == {"FIXED", "RANDOM_RANGE"}

InRange(plan, amount) == plan.minimum <= amount /\ amount <= plan.maximum

Authority == IF tradingModel = "NONE" THEN "LEGACY_REWARD" ELSE tradingModel

NewSubscription(plan, amount) ==
  [status |-> "ACTIVE", plan |-> plan, principal |-> amount,
   authority |-> Authority, trading |-> "NONE"]

\* Mutant of ActivateFromApprovedDeposit: the deposit's own accounting is not
\* required, whatever money is in MAIN will do.
ActivateUnaccounted(d, triggers) ==
  LET s == <<"DEPOSIT", d>>
      u == DepositUser[d]
      n == DepositAmount[d]
  IN /\ subscription[s].status = "NONE"
     /\ deposit[d] = "APPROVED"
     /\ DepositPlan[d].trigger \in triggers
     /\ "MAIN" \in opened[u]
     /\ Post(<<"PACKAGE_ACTIVATION", d>>,
             [component EXCEPT ![u]["MAIN"] = @ - n],
             [system EXCEPT !["PACKAGE_PRINCIPAL"] = @ + n],
             eventDelta)
     /\ subscription' =
          [subscription EXCEPT ![s] = NewSubscription(DepositPlan[d], n)]
     /\ UNCHANGED <<opened, deposit, catalogue, tradingModel, v2Gate>>

\* The principal moves from MAIN to the principal account.
FundActivation(d) ==
  LET u == DepositUser[d]
      n == DepositAmount[d]
  IN /\ <<"PACKAGE_ACTIVATION", d>> \notin posted
     /\ "MAIN" \in opened[u]
     /\ Post(<<"PACKAGE_ACTIVATION", d>>,
             [component EXCEPT ![u]["MAIN"] = @ - n],
             [system EXCEPT !["PACKAGE_PRINCIPAL"] = @ + n],
             eventDelta)

(* The activation that follows accounting takes PAYMENT_APPROVED plans, the *)
(* one an administrator asks for also takes MANUAL_ACTIVATION plans.        *)
ActivateFromApprovedDeposit(d, triggers) ==
  LET s == <<"DEPOSIT", d>>
      u == DepositUser[d]
      n == DepositAmount[d]
      plan == DepositPlan[d]
  IN /\ subscription[s].status = "NONE"
     /\ deposit[d] = "APPROVED"
     /\ <<"DEPOSIT_CREDIT", d>> \in posted
     /\ InRange(plan, n)
     /\ plan.trigger \in triggers
     /\ plan.mode = "SINGLE_ACTIVE" => ActiveOf(u) = {}
     /\ tradingModel = "V2" => v2Gate /\ plan.rateMode \in TradableRates
     /\ FundActivation(d)
     /\ subscription' = [subscription EXCEPT ![s] = NewSubscription(plan, n)]
     /\ UNCHANGED <<opened, deposit, catalogue, tradingModel, v2Gate>>

\* Mutant of Purchase: the price is taken from the MAIN bucket.
PurchaseFromMain(u, k, plan, amount) ==
  LET s == <<"REINVESTMENT", <<u, k>>>>
  IN /\ subscription[s].status = "NONE"
     /\ InRange(plan, amount)
     /\ Available(u) >= amount
     /\ Post(s, [component EXCEPT ![u]["MAIN"] = @ - amount],
             [system EXCEPT !["PACKAGE_PRINCIPAL"] = @ + amount],
             eventDelta)
     /\ subscription' = [subscription EXCEPT ![s] = NewSubscription(plan, amount)]
     /\ UNCHANGED <<opened, deposit, catalogue, tradingModel, v2Gate>>

\* On offer now, in a way that a purchase can activate at once.
Purchasable(plan, amount) ==
  /\ plan \in catalogue
  /\ plan.trigger \in {"PAYMENT_APPROVED", "MANUAL_ACTIVATION"}
  /\ InRange(plan, amount)

\* No bucket is touched: the amount is taken by an event of the Total Wallet.
FundFromTotalWallet(u, s, amount) ==
  /\ s \notin posted
  /\ Available(u) >= amount
  /\ Post(s, component,
          [system EXCEPT !["PAYOUT_TOTAL_WALLET_CONTROL"] = @ + amount,
                         !["PACKAGE_PRINCIPAL"] = @ + amount],
          [eventDelta EXCEPT ![u] = @ - amount])

(* Reinvestment.  A repeated key returns the first subscription, or an      *)
(* error when the data differs, and changes nothing.                        *)
Purchase(u, k, plan, amount) ==
  LET s == <<"REINVESTMENT", <<u, k>>>>
  IN /\ amount > 0
     /\ subscription[s].status = "NONE"
     /\ Purchasable(plan, amount)
     /\ \A t \in ActiveOf(u) : subscription[t].plan.package # plan.package
     /\ plan.mode = "SINGLE_ACTIVE" => ActiveOf(u) = {}
     /\ FundFromTotalWallet(u, s, amount)
     /\ subscription' = [subscription EXCEPT ![s] = NewSubscription(plan, amount)]
     /\ UNCHANGED <<opened, deposit, catalogue, tradingModel, v2Gate>>

-----------------------------------------------------------------------------
(* Life of a subscription.                                                  *)

(* V1 derives its lifetime target from the rates at once, V2 does not look  *)
(* at them before its first trade.                                          *)
InitializeTrading(s) ==
  /\ subscription[s].status = "ACTIVE"
  /\ subscription[s].trading = "NONE"
  /\ \/ /\ subscription[s].authority = "V1"
        /\ subscription[s].plan.rateMode \in TradableRates
     \/ subscription[s].authority = "V2" /\ v2Gate
  /\ subscription' = [subscription EXCEPT ![s].trading = "ACTIVE"]
  /\ UNCHANGED <<ledgerVars, deposit, catalogue, tradingModel, v2Gate>>

(* The settlement of the last trading slot.                                 *)
CompleteTrading(s) ==
  /\ subscription[s].trading = "ACTIVE"
  /\ subscription[s].plan.rateMode \in TradableRates
  /\ subscription' = [subscription EXCEPT ![s].trading = "COMPLETED"]
  /\ UNCHANGED <<ledgerVars, deposit, catalogue, tradingModel, v2Gate>>

\* Mutant of ReturnPrincipal: the return is booked as an expense and the
\* principal account keeps what it holds.
ReturnPrincipalAsExpense(s) ==
  LET u == Subscriber(s)
      n == subscription[s].principal
  IN /\ "MAIN" \in opened[u]
     /\ Post(<<"PRINCIPAL_RETURN", s>>,
             [component EXCEPT ![u]["MAIN"] = @ + n],
             [system EXCEPT !["EARNINGS_EXPENSE"] = @ + n],
             eventDelta)
     /\ UNCHANGED opened

ReturnPrincipal(s) ==
  LET u == Subscriber(s)
      n == subscription[s].principal
  IN /\ "MAIN" \in opened[u]
     /\ Post(<<"PRINCIPAL_RETURN", s>>,
             [component EXCEPT ![u]["MAIN"] = @ + n],
             [system EXCEPT !["PACKAGE_PRINCIPAL"] = @ - n],
             eventDelta)
     /\ UNCHANGED opened

\* Mutant of FinalizeCompletion: the principal goes back whatever the terms.
FinalizeReturningAlways(s) ==
  /\ subscription[s].trading = "COMPLETED"
  /\ subscription[s].status = "ACTIVE"
  /\ ReturnPrincipal(s)
  /\ subscription' = [subscription EXCEPT ![s].status = "COMPLETED"]
  /\ UNCHANGED <<deposit, catalogue, tradingModel, v2Gate>>

\* Mutant of FinalizeCompletion: the status update is forgotten.
FinalizeWithoutStatus(s) ==
  /\ subscription[s].trading = "COMPLETED"
  /\ subscription[s].status = "ACTIVE"
  /\ <<"PRINCIPAL_RETURN", s>> \notin posted
  /\ ReturnPrincipal(s)
  /\ UNCHANGED subscriptionVars

FinalizeCompletion(s) ==
  /\ subscription[s].trading = "COMPLETED"
  /\ subscription[s].principal > 0
  /\ subscription[s].status = "ACTIVE"
  /\ IF /\ subscription[s].plan.principal = "RETURN_SEPARATELY"
        /\ <<"PRINCIPAL_RETURN", s>> \notin posted
     THEN ReturnPrincipal(s)
     ELSE UNCHANGED ledgerVars
  /\ subscription' = [subscription EXCEPT ![s].status = "COMPLETED"]
  /\ UNCHANGED <<deposit, catalogue, tradingModel, v2Gate>>

(* The reward engine completes a subscription at its cap, whatever authority *)
(* it was activated with: its batch takes up every active one.  It blocks the *)
(* terms it cannot execute, a principal to be returned among them.           *)
CompleteLegacyReward(s) ==
  /\ subscription[s].status = "ACTIVE"
  /\ subscription[s].plan.principal = "INCLUDED_IN_TOTAL_RETURN"
  /\ subscription[s].plan.rateMode \in TradableRates
  /\ subscription' = [subscription EXCEPT ![s].status = "COMPLETED"]
  /\ UNCHANGED <<ledgerVars, deposit, catalogue, tradingModel, v2Gate>>

SubscriptionNext ==
  \/ \E plans \in Catalogues : PublishPlan(plans)
  \/ \E model \in TradingModels : PublishTradingPolicy(model)
  \/ \E setting \in GateSettings : RestartWithGate(setting)
  \/ \E d \in Deposits, verdict \in {"APPROVED", "REJECTED"} :
       ReviewDeposit(d, verdict)
  \/ \E d \in Deposits : PostApprovedDeposit(d)
  \/ \E d \in Deposits : ActivateFromApprovedDeposit(d, {"PAYMENT_APPROVED"})
  \/ \E d \in Deposits :
       ActivateFromApprovedDeposit(d, {"PAYMENT_APPROVED", "MANUAL_ACTIVATION"})
  \/ \E s \in SubscriptionIds : InitializeTrading(s)
  \/ \E s \in SubscriptionIds : CompleteTrading(s)
  \/ \E s \in SubscriptionIds : FinalizeCompletion(s)
  \/ \E s \in SubscriptionIds : CompleteLegacyReward(s)

PurchaseNext ==
  \E u \in Users, k \in PurchaseKeys, plan \in catalogue, amount \in PurchaseAmounts :
    Purchase(u, k, plan, amount)
=============================================================================
