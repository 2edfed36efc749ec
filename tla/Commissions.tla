----------------------------- MODULE Commissions -----------------------------
(***************************************************************************)
(* Referral commissions (backend/src/commissions) over the sponsor tree.   *)
(*                                                                         *)
(* A package activation is followed, in a transaction of its own, by a     *)
(* commission run.  When that transaction fails, or the process dies       *)
(* before it, the subscription stays without a run until an administrator  *)
(* reconciles it, at any later time.  The run must therefore be computed   *)
(* from what was true when the package was activated: plan, sponsors,      *)
(* first purchase and the packages the receivers held.                     *)
(*                                                                         *)
(* Every member is enrolled from the start here; registration and the      *)
(* configuration of the tree are in Referrals.  Currencies are one.        *)
(***************************************************************************)
EXTENDS Referrals, SequencesExt

CONSTANTS
  Root,             \* the root of the tree
  StartTree,        \* member -> sponsor the tree starts with (Nobody: the root)
  Offers,           \* package offers a user can activate
  Plans,            \* commission plans an administrator may publish
  MaxPurchases      \* bound on the subscriptions

VARIABLES
  subscription,     \* the user_package_subscriptions rows, oldest first
  published,        \* published plans with their effective ranges
  run,              \* subscription -> its referral_commission_runs row
  commission        \* user -> balance of the REFERRAL_COMMISSION bucket

commissionVars == <<referralVars, subscription, published, run, commission>>

Forever == MaxTime + 1     \* a null effectiveTo or completedAt
Subscriptions == 1..MaxPurchases
Packages == {o.package : o \in Offers}

\* assertPublishablePlan admits no other basis than these two, so that the
\* other branches of resolveReceiverPackageBasis are never taken.
OfferRows ==
  [package : Packages, price : Nat,
   basis : {"SINGLE_ACTIVE", "HIGHEST_ACTIVE_PACKAGE"}]

\* Plans as validatePlanConfiguration lets them be published: contiguous
\* levels, one of them enabled, matching only with active packages required.
\* depth: package -> deepest level it unlocks, 0 where no rule is enabled;
\* an empty domain means that the plan has no package depth rules.
LevelRules == [enabled : BOOLEAN, rate : 1..100, matching : BOOLEAN]

ValidPlan(plan) ==
  LET levels == DOMAIN plan.levels
  IN /\ {plan.firstPurchase, plan.newPurchase, plan.activePackageRequired} \subseteq BOOLEAN
     /\ plan.levels \in Seq(LevelRules)
     /\ \E n \in levels : plan.levels[n].enabled
     /\ \A n \in levels : plan.levels[n].matching => plan.activePackageRequired
     /\ \A p \in DOMAIN plan.depth : plan.depth[p] \in {0} \union levels
     /\ DOMAIN plan.depth # {} => \E p \in DOMAIN plan.depth : plan.depth[p] > 0
     /\ plan.firstPurchase \/ plan.newPurchase

ASSUME CommissionsAssumption ==
  /\ IsFiniteSet(Users) /\ Root \in Users
  /\ StartTree \in [Users -> Sponsors] /\ Acyclic(StartTree)
  /\ \A u \in Users : StartTree[u] = Nobody <=> u = Root
  /\ MaxPurchases \in Nat
  /\ Offers \subseteq OfferRows
  /\ \A plan \in Plans : ValidPlan(plan)

NoRun == [outcome |-> "NONE", events |-> {}]

SubscriptionRows ==
  [user : Users, offer : Offers, activatedAt : Times, status : {"ACTIVE", "COMPLETED"},
   tradedUntil : 0..Forever, completedAt : 0..Forever]

PlanRows == [plan : Plans, from : Times, to : 0..Forever]

EventRows ==
  [level : Nat, receiver : Users, amount : Nat,
   outcome : {"NO_ACTIVE_PACKAGE", "PACKAGE_LEVEL_NOT_UNLOCKED",
              "ZERO_ELIGIBLE_BASE", "AVAILABLE"}]

RunRows ==
  [outcome : {"NONE", "NO_EFFECTIVE_PLAN", "NO_SPONSOR", "PROCESSED"},
   events : SUBSET EventRows]

CommissionTypeOK ==
  /\ ReferralTypeOK
  /\ subscription \in Seq(SubscriptionRows)
  /\ published \subseteq PlanRows
  /\ run \in [Subscriptions -> RunRows]
  /\ commission \in [Users -> Nat]

CommissionInit ==
  /\ now = 0
  /\ account = [u \in Users |-> "ACTIVE"]
  /\ profile = [u \in Users |->
                 [status |-> IF u = Root THEN "ROOT" ELSE "ASSIGNED",
                  sponsor |-> StartTree[u], assignedAt |-> 0]]
  /\ sponsorHistory = [i \in DOMAIN SetToSeq(Users) |->
       LET u == SetToSeq(Users)[i]
       IN [member |-> u, sponsor |-> StartTree[u], at |-> 0]]
  /\ config = [root |-> Root, defaultSponsor |-> Root, enrollment |-> TRUE]
  /\ subscription = <<>>
  /\ published = {}
  /\ run = [s \in Subscriptions |-> NoRun]
  /\ commission = [u \in Users |-> 0]

-----------------------------------------------------------------------------
(* What a run is computed from.                                             *)

(* Mutant of EffectivePlans: the plan of the day the run is made.           *)
PlansOfToday(at) == {p \in published : p.from <= now /\ now < p.to}

EffectivePlans(at) == {p \in published : p.from <= at /\ at < p.to}

FirstPurchase(s) ==
  \A r \in DOMAIN subscription :
    subscription[r].user = subscription[s].user =>
      subscription[r].activatedAt >= subscription[s].activatedAt

(* The purchaser at level 0 and the sponsors above, as they were then.      *)
SponsorRoute(user, at, maxLevel) ==
  LET up[n \in 0..maxLevel] ==
        IF n = 0 THEN user
        ELSE IF up[n - 1] = Nobody THEN Nobody
        ELSE ResolveSponsorAt(up[n - 1], at)
  IN up

RouteMeetsItself(up) ==
  \E i, j \in DOMAIN up : i < j /\ up[i] # Nobody /\ up[i] = up[j]

HeldPackages(user, at) ==
  {s \in DOMAIN subscription :
     /\ subscription[s].user = user
     /\ subscription[s].activatedAt <= at
     /\ subscription[s].status = "ACTIVE" \/ subscription[s].completedAt > at}

Price(s) == subscription[s].offer.price

(* The latest package held decides how the others count.                    *)
BasisRule(user, at) == subscription[Max(HeldPackages(user, at))].offer.basis

ReceiverPackageBasis(user, at) ==
  LET held == HeldPackages(user, at)
  IN IF held = {} THEN 0
     ELSE IF BasisRule(user, at) = "SINGLE_ACTIVE" THEN Price(Max(held))
     ELSE Max({Price(s) : s \in held})

ReceiverMaxDepth(user, at, plan) ==
  Max({0} \union
      {plan.depth[subscription[s].offer.package] :
         s \in {h \in HeldPackages(user, at) :
                  subscription[h].offer.package \in DOMAIN plan.depth}})

-----------------------------------------------------------------------------
(* One level of a run.                                                      *)

CommissionEvent(s, plan, level, receiver) ==
  LET at == subscription[s].activatedAt
      rule == plan.levels[level]
      basis == ReceiverPackageBasis(receiver, at)
      eligible == IF rule.matching THEN Min({basis, Price(s)}) ELSE Price(s)
      amount == (eligible * rule.rate + 50) \div 100
      outcome ==
        IF plan.activePackageRequired /\ basis = 0 THEN "NO_ACTIVE_PACKAGE"
        ELSE IF DOMAIN plan.depth # {} /\ level > ReceiverMaxDepth(receiver, at, plan)
        THEN "PACKAGE_LEVEL_NOT_UNLOCKED"
        ELSE IF amount = 0 THEN "ZERO_ELIGIBLE_BASE"
        ELSE "AVAILABLE"
  IN [level |-> level, receiver |-> receiver, outcome |-> outcome,
      amount |-> IF outcome = "AVAILABLE" THEN amount ELSE 0]

-----------------------------------------------------------------------------
(* Runs.                                                                    *)

PlanOf(s) == (CHOOSE p \in EffectivePlans(subscription[s].activatedAt) : TRUE).plan

TriggerEnabled(s) ==
  IF FirstPurchase(s) THEN PlanOf(s).firstPurchase ELSE PlanOf(s).newPurchase

EnabledLevels(plan) == {n \in DOMAIN plan.levels : plan.levels[n].enabled}

RouteOf(s) ==
  SponsorRoute(subscription[s].user, subscription[s].activatedAt,
               Max(EnabledLevels(PlanOf(s))))

PaidLevels(s) == {n \in EnabledLevels(PlanOf(s)) : RouteOf(s)[n] # Nobody}

(* Processing refuses a cyclic route.                                       *)
RunRefused(s) ==
  /\ EffectivePlans(subscription[s].activatedAt) # {}
  /\ TriggerEnabled(s)
  /\ RouteMeetsItself(RouteOf(s))

(* The rows a run of processSubscription writes.                            *)
RunResult(s) ==
  CASE EffectivePlans(subscription[s].activatedAt) = {} ->
         [outcome |-> "NO_EFFECTIVE_PLAN", events |-> {}]
    [] OTHER ->
         IF ~TriggerEnabled(s) THEN [outcome |-> "PROCESSED", events |-> {}]
         ELSE IF RouteOf(s)[1] = Nobody THEN [outcome |-> "NO_SPONSOR", events |-> {}]
         ELSE [outcome |-> "PROCESSED",
               events |-> {CommissionEvent(s, PlanOf(s), n, RouteOf(s)[n]) :
                             n \in PaidLevels(s)}]

AmountsFor(u, events) ==
  SumFunction([e \in {x \in events : x.receiver = u} |-> e.amount])

(* Mutant of HasRun: every call processes the subscription again.           *)
NeverRun(s) == FALSE

HasRun(s) == run[s].outcome # "NONE"

(* processSubscription, after an activation or as a later reconciliation:   *)
(* the first run's rows and postings commit together, later calls find it.  *)
ProcessSubscription(s) ==
  /\ s \in DOMAIN subscription
  /\ ~HasRun(s)
  /\ ~RunRefused(s)
  /\ run' = [run EXCEPT ![s] = RunResult(s)]
  /\ commission' = [u \in Users |->
                      commission[u] + AmountsFor(u, RunResult(s).events)]
  /\ UNCHANGED <<referralVars, subscription, published>>

-----------------------------------------------------------------------------
(* Commission plans, packages and sponsors meanwhile.                       *)

Overlaps(from, to) == {p \in published : p.to > from /\ p.from < to}

(* publishPlan: not backdated; an open predecessor is closed where the new  *)
(* range starts, any other overlap is refused.                              *)
PublishPlan(plan, from, to) ==
  /\ Stamp
  /\ from > now /\ from < to
  /\ \A p \in Overlaps(from, to) :
       /\ Overlaps(from, to) = {p}
       /\ p.to = Forever /\ p.from < from
  /\ published' =
       (published \ Overlaps(from, to))
         \union {[p EXCEPT !.to = from] : p \in Overlaps(from, to)}
         \union {[plan |-> plan, from |-> from, to |-> to]}
  /\ UNCHANGED <<account, profile, sponsorHistory, config, subscription, run, commission>>

ActivatePackage(u, offer) ==
  /\ Stamp
  /\ Len(subscription) < MaxPurchases
  /\ offer.basis = "SINGLE_ACTIVE" =>
       \A s \in DOMAIN subscription :
         subscription[s].user = u => subscription[s].status = "COMPLETED"
  /\ subscription' = Append(subscription,
       [user |-> u, offer |-> offer, activatedAt |-> now + 1, status |-> "ACTIVE",
        tradedUntil |-> Forever, completedAt |-> Forever])
  /\ UNCHANGED <<account, profile, sponsorHistory, config, published, run, commission>>

(* The last trading slot of a package is settled: its lifecycle state ends. *)
EndTrading(s) ==
  /\ Stamp
  /\ s \in DOMAIN subscription
  /\ subscription[s].tradedUntil = Forever
  /\ subscription' = [subscription EXCEPT ![s].tradedUntil = now + 1]
  /\ UNCHANGED <<account, profile, sponsorHistory, config, published, run, commission>>

(* finalizeCompletion, later and again and again until it succeeds: the     *)
(* subscription is completed as of the end of its trading.                  *)
FinalizeCompletion(s) ==
  /\ s \in DOMAIN subscription
  /\ subscription[s].status = "ACTIVE"
  /\ subscription[s].tradedUntil # Forever
  /\ subscription' = [subscription EXCEPT
       ![s].status = "COMPLETED", ![s].completedAt = subscription[s].tradedUntil]
  /\ UNCHANGED <<referralVars, published, run, commission>>

MoveMember(member, sponsor) ==
  /\ AssignSponsor(member, sponsor)
  /\ UNCHANGED <<subscription, published, run, commission>>

CommissionNext ==
  \/ \E s \in Subscriptions :
       ProcessSubscription(s) \/ EndTrading(s) \/ FinalizeCompletion(s)
  \/ \E plan \in Plans, from \in Times, to \in 1..Forever : PublishPlan(plan, from, to)
  \/ \E u \in Users, offer \in Offers : ActivatePackage(u, offer)
  \/ \E member, sponsor \in Users : MoveMember(member, sponsor)

CommissionSpec == CommissionInit /\ [][CommissionNext]_commissionVars

-----------------------------------------------------------------------------
(* Correctness.                                                             *)

(* What a user has been credited is what the AVAILABLE events of all runs   *)
(* say, once each, however often a subscription is processed.               *)
CreditedOnce ==
  \A u \in Users :
    commission[u] = SumFunction([s \in Subscriptions |-> AmountsFor(u, run[s].events)])

(* A waiting subscription keeps the plan, the trigger and the receivers of  *)
(* its activation, whatever is published or reassigned before it is         *)
(* reconciled.                                                              *)
PendingKeepsItsTerms ==
  [][\A s \in DOMAIN subscription : ~HasRun(s) =>
       /\ EffectivePlans(subscription[s].activatedAt)' = {} <=>
            EffectivePlans(subscription[s].activatedAt) = {}
       /\ EffectivePlans(subscription[s].activatedAt) # {} =>
            /\ PlanOf(s)' = PlanOf(s)
            /\ TriggerEnabled(s)' = TriggerEnabled(s)
            /\ RouteOf(s)' = RouteOf(s)]_commissionVars

(* What the documentation says: a receiver qualifies by the packages held   *)
(* at the time of the activation, so a run that is made late gives what an  *)
(* immediate one would have given.                                          *)
LateRunsGiveTheSame ==
  [][\A s \in DOMAIN subscription :
       ~HasRun(s) => RunResult(s)' = RunResult(s)]_commissionVars
=============================================================================
