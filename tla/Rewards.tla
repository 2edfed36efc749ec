------------------------------- MODULE Rewards -------------------------------
(***************************************************************************)
(* The daily rewards of packages (RWD-01).  A package gets a lifecycle row *)
(* under the reward/cap policy that applies to it, then one reward for     *)
(* each local day after the anchor until the cap or the last goal day.     *)
(*                                                                         *)
(* The worker runs the same two loops as requests do: an administrator's   *)
(* batch or package, and the follow-up of an activation.  Each step of a   *)
(* loop is one Serializable transaction that locks package and row;        *)
(* between the steps a runner goes by the list and the row it has read     *)
(* before.  Amounts are in the smallest unit of money.                     *)
(***************************************************************************)
EXTENDS Integers, Sequences, FiniteSets, Functions

CONSTANTS
  Subs,           \* packages
  Authority,      \* [Subs -> {"LEGACY_REWARD", "INTERNAL_TRADING"}]
  ActivatedAt,    \* [Subs -> Nat]
  Price,          \* [Subs -> Nat]
  CapLimit,       \* [Subs -> Nat], price times cap multiplier, rounded down
  Calculated,     \* [Subs -> [1 .. GoalDays -> Nat]], reward of each goal day
  Executable,     \* packages whose terms RWD-01 can execute
  GoalDays,       \* goal days of a package
  DayLength,      \* instants of a local day
  BatchLimit,     \* DUE_BATCH_LIMIT
  CatchupLimit,   \* MAX_REWARD_CATCHUP_EVENTS_PER_CALL
  Windows,        \* ranges [from, to] that policies are published for
  MaxPolicies,    \* bound on the published policies
  MaxTime,        \* bound of the clock
  MaxCrashes      \* bound on the process stops

ASSUME RewardsAssumption ==
  /\ IsFiniteSet(Subs)
  /\ Authority \in [Subs -> {"LEGACY_REWARD", "INTERNAL_TRADING"}]
  /\ ActivatedAt \in [Subs -> Nat] /\ Price \in [Subs -> Nat] /\ CapLimit \in [Subs -> Nat]
  /\ \A s \in Subs : CapLimit[s] >= Price[s]
  /\ Calculated \in [Subs -> [1 .. GoalDays -> Nat \ {0}]]
  /\ Executable \subseteq Subs
  /\ {GoalDays, DayLength, BatchLimit, CatchupLimit} \subseteq Nat \ {0}
  /\ Windows \subseteq [from : Nat, to : Nat]
  /\ {MaxPolicies, MaxTime, MaxCrashes} \subseteq Nat

VARIABLES
  now,            \* the clock
  policies,       \* ranges of the published reward/cap policies
  package,        \* status of user_package_subscriptions
  state,          \* package_reward_states
  events,         \* package_reward_events, in the order they are posted
  earnings,       \* what rewards have credited to the wallets
  runner,         \* what each runner is doing
  crashes         \* process stops so far

Runners == {"WORKER", "REQUEST"}

rewardVars == <<now, policies, package, state, events, earnings, runner, crashes>>

Forever == MaxTime + 1
Day(t) == t \div DayLength
ActivationDay(s) == Day(ActivatedAt[s])
Least(a, b) == IF a <= b THEN a ELSE b
Most(a, b) == IF a >= b THEN a ELSE b

NoRow == [status |-> "NONE"]
HasRow(s) == state[s].status # "NONE"
DueAt(row) == row.nextDay * DayLength

Idle == [phase |-> "IDLE", asOf |-> 0, todo |-> <<>>, posted |-> 0]

PolicyRange == [from : Nat, to : Nat]
StateRow == [status : {"BLOCKED", "ACTIVE", "COMPLETED"}, nextDay : Nat, capConsumed : Nat,
             settled : Nat, from : Nat]
EventRow == [sub : Subs, day : Nat, amount : Nat]
Run == [phase : {"IDLE", "INITIALIZE", "DUE"}, asOf : Nat, todo : Seq(Subs),
        posted : Nat \cup {-1}]

\* Rows, runs and amounts have their types.
RewardTypeOK ==
  /\ now \in Nat /\ crashes \in Nat /\ earnings \in Nat
  /\ policies \subseteq PolicyRange
  /\ package \in [Subs -> {"NONE", "ACTIVE", "COMPLETED"}]
  /\ state \in [Subs -> StateRow \cup {NoRow}]
  /\ events \in Seq(EventRow)
  /\ runner \in [Runners -> Run]

RewardInit ==
  /\ now = 0
  /\ policies = {}
  /\ package = [s \in Subs |-> "NONE"]
  /\ state = [s \in Subs |-> NoRow]
  /\ events = <<>>
  /\ earnings = 0
  /\ runner = [r \in Runners |-> Idle]
  /\ crashes = 0

-----------------------------------------------------------------------------
(* Policies and packages *)

\* An open predecessor that has an earlier start is closed.
PublishPolicy(window) ==
  LET from == window.from
      open == {p \in policies : p.to > from}
  IN /\ Cardinality(policies) < MaxPolicies
     /\ from > now /\ from < window.to
     /\ \A p \in open : p.to = Forever /\ p.from < from
     /\ policies' = (policies \ open) \cup {[p EXCEPT !.to = from] : p \in open}
                      \cup {window}
     /\ UNCHANGED <<now, package, state, events, earnings, runner, crashes>>

\* The policy in effect at the activation, else the first one after it.
PoliciesFor(s, asOf) ==
  LET atActivation == {p \in policies : p.from <= ActivatedAt[s] /\ ActivatedAt[s] < p.to}
      later == {p \in policies : p.from > ActivatedAt[s] /\ p.from <= asOf}
  IN IF atActivation # {} THEN atActivation
     ELSE {p \in later : \A q \in later : p.from <= q.from}

\* The rewards of one package are asked for, outside of a batch.
Reconciling(s) == [phase |-> "DUE", asOf |-> now, todo |-> <<s>>, posted |-> -1]

\* The follow-up of an activation asks for rewards only if the package is
\* under their authority.
Activate(s) ==
  /\ package[s] = "NONE" /\ ActivatedAt[s] <= now
  /\ package' = [package EXCEPT ![s] = "ACTIVE"]
  /\ IF Authority[s] = "LEGACY_REWARD" /\ runner["REQUEST"] = Idle
       THEN runner' = [runner EXCEPT !["REQUEST"] = Reconciling(s)]
       ELSE UNCHANGED runner
  /\ UNCHANGED <<now, policies, state, events, earnings, crashes>>

\* Internal trading completes the packages under its authority.
CompleteTrading(s) ==
  /\ Authority[s] = "INTERNAL_TRADING" /\ package[s] = "ACTIVE"
  /\ Day(now) >= ActivationDay(s) + GoalDays
  /\ package' = [package EXCEPT ![s] = "COMPLETED"]
  /\ UNCHANGED <<now, policies, state, events, earnings, runner, crashes>>

-----------------------------------------------------------------------------
(* The lifecycle row *)

\* FORWARD_ONLY: the day after both the activation and the start of the policy.
FirstRewardDay(s, policy) == Day(Most(ActivatedAt[s], policy.from)) + 1

\* buildInitialState
InitialRow(s, policy) ==
  LET day == FirstRewardDay(s, policy)
      consumed == Least(Price[s], CapLimit[s])
      done == consumed >= CapLimit[s] \/ day - ActivationDay(s) > GoalDays
  IN [status |-> IF s \notin Executable THEN "BLOCKED"
                 ELSE IF done THEN "COMPLETED" ELSE "ACTIVE",
      nextDay |-> day, capConsumed |-> consumed, settled |-> 0, from |-> policy.from]

\* ensureState, one transaction.  It does not ask for the authority.
Ensured(s, asOf) ==
  IF HasRow(s) \/ package[s] # "ACTIVE" \/ PoliciesFor(s, asOf) = {}
    THEN [row |-> state[s], package |-> package[s]]
    ELSE LET row == InitialRow(s, CHOOSE p \in PoliciesFor(s, asOf) : TRUE)
         IN [row |-> row,
             package |-> IF row.status = "COMPLETED" THEN "COMPLETED" ELSE package[s]]

Ensure(s, asOf) ==
  LET result == Ensured(s, asOf)
  IN /\ state' = [state EXCEPT ![s] = result.row]
     /\ package' = [package EXCEPT ![s] = result.package]
     /\ UNCHANGED <<now, policies, events, earnings, crashes>>

-----------------------------------------------------------------------------
(* One reward *)

DayNumber(s) == state[s].nextDay - ActivationDay(s)
Headroom(s) == CapLimit[s] - state[s].capConsumed

\* Mutant of Posted: the reward is not clipped to the cap.
PostedInFull(s) == Calculated[s][DayNumber(s)]

Posted(s) == Least(Calculated[s][DayNumber(s)], Headroom(s))

Due(s, asOf) == HasRow(s) /\ state[s].status = "ACTIVE" /\ DueAt(state[s]) <= asOf

\* An event for the day the row still targets, and a package that somebody
\* else has completed, are errors: the caller gets an exception.
EventOf(s, day) == \E i \in DOMAIN events : events[i].sub = s /\ events[i].day = day
RewardRefused(s, asOf) ==
  Due(s, asOf) /\ (package[s] # "ACTIVE" \/ EventOf(s, state[s].nextDay))

Complete(s) ==
  /\ state' = [state EXCEPT ![s].status = "COMPLETED"]
  /\ package' = [package EXCEPT ![s] = "COMPLETED"]
  /\ UNCHANGED <<now, policies, events, earnings, crashes>>

\* Mutant of PostReward: the row is not moved on to the next day.
PostRewardAgain(s) ==
  LET posted == Posted(s)
  IN /\ events' = Append(events, [sub |-> s, day |-> state[s].nextDay, amount |-> posted])
     /\ earnings' = earnings + posted
     /\ state' = [state EXCEPT ![s].capConsumed = @ + posted, ![s].settled = @ + 1]
     /\ UNCHANGED <<now, policies, package, crashes>>

PostReward(s) ==
  LET posted == Posted(s)
      last == posted = Headroom(s) \/ DayNumber(s) >= GoalDays
  IN /\ events' = Append(events, [sub |-> s, day |-> state[s].nextDay, amount |-> posted])
     /\ earnings' = earnings + posted
     /\ state' = [state EXCEPT ![s].capConsumed = @ + posted,
                               ![s].settled = @ + 1,
                               ![s].nextDay = IF last THEN @ ELSE @ + 1,
                               ![s].status = IF last THEN "COMPLETED" ELSE @]
     /\ package' = IF last THEN [package EXCEPT ![s] = "COMPLETED"] ELSE package
     /\ UNCHANGED <<now, policies, crashes>>

\* processOneDueReward, one transaction; what is not due changes nothing.
ProcessOneDueReward(s, asOf) ==
  /\ ~RewardRefused(s, asOf)
  /\ IF ~Due(s, asOf) THEN UNCHANGED <<now, policies, package, state, events, earnings, crashes>>
     ELSE IF DayNumber(s) > GoalDays \/ Headroom(s) <= 0 THEN Complete(s)
     ELSE PostReward(s)

-----------------------------------------------------------------------------
(* The runners *)

\* What ORDER BY and LIMIT may return of S; rows that compare equal come in the
\* order of their identifiers, which is any.
Firsts(S, Before(_, _)) ==
  {q \in [1 .. Least(BatchLimit, Cardinality(S)) -> S] :
     \A j \in DOMAIN q : /\ q[j] \notin {q[i] : i \in 1 .. j - 1}
                         /\ \A s \in S \ {q[i] : i \in 1 .. j} : ~Before(s, q[j])}

\* Active packages without a row, the earliest activation first.
Uninitialized ==
  LET Before(s, t) == ActivatedAt[s] < ActivatedAt[t]
  IN Firsts({s \in Subs : package[s] = "ACTIVE" /\ ~HasRow(s)}, Before)

Earliest(s, t) == DueAt(state[s]) < DueAt(state[t])

\* Mutant of DueRows: rows that are blocked or completed keep their place.
DueRowsAnyStatus(asOf) == Firsts({s \in Subs : HasRow(s) /\ DueAt(state[s]) <= asOf}, Earliest)

DueRows(asOf) == Firsts({s \in Subs : Due(s, asOf)}, Earliest)

\* processDueBatch, by the worker or on an administrator's request, which
\* does not take the worker's lock.
StartBatch(r) ==
  /\ runner[r] = Idle
  /\ \E todo \in Uninitialized : runner' = [runner EXCEPT ![r] =
       [phase |-> "INITIALIZE", asOf |-> now, todo |-> todo, posted |-> 0]]
  /\ UNCHANGED <<now, policies, package, state, events, earnings, crashes>>

\* An administrator reconciles one package; its authority is not asked for.
ReconcileSubscription(s) ==
  /\ runner["REQUEST"] = Idle /\ package[s] # "NONE"
  /\ runner' = [runner EXCEPT !["REQUEST"] = Reconciling(s)]
  /\ UNCHANGED <<now, policies, package, state, events, earnings, crashes>>

InitializeNext(r) ==
  /\ runner[r].phase = "INITIALIZE" /\ runner[r].todo # <<>>
  /\ Ensure(Head(runner[r].todo), runner[r].asOf)
  /\ runner' = [runner EXCEPT ![r].todo = Tail(@)]

SelectDue(r) ==
  /\ runner[r].phase = "INITIALIZE" /\ runner[r].todo = <<>>
  /\ \E todo \in DueRows(runner[r].asOf) :
       runner' = [runner EXCEPT ![r].phase = "DUE", ![r].todo = todo, ![r].posted = -1]
  /\ UNCHANGED <<now, policies, package, state, events, earnings, crashes>>

\* processSubscriptionDue: the row is ensured (posted = -1), then rewards are
\* posted until nothing is due, the package ends or the limit is reached.
NextPackage(r) == [runner EXCEPT ![r].todo = Tail(@), ![r].posted = -1]

EnsureDue(r) ==
  LET s == Head(runner[r].todo)
      row == Ensured(s, runner[r].asOf).row
  IN /\ runner[r].phase = "DUE" /\ runner[r].todo # <<>> /\ runner[r].posted = -1
     /\ Ensure(s, runner[r].asOf)
     /\ runner' = IF row.status = "ACTIVE" /\ DueAt(row) <= runner[r].asOf
                    THEN [runner EXCEPT ![r].posted = 0]
                    ELSE NextPackage(r)

\* Whether the loop goes on is decided on the row the transaction returned.
PostNext(r) ==
  LET s == Head(runner[r].todo)
      goesOn == /\ Len(events') > Len(events) /\ runner[r].posted + 1 < CatchupLimit
                /\ state'[s].status = "ACTIVE" /\ DueAt(state'[s]) <= runner[r].asOf
  IN /\ runner[r].phase = "DUE" /\ runner[r].todo # <<>> /\ runner[r].posted >= 0
     /\ ProcessOneDueReward(s, runner[r].asOf)
     /\ runner' = IF goesOn THEN [runner EXCEPT ![r].posted = @ + 1] ELSE NextPackage(r)

\* An exception ends the whole run too: the packages after it are not served.
Over(r) == \/ runner[r].todo = <<>>
           \/ runner[r].posted >= 0 /\ RewardRefused(Head(runner[r].todo), runner[r].asOf)

FinishRun(r) ==
  /\ runner[r].phase = "DUE" /\ Over(r)
  /\ runner' = [runner EXCEPT ![r] = Idle]
  /\ UNCHANGED <<now, policies, package, state, events, earnings, crashes>>

\* The process stops between two transactions.
Crash ==
  /\ \E r \in Runners : runner[r] # Idle
  /\ crashes < MaxCrashes
  /\ crashes' = crashes + 1
  /\ runner' = [r \in Runners |-> Idle]
  /\ UNCHANGED <<now, policies, package, state, events, earnings>>

\* Time passes while the runners are at work or not at all.
Tick ==
  /\ now < MaxTime
  /\ now' = now + 1
  /\ UNCHANGED <<policies, package, state, events, earnings, runner, crashes>>

RunnerStep(r) ==
  InitializeNext(r) \/ SelectDue(r) \/ EnsureDue(r) \/ PostNext(r) \/ FinishRun(r)

RewardNext ==
  \/ \E window \in Windows : PublishPolicy(window)
  \/ \E s \in Subs : Activate(s) \/ CompleteTrading(s) \/ ReconcileSubscription(s)
  \/ \E r \in Runners : StartBatch(r) \/ RunnerStep(r)
  \/ Crash
  \/ Tick

RewardSpec == RewardInit /\ [][RewardNext]_rewardVars

\* The worker's timer fires again and again and its runs go on.
FairRewardSpec ==
  RewardSpec /\ WF_rewardVars(StartBatch("WORKER")) /\ WF_rewardVars(RunnerStep("WORKER"))

-----------------------------------------------------------------------------
(* Properties *)

Amounts == [i \in DOMAIN events |-> events[i].amount]
EventsOf(s) == {i \in DOMAIN events : events[i].sub = s}
PaidTo(s) == SumFunctionOnSet(Amounts, EventsOf(s))
LastDay(s) == IF state[s].status = "COMPLETED" THEN state[s].nextDay ELSE state[s].nextDay - 1

\* However runners overlap and stop, a package is paid for consecutive days,
\* each once and in their order, the row counts them and the wallets hold their
\* sum.
EachDayOnce ==
  /\ earnings = SumFunction(Amounts)
  /\ \A s \in Subs : HasRow(s) =>
       /\ Cardinality(EventsOf(s)) = state[s].settled
       /\ {events[i].day : i \in EventsOf(s)} = LastDay(s) - state[s].settled + 1 .. LastDay(s)
       /\ \A i, j \in EventsOf(s) : i < j => events[i].day < events[j].day

\* Rewards together with the principal never exceed the cap, no day is paid
\* that lies before the policy, before it is over, or after the goal days, and
\* the reward and the package end together.
CapAndTermAreKept ==
  \A s \in Subs : HasRow(s) =>
    /\ Price[s] + PaidTo(s) <= CapLimit[s]
    /\ state[s].capConsumed = Price[s] + PaidTo(s)
    /\ \A i \in EventsOf(s) :
         /\ events[i].day \in ActivationDay(s) + 1 .. ActivationDay(s) + GoalDays
         /\ events[i].day > Day(state[s].from) /\ events[i].day <= Day(now)
    /\ state[s].status = "COMPLETED" => package[s] = "COMPLETED"

\* A package under the reward authority gets its row, and each of its rewards
\* that is due is posted, whatever the order of the bounded batches.
Waiting(s) ==
  /\ Authority[s] = "LEGACY_REWARD" /\ package[s] = "ACTIVE"
  /\ IF HasRow(s) THEN Due(s, now) ELSE PoliciesFor(s, now) # {}
RewardsArrive == \A s \in Subs : Waiting(s) ~> ~Waiting(s)

\* What the follow-up of an activation says: a package under the authority of
\* internal trading gets no rewards.
OneEarningAuthority ==
  \A s \in Subs : Authority[s] = "INTERNAL_TRADING" => ~HasRow(s) \/ state[s].settled = 0
=============================================================================
