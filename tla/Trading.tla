------------------------------ MODULE Trading ------------------------------
(***************************************************************************)
(* The trading life of funded packages.  The simulated-activity worker     *)
(* writes the canonical trades of the current day; reconciliation settles  *)
(* them into the package: a V1 package is credited at once, up to the      *)
(* user's net target of the day, and a V2 package collects the day into a  *)
(* claim its owner takes later.  Packages whose day was begun before the   *)
(* canonical trades existed are continued by the legacy generator.         *)
(* Amounts are in the smallest unit of money; one user owns the packages.  *)
(***************************************************************************)
EXTENDS Integers, Sequences, SequencesExt, FiniteSets, FiniteSetsExt, Functions

CONSTANTS
  Subs,           \* packages under the authority of internal trading
  ActivatedAt,    \* [Subs -> Nat], the instant each package is activated
  Models,         \* financial models the trading policies may have
  NextDayStarters,\* packages whose activity starts on the next calendar day
  Goal,           \* trading days of a package
  DayLength,      \* instants of a local day
  SlotAt,         \* instants of the day at which the slots are scheduled
  Results,        \* gross results a drawn slot may have
  Plan,           \* the results of a day of a V2 package, fixed in advance
  DailyNet,       \* [Nat -> Nat], the user's net amount of each day of a V1 package
  UserShare,      \* percent of the gross that goes to the user
  Legacy,         \* packages that, with V1, may have begun their first day in the old way
  Calendars,      \* sets of days on which the activity policy may be enabled
  Abroad,         \* what the days of each package may be that the policy has in another time zone
  BatchLimit,     \* packages the activity worker serves in one pass
  MaxTime         \* bound of the clock


VARIABLES
  now,            \* instant
  model,          \* model of the trading policy each package snapshots
  enabledDays,    \* days on which the activity policy in effect is enabled
  abroad,         \* days on which the policy's time zone is not that of the package
  canonical,      \* simulated_trade_activity_events, by package, day and slot
  trading,        \* internal_trade_subscription_states with their trades and claims
  books,          \* balances of the ledger accounts trading posts to
  generator       \* the pass of the simulated-activity worker

vars == <<now, model, enabledDays, abroad, canonical, trading, books, generator>>
outside == <<model, enabledDays, abroad>>

-----------------------------------------------------------------------------
(* Dates and amounts *)

Slots == Len(SlotAt)
Day(t) == t \div DayLength
SlotTime(d, k) == d * DayLength + SlotAt[k]
ActivationDay(s) == Day(ActivatedAt[s])
FirstDay(s) == ActivationDay(s) + 1
FinalDay(s) == ActivationDay(s) + Goal
EndsAt(s) == ActivatedAt[s] + Goal * DayLength
Days == 0 .. Max({FinalDay(s) : s \in Subs} \cup {Day(MaxTime)})

Least(a, b) == IF a <= b THEN a ELSE b
Most(a, b) == IF a >= b THEN a ELSE b

\* Division rounded half up, of a natural number.
HalfUp(a, b) == (2 * a + b) \div (2 * b)
Share(gross) == HalfUp(gross * UserShare, 100)

\* grossTargetForUserNet: from the rounded quotient, unit by unit (eight
\* attempts) to a gross whose rounded share is the target.
GrossFor(net) ==
  LET near == HalfUp(net * 100, UserShare)
      Apart(g) == IF g > near THEN g - near ELSE near - g
      exact == {g \in Most(0, near - 8) .. near + 8 : Share(g) = net}
  IN CHOOSE g \in exact : \A h \in exact : Apart(g) <= Apart(h)

NetThrough(s, d) ==
  LET sum[x \in ActivationDay(s) .. d] ==
        IF x = ActivationDay(s) THEN 0 ELSE sum[x - 1] + DailyNet[x]
  IN sum[d]
LifetimeGross(s) == GrossFor(NetThrough(s, FinalDay(s)))

NoTrades == [d \in Days |-> <<>>]
NoClaim == [status |-> "NONE", gross |-> 0, user |-> 0]
NotInitialized == [status |-> "NONE"]

\* The V1 packages' lifetime target is fixed here; a V2 package has none.
FreshRow(s) ==
  [model |-> model[s], status |-> "ACTIVE", next |-> FirstDay(s),
   progress |-> 0, high |-> 0, credited |-> 0, recognized |-> 0,
   trades |-> NoTrades, claims |-> [d \in Days |-> NoClaim]]

Initialized(s) == trading[s].status # "NONE"
Total(trades) == SumFunction([k \in DOMAIN trades |-> trades[k].result])
UserTotal(trades) == SumFunction([k \in DOMAIN trades |-> trades[k].user])

\* The slots of a day come one after the other (deterministicScheduledAt), and
\* the policy of the legacy generator has several (validatePolicyConfig).  A
\* rate is positive (validRate), and so is what the plan of a V2 day sums up to.
ASSUME TradingAssumption ==
  /\ IsFiniteSet(Subs) /\ ActivatedAt \in [Subs -> Nat] /\ Models \subseteq {"V1", "V2"}
  /\ NextDayStarters \subseteq Subs /\ Legacy \subseteq Subs
  /\ Abroad \subseteq [Subs -> SUBSET Days]
  /\ {Goal, DayLength, BatchLimit} \subseteq Nat \ {0}
  /\ MaxTime \in Nat /\ UserShare \in 1 .. 100
  /\ Results \subseteq Int \ {0} /\ \E r \in Results : r < 0
  /\ SlotAt \in Seq(0 .. DayLength - 1) /\ Slots >= 1 /\ (Legacy # {} => Slots >= 2)
  /\ \A j, k \in DOMAIN SlotAt : j < k => SlotAt[j] < SlotAt[k]
  /\ Plan \in [1 .. Slots -> Int] /\ SumFunction(Plan) > 0 /\ Share(SumFunction(Plan)) > 0
  /\ \A d \in Days : DailyNet[d] \in Nat \ {0}

-----------------------------------------------------------------------------
(* One slot.  A transaction in progress is a record: the row and the       *)
(* balances so far, whether the loop goes on, and whether it was refused,  *)
(* in which case nothing of it is committed.                               *)

Begun(s) == [row |-> trading[s], books |-> books, go |-> TRUE, refused |-> FALSE]
Refused(p) == [p EXCEPT !.refused = TRUE, !.go = FALSE]
Stopped(p) == [p EXCEPT !.go = FALSE]

\* normalizeFinancialSnapshot: what a transition demands of the row.
SnapshotIsSound(row, target) ==
  /\ target > 0
  /\ row.progress <= target
  /\ row.high \in Most(0, row.progress) .. target
  /\ row.credited + row.recognized <= target

\* Mutant of NormalProgress: a slot may carry the progress past the target.
CarriedProgress(row, target, raw) == row.progress + raw

\* A slot but the last of the day never reaches the target of the day.
NormalProgress(row, target, raw) == Least(row.progress + raw, Most(0, target - 1))

\* postSettlement: the gross amount is an expense, which the user's package
\* earnings and the platform's profit share.
PostSettlement(accounts, user, admin) ==
  [expense |-> accounts.expense + user + admin,
   earnings |-> accounts.earnings + user, profit |-> accounts.profit + admin]

\* buildTransition, the posting of its settlement and the update of the row:
\* a gain is credited at once, as far as the target leaves room for it.
Settle(p, s, d, target, progress, trade) ==
  LET row == p.row
      settled == row.credited + row.recognized
      gain == Most(0, progress - row.progress)
      total == settled + Least(gain, Most(0, target - settled))
      user == Share(total) - row.credited
      admin == (total - Share(total)) - row.recognized
      completing == d = FinalDay(s) /\ Len(row.trades[d]) + 1 = Slots /\ progress = target
  IN [p EXCEPT
        !.row = [row EXCEPT
          !.progress = progress, !.high = Most(@, progress),
          !.credited = @ + user, !.recognized = @ + admin,
          !.trades[d] = Append(@, [trade EXCEPT !.user = user]),
          !.status = IF completing THEN "COMPLETED" ELSE @],
        !.books = PostSettlement(@, user, admin)]

\* Mutant of DayTarget: today's credits are counted again.
DayTargetOnTop(row, d) == GrossFor(row.credited + DailyNet[d])

\* The gross that must be settled by the end of the day: what the user was
\* credited before the day and the net amount of the day.
DayTarget(row, d) ==
  GrossFor(row.credited - UserTotal(row.trades[d]) + DailyNet[d])

\* A canonical trade of a V1 package: the last slot of the day closes the
\* progress to the target, whatever its own result.
V1Slot(p, s, d, k, target) ==
  LET event == canonical[s][d][k]
      last == k = Slots
      trade == [result |-> event.result, user |-> 0, linked |-> TRUE]
      progress == IF last THEN target ELSE NormalProgress(p.row, target, event.result)
  IN IF SlotTime(d, k) > now THEN Stopped(p)
     ELSE IF ~SnapshotIsSound(p.row, target) \/ (last /\ p.row.progress >= target)
       THEN Refused(p)
     ELSE Settle(p, s, d, target, progress, trade)

\* A trade of the legacy generator, which draws its own result: a gain that
\* would reach the target becomes a loss, and a day that is over is not timed.
LegacySlot(p, s, d, k, target, raw) ==
  LET last == k = Slots
      loss == CHOOSE r \in Results : r < 0
      drawn == IF raw > 0 /\ p.row.progress + raw >= target THEN loss ELSE raw
      progress == IF last THEN target ELSE NormalProgress(p.row, target, drawn)
      trade == [result |-> progress - p.row.progress, user |-> 0, linked |-> FALSE]
  IN IF d >= Day(now) /\ SlotTime(d, k) > now THEN Stopped(p)
     ELSE IF ~SnapshotIsSound(p.row, target) \/ (last /\ p.row.progress >= target)
       THEN Refused(p)
     ELSE Settle(p, s, d, target, progress, trade)

\* A canonical trade of a V2 package moves no money.
V2Slot(p, s, d, k) ==
  LET event == canonical[s][d][k]
      row == p.row
      after == row.progress + event.result
      completing == d = FinalDay(s) /\ k = Slots
  IN IF SlotTime(d, k) > now THEN Stopped(p)
     ELSE [p EXCEPT !.row = [row EXCEPT
            !.progress = after, !.high = Most(@, after),
            !.trades[d] = Append(@, [result |-> event.result, user |-> 0, linked |-> TRUE]),
            !.status = IF completing THEN "COMPLETED" ELSE @]]

-----------------------------------------------------------------------------
(* One day, and the days that are due. *)

Contiguous(events) == DOMAIN events = 1 .. Cardinality(DOMAIN events)

\* The trade of a slot on the path taken: canonical V1, V2, or legacy with the
\* results drawn.
OneSlot(p, s, d, k, target, by) ==
  CASE by.path = "V1" -> V1Slot(p, s, d, k, target)
    [] by.path = "V2" -> V2Slot(p, s, d, k)
    [] by.path = "LEGACY" -> LegacySlot(p, s, d, k, target, by.raws[k])

\* The slots of day d after the settled ones, one after the other.
SlotsOf(p, s, d, upTo, target, by) ==
  LET done == Len(p.row.trades[d])
      run[k \in done .. Most(done, upTo)] ==
        IF k = done THEN p
        ELSE IF run[k - 1].go THEN OneSlot(run[k - 1], s, d, k, target, by) ELSE run[k - 1]
  IN run[Most(done, upTo)]

\* A finished day opens the next one, and the final day ends the loop.
NextDay(p, d) ==
  IF ~p.go \/ p.row.status = "COMPLETED" \/ Len(p.row.trades[d]) < Slots
    THEN Stopped(p)
    ELSE [p EXCEPT !.row.next = d + 1]

V1Day(p, s, d, by) ==
  LET events == canonical[s][d]
      row == p.row
      target == DayTarget(row, d)
  IN IF DOMAIN events = {} THEN Stopped(p)
     ELSE IF \/ ~Contiguous(events)
             \/ Len(row.trades[d]) > Cardinality(DOMAIN events)
             \/ target > LifetimeGross(s)
       THEN Refused(p)
     ELSE NextDay(SlotsOf(p, s, d, Cardinality(DOMAIN events), target, by), d)

LegacyDay(p, s, d, by) ==
  LET target == DayTarget(p.row, d)
  IN IF target > LifetimeGross(s) THEN Refused(p)
     ELSE NextDay(SlotsOf(p, s, d, Slots, target, by), d)

\* The five signed results of a finished V2 day become one claim.
Claimable(p, d) ==
  LET gross == Total(p.row.trades[d])
      claim == [status |-> "PENDING", gross |-> gross, user |-> Share(gross)]
  IN IF ~p.go \/ Len(p.row.trades[d]) < Slots THEN p
     ELSE IF gross <= 0 \/ Share(gross) <= 0 THEN Refused(p)
     ELSE [p EXCEPT !.row.claims[d] = IF @.status = "NONE" THEN claim ELSE @]

\* A V2 day has no target.
V2Day(p, s, d, by) ==
  LET events == canonical[s][d]
  IN IF DOMAIN events = {} THEN Stopped(p)
     ELSE IF \/ ~Contiguous(events)
             \/ \E k \in DOMAIN events : ~events[k].planned
             \/ Len(p.row.trades[d]) > Cardinality(DOMAIN events)
       THEN Refused(p)
     ELSE NextDay(Claimable(SlotsOf(p, s, d, Cardinality(DOMAIN events), 0, by), d), d)

OneDay(p, s, d, by) ==
  CASE by.path = "V1" -> V1Day(p, s, d, by)
    [] by.path = "V2" -> V2Day(p, s, d, by)
    [] by.path = "LEGACY" -> LegacyDay(p, s, d, by)

\* From the next trading day through today or the final day.
DaysDue(s, by) ==
  LET from == trading[s].next
      through == Least(Day(now), FinalDay(s))
      run[d \in from - 1 .. Most(from - 1, through)] ==
        IF d < from THEN Begun(s)
        ELSE IF run[d - 1].go THEN OneDay(run[d - 1], s, d, by) ELSE run[d - 1]
  IN run[Most(from - 1, through)]

\* Mutant of BegunWithoutSource: the days begun in the old way are forgotten.
NeverBegunWithoutSource(s) == FALSE

\* requiresLegacyContinuation: the next day was begun without canonical trades.
BegunWithoutSource(s) ==
  LET trades == trading[s].trades[trading[s].next]
  IN trades # <<>> /\ \A k \in DOMAIN trades : ~trades[k].linked
BegunBothWays(s) ==
  LET trades == trading[s].trades[trading[s].next]
  IN (\E k \in DOMAIN trades : trades[k].linked) /\ (\E k \in DOMAIN trades : ~trades[k].linked)

-----------------------------------------------------------------------------
(* Actions on packages *)

\* Mutant of InitializeLifecycle: a retry resets the row.
InitializeAgain(s) ==
  /\ ActivatedAt[s] <= now
  /\ trading' = [trading EXCEPT ![s] = FreshRow(s)]
  /\ UNCHANGED <<now, canonical, books, generator, outside>>

\* initializeActivatedSubscription, which follows the activation in a
\* transaction of its own and does nothing when the row exists.
InitializeLifecycle(s) ==
  /\ ActivatedAt[s] <= now /\ ~Initialized(s)
  /\ trading' = [trading EXCEPT ![s] = FreshRow(s)]
  /\ UNCHANGED <<now, canonical, books, generator, outside>>

\* What a reconciliation that is not refused commits.
Commit(s, p) ==
  /\ ~p.refused /\ p.row # trading[s]
  /\ trading' = [trading EXCEPT ![s] = p.row]
  /\ books' = p.books
  /\ UNCHANGED <<now, canonical, generator, outside>>

V2Outcome(s) == DaysDue(s, [path |-> "V2"])
V1Outcome(s) == DaysDue(s, [path |-> "V1"])
LegacyOutcome(s, raws) == DaysDue(s, [path |-> "LEGACY", raws |-> raws])

\* reconcileSubscription, by the trading worker or an administrator.
ReconcileV2(s) ==
  /\ Initialized(s) /\ trading[s].status = "ACTIVE" /\ trading[s].model = "V2"
  /\ Commit(s, V2Outcome(s))

ReconcileCanonical(s) ==
  /\ Initialized(s) /\ trading[s].status = "ACTIVE" /\ trading[s].model = "V1"
  /\ ~BegunWithoutSource(s) /\ ~BegunBothWays(s)
  /\ Commit(s, V1Outcome(s))

\* The legacy loop goes on past the day it was called for.
ReconcileLegacy(s) ==
  /\ Initialized(s) /\ trading[s].status = "ACTIVE" /\ trading[s].model = "V1"
  /\ BegunWithoutSource(s)
  /\ \E raws \in [1 .. Slots -> Results] : Commit(s, LegacyOutcome(s, raws))

Reconcile(s) == ReconcileV2(s) \/ ReconcileCanonical(s) \/ ReconcileLegacy(s)

\* Mutant of Claim: the status of the claim is not looked at.
ClaimAgain(s, d) ==
  LET claim == trading[s].claims[d]
      admin == claim.gross - claim.user
  IN /\ Initialized(s) /\ claim.status # "NONE"
     /\ trading' = [trading EXCEPT ![s].claims[d].status = "CLAIMED",
                                   ![s].credited = @ + claim.user,
                                   ![s].recognized = @ + admin]
     /\ books' = PostSettlement(books, claim.user, admin)
     /\ UNCHANGED <<now, canonical, generator, outside>>

\* The owner takes a finished day.  A claim already taken posts nothing.
Claim(s, d) ==
  LET row == trading[s]
      claim == row.claims[d]
      admin == claim.gross - claim.user
  IN /\ Initialized(s) /\ row.model = "V2" /\ claim.status = "PENDING"
     /\ claim.gross > 0 /\ claim.user > 0 /\ admin >= 0
     /\ Len(row.trades[d]) = Slots /\ Total(row.trades[d]) = claim.gross
     /\ trading' = [trading EXCEPT ![s].claims[d].status = "CLAIMED",
                                   ![s].credited = @ + claim.user,
                                   ![s].recognized = @ + admin]
     /\ books' = PostSettlement(books, claim.user, admin)
     /\ UNCHANGED <<now, canonical, generator, outside>>

-----------------------------------------------------------------------------
(* The canonical trades *)

ActivityStart(s) ==
  IF s \in NextDayStarters THEN FirstDay(s) * DayLength ELSE ActivatedAt[s]

IsV2(s) == Initialized(s) /\ trading[s].model = "V2"
Unfinished(s) == Initialized(s) => trading[s].status = "ACTIVE"

\* The subscriptions a pass may serve, and those it really has slots for.
Listed(s, asOf) ==
  /\ Unfinished(s) /\ ActivatedAt[s] <= asOf
  /\ asOf < EndsAt(s) \/ (IsV2(s) /\ Day(asOf) <= FinalDay(s))
Eligible(s, asOf) == Listed(s, asOf) /\ ActivityStart(s) <= asOf

\* Slots of the day of asOf that are due and not yet written.
DueSlots(s, asOf) ==
  {k \in DOMAIN SlotAt :
     /\ SlotTime(Day(asOf), k) \in ActivityStart(s) .. asOf
     /\ k \notin DOMAIN canonical[s][Day(asOf)]}

\* The results V2 packages get are planned; the others are drawn, and so are
\* those of a V2 package whose lifecycle is not initialized yet.
Planned(ks) == [k \in ks |-> [result |-> Plan[k], planned |-> TRUE]]
Drawn(ks) == {[k \in ks |-> [result |-> raw[k], planned |-> FALSE]] : raw \in [ks -> Results]}

\* simulated_trade_activity_events: ON DUPLICATE KEY keeps what is there.
Write(s, d, events) ==
  canonical' = [canonical EXCEPT ![s][d] =
    [k \in DOMAIN @ \cup DOMAIN events |-> IF k \in DOMAIN @ THEN @[k] ELSE events[k]]]

\* A V2 package takes slots in its own time zone only, a V1 package in any.
ZoneRefused(s, asOf) == Eligible(s, asOf) /\ IsV2(s) /\ Day(asOf) \in abroad[s]

\* processSubscription: every due slot of one day in one transaction.
ProcessSubscription(s, asOf) ==
  IF ~Eligible(s, asOf) THEN UNCHANGED canonical
  ELSE IF IsV2(s) THEN Write(s, Day(asOf), Planned(DueSlots(s, asOf)))
  ELSE \E drawn \in Drawn(DueSlots(s, asOf)) : Write(s, Day(asOf), drawn)

\* The order of a pass: fewest slots of the day, then the earliest of the
\* latest slots, then activation.
LatestSlot(s, d) ==
  IF DOMAIN canonical[s][d] = {} THEN -1 ELSE SlotTime(d, Max(DOMAIN canonical[s][d]))
Rank(s, d) == <<Cardinality(DOMAIN canonical[s][d]), LatestSlot(s, d), ActivatedAt[s]>>
Precedes(a, b) ==
  \E i \in 1 .. 3 : a[i] < b[i] /\ \A j \in 1 .. i - 1 : a[j] = b[j]

\* The beginnings of what ORDER BY may return; ties are in any order.
FirstOf(S, limit, Before(_, _)) ==
  {SubSeq(q, 1, Least(limit, Cardinality(S))) :
     q \in {x \in SetToSeqs(S) : \A i, j \in DOMAIN x : i < j => ~Before(x[j], x[i])}}

Batch(asOf) ==
  LET Before(s, t) == Precedes(Rank(s, Day(asOf)), Rank(t, Day(asOf)))
  IN IF Day(asOf) \notin enabledDays THEN {<<>>}
     ELSE FirstOf({s \in Subs : Listed(s, asOf)}, BatchLimit, Before)

\* Packages in their final day whose scheduled end is past.
RecoveryBatch(asOf) ==
  LET Before(s, t) == EndsAt(s) < EndsAt(t)
  IN FirstOf({s \in Subs : /\ Initialized(s) /\ trading[s].status = "ACTIVE"
                           /\ trading[s].next = FinalDay(s) /\ EndsAt(s) <= asOf},
             BatchLimit, Before)

Idle == [phase |-> "IDLE", asOf |-> 0, todo |-> <<>>]

\* One pass: the batch of the current day, then the recovery of final days,
\* each as of the instant it begins.
StartPass ==
  /\ generator.phase = "IDLE"
  /\ \E todo \in Batch(now) : generator' = [phase |-> "BATCH", asOf |-> now, todo |-> todo]
  /\ UNCHANGED <<now, canonical, trading, books, outside>>

\* A package that is refused ends the pass: the packages after it in the batch
\* and the recovery are not reached.
ProcessNext ==
  LET s == Head(generator.todo)
  IN /\ generator.phase = "BATCH" /\ generator.todo # <<>>
     /\ \/ /\ ZoneRefused(s, generator.asOf)
           /\ generator' = Idle
           /\ UNCHANGED canonical
        \/ /\ ~ZoneRefused(s, generator.asOf)
           /\ ProcessSubscription(s, generator.asOf)
           /\ generator' = [generator EXCEPT !.todo = Tail(@)]
     /\ UNCHANGED <<now, trading, books, outside>>

StartRecovery ==
  /\ generator.phase = "BATCH" /\ generator.todo = <<>>
  /\ \E todo \in RecoveryBatch(now) :
       generator' = [phase |-> "RECOVERY", asOf |-> now, todo |-> todo]
  /\ UNCHANGED <<now, canonical, trading, books, outside>>

\* recoverSubscription: the missing slots of the final day, always drawn, one
\* after the other, each committed on its own.  A package that is refused is
\* passed over.
MissingSlots(s, asOf) ==
  {k \in DOMAIN SlotAt : SlotTime(FinalDay(s), k) <= asOf} \ DOMAIN canonical[s][FinalDay(s)]
Recoverable(s) ==
  /\ Contiguous(canonical[s][FinalDay(s)])
  /\ FinalDay(s) \in enabledDays /\ FinalDay(s) \notin abroad[s]
ToRecover(s, asOf) == IF Recoverable(s) THEN MissingSlots(s, asOf) ELSE {}

RecoverSlot(s, k) ==
  /\ \E drawn \in Drawn({k}) : Write(s, FinalDay(s), drawn)
  /\ UNCHANGED generator

RecoverNext ==
  LET s == Head(generator.todo)
      missing == ToRecover(s, generator.asOf)
  IN /\ generator.phase = "RECOVERY" /\ generator.todo # <<>>
     /\ \/ \E k \in missing : (\A j \in missing : k <= j) /\ RecoverSlot(s, k)
        \/ /\ missing = {}
           /\ generator' = [generator EXCEPT !.todo = Tail(@)]
           /\ UNCHANGED canonical
     /\ UNCHANGED <<now, trading, books, outside>>

FinishPass ==
  /\ generator.phase = "RECOVERY" /\ generator.todo = <<>>
  /\ generator' = Idle
  /\ UNCHANGED <<now, canonical, trading, books, outside>>

\* The process stops in the middle of a pass; its lock expires.
CrashPass ==
  /\ generator.phase # "IDLE"
  /\ generator' = Idle
  /\ UNCHANGED <<now, canonical, trading, books, outside>>

\* An administrator reconciles the activity of one subscription.
AdminActivity(s) ==
  /\ Day(now) \in enabledDays /\ ~ZoneRefused(s, now)
  /\ ProcessSubscription(s, now) /\ canonical' # canonical
  /\ UNCHANGED <<now, trading, books, generator, outside>>

Tick ==
  /\ now < MaxTime
  /\ now' = now + 1
  /\ UNCHANGED <<canonical, trading, books, generator, outside>>

\* A package the legacy generator left in its first day.
LegacyRows(s) ==
  LET fresh == [row |-> FreshRow(s), go |-> TRUE, refused |-> FALSE,
                books |-> [expense |-> 0, earnings |-> 0, profit |-> 0]]
      target == DayTarget(FreshRow(s), FirstDay(s))
      begun(raw) ==
        Settle(fresh, s, FirstDay(s), target, NormalProgress(fresh.row, target, raw),
               [result |-> NormalProgress(fresh.row, target, raw), user |-> 0, linked |-> FALSE])
  IN {begun(raw) : raw \in {r \in Results : r < target}}

NotBegun == [row |-> NotInitialized, books |-> [expense |-> 0, earnings |-> 0, profit |-> 0]]

Init ==
  /\ model \in [Subs -> Models]
  /\ enabledDays \in Calendars
  /\ abroad \in Abroad
  /\ canonical = [s \in Subs |-> [d \in Days |-> << >>]]
  /\ generator = Idle
  /\ \/ /\ now = 0
        /\ trading = [s \in Subs |-> NotInitialized]
        /\ books = NotBegun.books
     \/ \E s \in {x \in Legacy : model[x] = "V1"} : \E p \in LegacyRows(s) :
          /\ now = SlotTime(FirstDay(s), 1)
          /\ trading = [x \in Subs |-> IF x = s THEN p.row ELSE NotInitialized]
          /\ books = p.books

Working ==
  \/ \E s \in Subs : \/ InitializeLifecycle(s) \/ Reconcile(s) \/ AdminActivity(s)
                     \/ \E d \in Days : Claim(s, d)
  \/ StartPass \/ ProcessNext \/ StartRecovery \/ RecoverNext \/ FinishPass

Next == Working \/ CrashPass \/ Tick

TradingSpec == Init /\ [][Next]_vars

-----------------------------------------------------------------------------
(* The same with no outage: the clock moves on only when every package     *)
(* activated has its lifecycle, a pass would write nothing more and        *)
(* reconciliation would commit nothing more.                               *)

Settled(s) ==
  Initialized(s) /\ trading[s].status = "ACTIVE" =>
    LET anyRaws == [k \in 1 .. Slots |-> CHOOSE r \in Results : TRUE]
        p == IF trading[s].model = "V2" THEN V2Outcome(s)
             ELSE IF BegunWithoutSource(s) THEN LegacyOutcome(s, anyRaws)
             ELSE V1Outcome(s)
    IN p.refused \/ p.row = trading[s]

PassWritesNothing ==
  \E first \in Batch(now), second \in RecoveryBatch(now) :
    LET Reached(i) == \A j \in 1 .. i : ~ZoneRefused(first[j], now)
    IN /\ \A i \in DOMAIN first :
            Reached(i) /\ Eligible(first[i], now) => DueSlots(first[i], now) = {}
       /\ Reached(Len(first)) => \A s \in Range(second) : ToRecover(s, now) = {}

NothingToDo ==
  /\ generator = Idle
  /\ \A s \in Subs : ActivatedAt[s] <= now => Initialized(s) /\ Settled(s)
  /\ PassWritesNothing

PromptSpec == Init /\ [][Working \/ (NothingToDo /\ Tick)]_vars

-----------------------------------------------------------------------------
(* Properties *)

\* The rows, claims and balances stay in their types, the generator serves
\* packages, and no amount posted is negative.
TradingTypeOK ==
  /\ now \in Nat /\ Day(now) \in Days /\ enabledDays \in Calendars /\ abroad \in Abroad
  /\ \A s \in Subs, d \in Days :
       \A k \in DOMAIN canonical[s][d] :
         k \in 1 .. Slots /\ canonical[s][d][k] \in [result : Int, planned : BOOLEAN]
  /\ \A s \in Subs : Initialized(s) =>
       /\ trading[s].status \in {"ACTIVE", "COMPLETED"}
       /\ trading[s].next \in FirstDay(s) .. FinalDay(s)
       /\ trading[s].credited \in Nat /\ trading[s].recognized \in Nat
  /\ books \in [expense : Nat, earnings : Nat, profit : Nat]
  /\ generator.phase \in {"IDLE", "BATCH", "RECOVERY"} /\ Range(generator.todo) \subseteq Subs

CreditedByTrades(row) == SumFunction([d \in Days |-> UserTotal(row.trades[d])])
ClaimedOf(row) ==
  SumFunction([d \in Days |-> IF row.claims[d].status = "CLAIMED" THEN row.claims[d].user ELSE 0])
CreditedTo == [s \in Subs |-> IF Initialized(s) THEN trading[s].credited ELSE 0]

\* A V2 day has a claim exactly when all its slots are settled, the claim is
\* the sum of their signed results, and a settled day is never empty-handed.
ClaimsMatchDays ==
  \A s \in Subs : IsV2(s) => \A d \in Days :
    LET claim == trading[s].claims[d]
        trades == trading[s].trades[d]
    IN /\ claim.status # "NONE" <=> Len(trades) = Slots
       /\ claim.status # "NONE" =>
            claim.gross = Total(trades) /\ claim.user \in 1 .. claim.gross

\* However slots, crashes, retries and claims interleave, the earnings of the
\* wallet are the credits of the settled V1 trades and of the claims taken,
\* each once, every package knows its part of them, and claims match their days.
EarningsMatchHistory ==
  /\ books.earnings = SumFunction(CreditedTo)
  /\ \A s \in Subs : Initialized(s) =>
       trading[s].credited = CreditedByTrades(trading[s]) + ClaimedOf(trading[s])
  /\ books.expense = books.earnings + books.profit
  /\ ClaimsMatchDays

\* A V1 day that is over has paid the user the net amounts of the days so far
\* to the unit, whatever the results were and whoever settled it, and the day
\* under way has not paid more than that.
DaysPayTheirTarget ==
  \A s \in Subs : Initialized(s) /\ trading[s].model = "V1" =>
    LET row == trading[s]
        over == IF row.status = "COMPLETED" THEN FinalDay(s) ELSE row.next - 1
    IN /\ row.credited >= NetThrough(s, over)
       /\ row.credited <= NetThrough(s, IF row.trades[row.next] = <<>> THEN over
                                          ELSE Least(over + 1, FinalDay(s)))
       /\ row.status = "COMPLETED" => row.credited + row.recognized = LifetimeGross(s)

\* No day mixes trades of the two generators, days are settled in order and
\* without gaps, and a linked trade stands for the canonical trade of its slot.
TradesHaveTheirSource ==
  \A s \in Subs : Initialized(s) => \A d \in Days :
    LET trades == trading[s].trades[d]
    IN /\ trades # <<>> => d \in FirstDay(s) .. trading[s].next
       /\ d \in FirstDay(s) .. trading[s].next - 1 => Len(trades) = Slots
       /\ \A j, k \in DOMAIN trades : trades[j].linked = trades[k].linked
       /\ \A k \in DOMAIN trades : trades[k].linked =>
            k \in DOMAIN canonical[s][d] /\ trades[k].result = canonical[s][d][k].result

\* History is only added to: a canonical trade, a settled trade and a claim
\* are never rewritten, a claim taken stays taken, a package stays completed.
HistoryIsKept ==
  [][\A s \in Subs, d \in Days :
       /\ \A k \in DOMAIN canonical[s][d] :
            k \in DOMAIN canonical'[s][d] /\ canonical'[s][d][k] = canonical[s][d][k]
       /\ Initialized(s) =>
            /\ IsPrefix(trading[s].trades[d], trading'[s].trades[d])
            /\ LET claim == trading[s].claims[d] IN
                 claim.status # "NONE" =>
                   /\ trading'[s].claims[d].gross = claim.gross
                   /\ trading'[s].claims[d].user = claim.user
                   /\ claim.status = "CLAIMED" => trading'[s].claims[d].status = "CLAIMED"
            /\ trading[s].status = "COMPLETED" => trading'[s].status = "COMPLETED"]_vars

\* Whatever results were drawn, the checks of the financial snapshot never
\* refuse a V1 package, and a V2 package is refused only for a canonical
\* trade that is not the planned one: no package is stuck by its own past.
NeverStuck ==
  \A s \in Subs : Initialized(s) /\ trading[s].status = "ACTIVE" =>
    IF trading[s].model = "V1"
      THEN /\ ~BegunBothWays(s)
           /\ IF BegunWithoutSource(s)
                THEN \A raws \in [1 .. Slots -> Results] : ~LegacyOutcome(s, raws).refused
                ELSE ~V1Outcome(s).refused
      ELSE V2Outcome(s).refused =>
             \E d \in FirstDay(s) .. FinalDay(s) : \E k \in DOMAIN canonical[s][d] :
               ~canonical[s][d][k].planned

\* What the documents say of V2: the canonical trades of its days are those
\* of the plan, whose results sum to the rate of the day.
PlansAreFollowed ==
  \A s \in Subs : IsV2(s) => \A d \in FirstDay(s) .. FinalDay(s) :
    \A k \in DOMAIN canonical[s][d] : canonical[s][d][k].planned

\* What the documents say of the bounded batches, and the comment of the code
\* that orders them: nobody is starved by a first batch that is always the
\* same.  A day left without its slots is never written again, and its package
\* does not get past it.
NoDayIsLost ==
  \A s \in Subs : Initialized(s) /\ abroad[s] = {} =>
    \A d \in FirstDay(s) .. Least(Day(now) - 1, FinalDay(s)) :
      \/ DOMAIN canonical[s][d] = 1 .. Slots
      \/ Len(trading[s].trades[d]) = Slots
=============================================================================
