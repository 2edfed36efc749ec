# FixTradeZone: TLA+ models of the money paths

FixTradeZone (`src/backend`, NestJS + Prisma on MySQL) sells investment packages:
members deposit stablecoins, a deposit activates a package, the package trades and
earns, earnings and deposits form one *Total Wallet*, and members reinvest from it
or have it paid out. This directory models the parts of the backend that move
money or decide that money may move, checks them with TLC and proves the central
invariants with TLAPS.

Paths below are relative to `src/backend/src` unless they start with `src/` or
`prisma/` (which is `src/backend/prisma`). `PROJECT.json` maps every definition to
its lines.

## 1. Inventory

| Part (code) | State it keeps | Operations | Hard behaviour | What makes it correct |
|---|---|---|---|---|
| Wallet and ledger (`wallet/`) | ledger accounts and balances, transactions with unique source keys, Total Wallet events | posting of deposits, balance application, Total Wallet reads | retried postings, two spenders of a sum that is no account | debits equal credits, nothing posted twice, balances on their side of zero |
| Payout desk (`payouts/`) | `payout_requests`, policy versions | create, approve, reject, submit txid, complete, publish policy | retried requests, administrators in parallel, policy changes in flight | a payout is reserved once and either released or settled; one transfer settles one payout; quotes stay |
| Package subscriptions (`subscriptions/`) | `user_package_subscriptions` | activation from a deposit, purchase from the Total Wallet, post-activation stages | approval, accounting and activation are separate transactions | a package is paid by its own deposit, or by a wallet that had the money |
| Package completion (`internal-trading/internal-trading-package-completion.service.ts`, the worker) | status of finished subscriptions, principal account | finalize, return principal | repeated by worker and administrators | principal goes back exactly once, and in the end |
| Deposit submission and routing (`deposits/package-deposit-flow`, `deposit-package-routing`, rails and accounts of `deposits.service`) | payment sessions, deposits, rails, accounts, routes | open a page, submit, route a package, switch accounts and rails | expiring reservations, rerouting and payments that arrive outside of the system | one payer at a time for a wallet; a payment counts for its payer only |
| Deposit approval (`deposits/deposit-approval-*`, `deposit-blockchain-*`, `direct-deposit-approval`) | review status, evidence, rail and approval mode, operations mode | verify, apply policy, approve by hand or automatically, reject, reconfigure, worker runs | every step is a query of its own; RPC outages, restarts, bounded batches | only confirmed payments are approved automatically; reviews are final; paid deposits are processed |
| Referral tree (`referrals/`) | profiles, sponsor history, configuration | register, assign, reassign, configure | moves in parallel; trees rebuilt for an earlier time | one tree, now and at any earlier time; the past stays |
| Commissions (`commissions/`) | plan versions, runs with their events | run after an activation, reconcile later | runs that failed or come days later, after plans and sponsors changed | everyone credited once, on the terms of the activation |
| Versioned configuration (`packages/`, `commissions/`, `rewards/`, `award-rewards/`, `payouts/`, `internal-trading/`, `simulated-activity/`) | seven tables of versions with effective ranges | create and edit a draft, publish, close | administrators on stale pages, midnights of two time zones | at most one version in effect, as it was shown, and no rewriting of the past |
| Internal trading (`internal-trading/`) | lifecycle of each subscription, trades, settlements | initialize, reconcile, settle V1, V2 and legacy days, complete | days settled late, by worker and administrators, handed from one generator to the other | every day pays its target, once |
| Simulated activity (`simulated-activity/`) | canonical trades of the day | worker pass, recovery of the final day | crashes, bounded batches, outages, policies in another time zone | no slot written twice, none lost while nothing is in the way |
| Daily claims (`internal-trading-daily-claim`) | claims of V2 days | create with the last slot, claim | two claims of one day, claim against settlement | a day is credited once, with its own sum |
| Rewards (`rewards/`) | lifecycle rows, reward events | initialize, catch up, post, complete | worker, activation and administrators go by lists read before | a reward for each day, once, within cap and term |
| Award rewards (`award-rewards/`) | tracks, level progress, events | reconcile a member, worker batch | business that grows, moves with its sponsor or arrives between runs | each kind of package awarded once, no package counted for two awards |
| Operations and site mode (`platform-config/`) | modes, schedules, testers | update | workers read the mode once per run | - |
| Authentication, users, roles, captcha, duplicate accounts, communication, support, content, reports, web frontend, deployment | see `PROJECT.json` | | none of it moves money | not modelled |

How they interact: everything that moves money posts to the ledger inside its own
Serializable database transaction. Deposit approval, accounting and activation are
three transactions run one after the other by
`deposits/deposit-approval-orchestrator.service.ts`, and each can be run later from a
recovery endpoint. Activation calls commissions, the trading lifecycle and rewards
in further transactions whose failures are only logged. Workers on timers (deposit
approval, simulated activity, trading, rewards, awards) re-scan the database and
repeat whatever they find undone. Engines ask the versioned configuration for the
version in effect at a time, often a past one, and the referral tree for the
sponsors of a past time.

The hazards this gives rise to are in `PROJECT.json`, each at its line, with the
properties that would catch it going wrong or the reason none does. Known limits of
the code that are no race and that nothing promises otherwise are not listed there:

- A payout that fails after its transaction id was recorded has no way back
  (`payouts/payouts.service.ts:538`); its money stays reserved.
- A payment whose session no longer matches or has run out can only be submitted with a
  later session, whose checkpoint then refuses it
  (`deposits/package-deposit-flow.service.ts:508`); and a page opens a session for a
  package the user already runs, whose deposit is refused only after the payment. Such
  money needs an administrator.
- A run of awards takes the first 100 members by identifier, every time
  (`award-rewards/award-rewards.service.ts:1562`): with more of them than the limit,
  members behind them are not served, and `AwardsArrive` does not hold.
- Where the time zones of an activity policy and of a V1 package differ in their offset,
  the activation may fall into the policy's day that carries the date of the package's
  first day; the slots before it are never generated, and the day is refused as not
  contiguous at every reconciliation
  (`internal-trading/canonical-internal-trading-trade.service.ts:414`).
- A suspended default sponsor makes registration without a code fail
  (`referrals/referrals.service.ts:431`) until an administrator names another one.
- A commission plan published with an end closes an open predecessor for good
  (`commissions/commissions.service.ts:607`): after the end no plan is in effect, and
  commissions of that time wait for one. `AlwaysASuccessor` says for which tables
  this cannot happen.
- Verification switched off on a rail that approves automatically leaves its
  deposits to an administrator who turns either switch
  (`deposits/deposit-blockchain-approval-guard.service.ts:61`).
- Deposit activation checks the single-active rule but not, as reinvestment does,
  whether the user already owns the same package
  (`subscriptions/subscriptions.service.ts:460`).

## 2. Modules

| Module | Models | Extends |
|---|---|---|
| `Ledger` | wallet buckets, system accounts, source keys, the Total Wallet, earnings of the other engines | |
| `Payouts` | the payout desk | `Ledger` |
| `PayoutCustody` | abstract: what the desk promises about money | |
| `Subscriptions` | posting of deposits, activation, reinvestment, end of trading, completion | `Ledger` |
| `FundsSystem` | payouts and subscriptions interleaved over one ledger | `Payouts`, `Subscriptions` |
| `FundsAccounting` | the sums every account must add up to | `FundsSystem` |
| `DepositSubmission` | payment sessions, submission, routing | |
| `DepositApproval` | verification, approval modes, guard, worker | |
| `Referrals` | the sponsor tree and its history | |
| `Commissions` | commission runs over plans, purchases and the tree | `Referrals` |
| `PolicyVersions` | the seven versioned tables | |
| `Trading` | lifecycle rows, canonical trades, V1, V2 and legacy settlement, claims | |
| `Rewards` | daily rewards (RWD-01) | |
| `AwardRewards` | awards for team business | |
| `MC*` | small instances for TLC | the module they instantiate |
| `*Proofs` | theorems | the module they are about |
| `Totals` | lemmas about sums over finite sets, for the proofs | |

### State and code

*Ledger.* `component[u][b]` is the balance row of a member's bucket account and
`opened[u]` the set of bucket accounts that exist. `system` holds the platform's
accounts on their normal side, `posted` the source keys of ledger transactions (a
unique column: finding one posted is how the code recognises a retry), `eventDelta`
the sum of the Total-Wallet-only events. `Available` is the code's own formula: the
four buckets plus the events, read with the user row locked. `Post` fails as a
whole when a balance would leave its side of zero, as `applyBalance` does by
throwing inside the transaction.

*Payouts.* A row is named by its user and the client's request key, which is how a
retry finds it. `CreateRequest`, `Approve`, `Reject`, `SubmitExternalTxid` and
`Complete` are the endpoints, each with the ledger transaction it calls. Fees are
quoted on creation, with the rounding of `Decimal.toFixed`. `totalWalletOnly` is the
release since which the request DTO admits only `TOTAL_WALLET`: rows written before
name a bucket and still finish, and the code keeps both branches. Address, notes
and timestamps are left out.

*Subscriptions.* `deposit` is the result of review, `subscription` the rows.
A subscription is named by the deposit or by the reinvestment key that made it
(both unique in the database). `authority` is the earning engine snapshotted at
activation, `trading` the state of its lifecycle row. `ActivateFromApprovedDeposit`
takes the triggers its caller accepts: activation after accounting takes
`PAYMENT_APPROVED` plans, the administrator's endpoint also manual ones.
Configuration is whatever is published: `catalogue`, `tradingModel`, `v2Gate`.
The duration of trading and the amounts it earns are abstract here: trading ends at
some time (`CompleteTrading`) and earnings arrive at any time (`PostEarning`). The
end of a package by the reward engine (`CompleteLegacyReward`) asks, as the code does, for an
active package that the engine can execute, and not for its authority.

*DepositSubmission.* `sessions` are the rows of `deposit_payment_intents`; the unique
keys `activeUserKey` and `activeWalletKey` are those of the ACTIVE ones.
`GetPackageDepositContext` is the page with `ensurePaymentIntent`, which reserves the
wallet; `SubmitDeposit` consumes the session; `SubmitTxid` is the call that remains
for deposits created by an earlier release, which exist from the start or not at
all. An account is named by rail and wallet (`@@unique([paymentRailId,
walletAddress])`). `transfer` holds the mined transactions with their times, the only
thing outside of the system; `Verifies` is what `performVerification` makes of
checkpoint, wallet and asset.

*DepositApproval.* A `task` is an administrator's request or the worker. Its `step`
is the next query it will make: `OBSERVE` the blockchain, `PERSIST` the evidence,
read the `POLICY`, start to `APPROVE` (read the deposit), ask the `GUARD`,
`COMMIT`. What a task read before stays in its record (`result`, `seen`) and can be
stale when it is used; the commit transaction checks the status again and nothing
else. `due` says that the 45 s cadence since the last check is over. `actorActive` is
what `resolveAutomaticApprovalActor` asks: whether the administrator who set the rail to
AUTO is still an active SUPER_ADMIN. Without one nothing is approved automatically
(`AutomaticActor`); the worker asks when it takes a deposit and goes on in that name,
an administrator's verification asks when it applies the policy. Two definitions are
external. `BlockchainMoves`: a transaction is unseen, mined, confirmed or invalid, may be
dropped before it is confirmed, and is what `performVerification` reads. `ActorChanges`:
the actor loses role or account, or regains it.

*Referrals, Commissions.* `profile` is what a member's row says now, `sponsorHistory`
the append-only rows with their stamps. `ResolveSponsorAt` is the code's
reconstruction of an earlier time: the last row at or before it. `Commissions`
adds purchases with their activation times, published plans with ranges and at most
one `run` for each subscription; `ProcessSubscription` is the transaction that the
follow-up of an activation and an administrator's reconciliation share, and may
come at any time after the activation or never.

*PolicyVersions.* One family of rows for each table, parameterised by what the
services do differently: who closes whom on publication, whether a range may be
chosen, in which time zone midnight falls, and what else is compared. A `screen` is
the page an administrator has loaded, with the revision it sends back. The
actions are named for the services (`SavePayoutDraft`, `PublishCommissionPlan`,
`ClosePackagePlan`) and built from shared ones (`SaveDraft`, `PublishRange`,
`PutInEffect`), as the services share their text.

*Trading.* `canonical` are the events of simulated activity for a package, day and
slot; `trading` the lifecycle row with its trades and claims. A pass of the worker
(`generator`) goes through the list it has read, one transaction for each package,
then recovers final days slot by slot, each insert a commit of its own; it can be cut off
anywhere. `abroad` holds the days on which the policy has not the time zone of a package:
a V2 package then throws (`ZoneRefused`), which ends the whole pass, and the recovery passes
over the package, of either model (`Recoverable`). `Reconcile` settles as many
slots and days as time and canonical trades allow, in one transaction as in the
code, by the path the package's model and history call for: V1 from canonical
trades, V2 into claims, or the legacy generator for days it had begun.

*Rewards.* A `runner` is the worker or a request (an administrator's batch or package,
the follow-up of an activation), with the lists and the row it has read. `StartBatch`,
`ReconcileSubscription`, `InitializeNext`, `SelectDue`, `NextPackage`, `EnsureDue` and
`PostNext` are the transactions of the two loops of `processDueBatch`;
`ProcessOneDueReward` is the transaction that re-checks the row and posts.

*AwardRewards.* `tracks` are the rows with their level progress. `ReconcileUser` does
all of its transaction: start a track where none is active, freeze business for
levels that have reached their amount, post and close, and start the next track
from zero. `TeamLevel` goes down the tree level by level, as `recalculateProgress`
does. Where the code stamps `achievedAt` on a level, the model also keeps the packages that
were counted for it at that moment (`met`); no action reads them, they are there for
`PackagesCountOnce` to speak of. `run` is the rest of the list the worker goes by. The initial tree has no cycle,
which is what registration and `assertNoCycle` keep (`TreeStaysAcyclic` in
`ReferralsProofs`); `MoveMember` has that check as its guard.

### Abstractions, and why they are sound

- A handler that runs in one Serializable transaction is one step. Where the code
  leaves a transaction (all of deposit approval; approval to accounting to
  activation; each package, member or reward of a worker's list) the model has
  separate steps. The stamp of a transaction and its commit are one instant.
- Money is counted in whole units. Where the code rounds (fees, the user's share of
  a trade) the model rounds the same way.
- The separate expense accounts of the engines are one account.
- One rail in `DepositApproval`: evidence, modes and candidates of different rails
  meet only in the limit of the worker's batch.
- The policy of a verification and its actor are read in one step (`ApplyPolicy`), and so
  are rail, modes and actor when the worker takes a deposit (`WorkerTakes`).
- The read-then-write of `configureRailApprovalMode` is one step. Interleaved with a
  change of the verification mode it could leave AUTO with verification off; the
  same configuration is reachable in the model by switching verification off
  afterwards.
- The failed finding of a verification stands for every mismatch the code reports
  (reverted, wrong token, recipient or amount).
- One process runs each worker. A second one, while a lock has expired, does what
  administrators' tasks do, and those overlap freely in `DepositApproval` and
  `Rewards`.
- `DepositSubmission`: one network. Every plan version offers the same items and
  only their availability changes. READY_FOR_APPROVAL counts as PENDING_REVIEW, and
  the result of the review is one status, since only the release of the wallet
  matters. Deposits of the earlier release hold different wallets. Optimistic
  revisions of rails and accounts are left out: the model reads and writes in one
  step. Packages start and end at any time. Instants are finer than the seconds of
  blocks, as in the code.
- `Referrals`, `Commissions`: who may act is left out. Rates are percentages of small
  prices. Members of `Commissions` are enrolled from the start.
- `PolicyVersions`: the content of a version is one of two terms; a day has one or
  two instants, so that a local midnight and a UTC one differ.
- `Trading`: all packages belong to one user; five slots are `Slots` of them; a result
  comes from a small set (drawn) or from the plan (V2), and a drawn result is never
  by chance the planned one. Packages that the order of a batch does not tell apart are
  taken in any order. Time zones are told apart by name, which is what the code compares;
  their days begin together, so that slots that a difference of offsets moves to another
  day are not modelled (see the known limits). The tolerance of three
  units of the V2 sum and the limit of 1500 days in one reconciliation are not
  reached. A package whose middle days were not generated waits for an
  administrator; the documents say so. `PromptSpec` restricts the behaviours to those in
  which the clock waits for the workers, so that no outage explains a lost slot.
- `Rewards`: the amount of each day is given; rates, ranges and the random seed decide
  nothing else. A package that cannot be executed is constant (`Executable`).
- `AwardRewards`: each member buys each kind once; disabled policies occur as the time
  before the first policy; there are no cancellations in the code; a requirement of
  0 is a level that is not required.
- `MaxRequests`, `MaxRestarts`, `MaxTime`, `MaxPurchases`, `MaxCrashes`, `MaxMoves`,
  `MaxSessions`, `MaxDeposits`, `MaxChanges`, `MaxPolicies` and `MaxSponsorDepth` (a
  constant of the code) bound requests, time and rows. They are constants, and the
  theorems hold for every value.

## 3. Runs

| Run | Question | Result |
|---|---|---|
| `desk` | Do status, postings, quotes and transaction ids of payouts stay consistent, and does the desk implement `PayoutCustody`? | holds |
| `funds` | Do the books match the rows when everything that moves money interleaves, does nothing but an activation overdraw a Total Wallet, and is a finished package completed in the end? | holds |
| `approval` | Are only confirmed payments approved automatically, and reviews final, with stale reads, RPC failures, reconfiguration and a restart; and is a confirmed payment reviewed in the end where automation stays on? | holds |
| `deposits` | Does a wallet serve one payer at a time, does a payment verify only for its payer, and does every deposit carry the terms of the session it came from? | holds |
| `referrals` | Is there one tree without a cycle, now and as rebuilt for any earlier time, and does the past stay? | holds |
| `commissions` | Is everyone credited once, and do late runs use the terms of the activation? | holds |
| `policies` | Are ranges disjoint, versions in effect only as they were shown, the past settled, and is there always a successor where the service promises one? | holds |
| `trading` | Do wallet, trades and claims agree, does every day pay its target, does each day have one source, does no package get stuck, and is history kept? | holds |
| `rewards` | Is every day rewarded once, within cap and term, and in the end? | holds |
| `awards` | Do awards match tracks, does a package count for one track only, is an award earned when it is posted, and does it arrive? | holds |
| `authority` | Are only packages of the reward engine rewarded by it? | violated |
| `plans` | Does a V2 package follow its plan? | violated |

Type invariants (`DeskTypeOK`, `FundsTypeOK`, `ApprovalTypeOK`, `ReferralTypeOK`,
`CommissionTypeOK`, `VersionsTypeOK`, `TradingTypeOK`) and two helper invariants
(`SponsorTreeAcyclic`, `HistoryCoversProfiles`) hold in the same instances; they are
proved, or kept as the first part of a proof, and not listed again in the runs.
The same is true of `TrialBalance`, that all accounts together are balanced.

### Bounds

- `desk`: two users with two request keys each (retries, two requests of one user,
  and requests of two users competing for a transaction id), one bucket-era source
  and the Total Wallet, three policies (flat fee, a percentage that rounds half up,
  suspended) on two networks, two txids. Amounts 1 and 2 against earnings of 3 and
  2: a request may be refused for lack of money, for its fee or by a limit.
- `funds`: one user with two deposits (one self-activating that returns its
  principal, one single-active that is activated by hand), a commission, a payout and
  a reinvestment each of which is smaller than what the user may own at some time and
  larger than at others; both trading models and a gate that is switched at will.
  Users share no account but the system ones, and a conflict of one user needs one
  payout, one reinvestment and one deposit.
- `approval`: one deposit, one administrator who may approve, reject, mark and
  request verification twice, the worker, both modes of everything, an actor who may
  leave and return, one restart. Two tasks suffice for each of them to hold a stale read
  while the other acts.
  What deposits do to each other in the worker's batch is not in this instance:
  `MCRoom.cfg` and `MCBatch.cfg` have two of them (further configurations).
- `deposits`: two users, two packages of two assets whose accounts share a wallet,
  one spare account, an open deposit of the earlier release, sessions of two
  instants within three, one change of the configuration. The sharing of a wallet
  by accounts of two rails is the case that unique keys on accounts do not cover.
- `referrals`: four people of whom one may be suspended and six stamped writes:
  enough to enroll three, move two of them under each other and ask for the tree
  between the moves. Members that cannot be suspended are symmetric.
- `commissions`: a root and two members in a chain, two purchases of two packages
  with the two basis rules, a plan with matching and one with depth by package; four
  writes: purchases, a publication or a move between them, and late runs.
- `policies`: behaviours of three kinds (`Studies`): three versions with chosen
  ranges for the two tables that let one choose; two administrators, two versions
  and two revisions for each table; and the two tables that trading belongs to with
  local midnights half a day from UTC and the change to UTC between.
- `trading`: one package of two days of two slots, V1 (perhaps begun by the legacy
  generator) or V2; the first slot comes before and the second after the scheduled
  end of the final day. Results -1 and 2, a share of 60% that rounds, days off, and a
  policy that may leave the package's time zone on its last day: V2 then throws, V1 goes
  on and its recovery is refused.
- `rewards`: a package with three goal days whose third reward passes the cap, one of
  internal trading, four ranges of policies before and after; the worker
  and a request with batches of one and catch-up of two, so that every loop ends early
  and goes on; one stop of the process.
- `awards`: a chain of three members with two awarded kinds and one that is not, two
  policies with different orders, one move, runs cut off anywhere. The first member has
  business on two levels, the second on one, the third is business only.

### Fairness

- The trading worker scans completed lifecycles in every run and finalizes what it
  finds: weak fairness of `FinalizeCompletion` for every subscription. This assumes
  the operations mode AUTOMATIC, and that fewer than `batchSize` packages are
  stranded: the scan is ordered by completion time and bounded, and packages that
  fail stay in it.
- The approval worker is a timer (60 s): weak fairness of starting a run, of going
  on with a batch and of each step of a task it started. Time passes: weak fairness
  of `CadenceElapses`. The RPC provider, asked again and again, answers now and
  then: strong fairness of `ObserveDeposit`, for each deposit. Nothing is assumed
  of administrators or of the blockchain. `AutomaticForGood` is a premise of the
  property and not fairness: the modes are an administrator's choice, and so is that the
  actor of AUTO remains an active SUPER_ADMIN, without which the documents let
  automation fail closed.
- The reward worker is a timer as well: weak fairness of starting a batch and of
  its steps, none of the clock, the activation's runner or publications. Stops of the
  process are bounded.
- The award worker comes to the end of its list infinitely often, unless there is
  infinitely often no one to reconcile; runs may be cut off as often as they like
  between.
- `Trading` states no fairness: its properties are safety properties. `PromptSpec`, whose
  clock waits for the workers, is used by two further configurations only.

### Findings

The violated runs show statements of the repository that the code does not keep; each
is quoted in `PROJECT.json`.

- `authority`: the follow-up of an activation leaves packages of internal trading to
  trading, but the reward batch takes up every active package without a lifecycle
  row, and pays those, too.
- `plans`: results of a V2 package are planned only where the generator finds its
  lifecycle row. The recovery of its final day, and a lifecycle row that comes late,
  leave drawn results, which the settlement refuses.

Further configurations hold questions to which TLC answers with a counterexample, too.
They are not among the runs, and are run by hand in the same way
(`tlc -config MCGate.cfg MCFunds`):

| Configuration | Statement that fails | What happens |
|---|---|---|
| `MCOverdraw` | `TotalWalletNeverNegative` | A deposit is credited to MAIN and counts into the Total Wallet until the package activates. A user who spends it first keeps MAIN untouched, so the activation succeeds and leaves the Total Wallet negative. `OnlyActivationOverdraws` shows that nothing else can. |
| `MCStranded` | `PrincipalCanBeReturned` | The return of principal requires the MAIN account that only a deposit opens. A member who reinvests earnings without ever depositing has a package that cannot be completed. |
| `MCGate` | `GateOffBlocksActivation` | The purchase from the Total Wallet does not consult the V2 gate; the subscription waits until the gate is on again. |
| `MCDowngrade`, `MCEvidence` | `VerifiedIsMonotonic`, `NoAutomaticApprovalWithoutEvidence` | Verification reads, looks up and upserts without a condition, and the guard is a separate query from the commit. `AutomaticApprovalIsPaid` bounds the consequence. |
| `MCManual` | `ManualModeNeverBlocks` | Documentation and guard disagree about MANUAL mode. |
| `MCAgreement` | `CalendarsAgree` | Trading and simulated-activity policies are published independently and come apart. |
| `MCLateRun` | `LateRunsGiveTheSame` | A run after the buyer's or a receiver's package ended differs from the run at activation time. |
| `MCBatch` | `PaidDepositsAreProcessed` | `src/docs/DEPOSIT-BLOCKCHAIN-VERIFICATION-LOCK.md:115` promises "eventual processing" by a bounded worker. With one open deposit more than a batch (1 here, 25 in the code), old deposits that never resolve become due again before every run and take the same places each time. `MCRoom`, two deposits and a batch of two, has no counterexample (322,000 states). |
| `MCStarved` | `NoDayIsLost` | `src/docs/SIMULATED-TRADE-ACTIVITY-LOCK.md:76` says that the order of a batch starves no package. With more packages than a batch (1 here, 250 in the code), one that has no trades today because its activity starts tomorrow comes first in every batch and shuts out a package whose last slot is due; that day is never completed. With a batch of two TLC finds none lost (7085 states). |
| `MCBlocked` | `NoDayIsLost` | A V2 package in another time zone than the policy throws and ends the pass. It never gets a slot, so it comes first in every later batch: the packages behind it, and the recovery, are not reached. |

One behaviour is left outside of `PackagesCountOnce` by its premise, and is not a
contradiction to any document: levels stay achieved and business follows the team, so
that a package that has met one level of a track may meet another level of the same
track after its buyer was moved. With `required` <<1,1>>, the package of member 3 meets
level 2 of member 1, member 3 is moved under member 1, and the same package meets level
1. Without the premise TLC finds exactly this. `AwardsAreEarned` excludes it in the same
way. That no package serves two tracks needs no premise.

## 4. Proofs

All theorems hold for every value of the constants that satisfies the named
assumptions (`EarningsAssumption`, `PayoutsAssumption`, `SubscriptionsAssumption`,
`FiniteTables`, `ApprovalAssumption`, `SubmissionAssumption`, `ReferralsAssumption`,
`VersionsAssumption`, `RewardsAssumption`, `CommissionsAssumption`, `TradingAssumption`,
`AwardRewardsAssumption`:
types, non-empty amounts, a cap not below the price, a worker that is no administrator,
valid plans over a tree without a cycle, and that the tables that are summed up are
finite). TLC evaluates these in the runs. `TradingAssumption` demands of the numbers what
the services demand (a share above 0 and up to 100 percent, slots in order, a plan whose
sum is positive, five slots of the legacy generator, of which two are used) and one thing
they take for granted: principal and rate are positive, and the net amount of a day does
not round to nothing, which at eight decimals no price of the catalogue comes near.

`FundsSystemProofs`, the desk. `DeskInv` is the type invariant, `LedgerMatchesStatus`, and two
strengthenings: `QuotesAddUp` (gross is net plus fee, without which a settlement
could not be shown to move what was reserved) and `GrossOfReserved` (a row without a
reservation has amount 0, as the abstract custody has). Each posting has an effect
lemma (`ReserveEffect`, `ReleaseEffect`, `SettleEffect`) that says what it does to
`posted` and the three payout accounts; no later proof opens a balance again.
`Elsewhere` describes every step of another part by what it leaves alone, which is
what lets the same lemmas serve the desk alone and the whole system. Results:
`DeskTyped`, `DeskLedgerMatches`, `DeskOneTransfer`, `DeskQuotesFinal` and the
refinement `DeskImplementsCustody`.

`FundsSystemProofs`, the whole. `FundsInv` adds the subscription types, `DepositChainInOrder`,
`PrincipalReturnedOnce` and `TotalWalletUnusedBeforeRelease`: before the Total Wallet
release no event exists, so a bucket-era payout, which checks its bucket and not
the Total Wallet, cannot overdraw it. That last part is needed for `FundsOverdraft`
and for nothing else. Results: `FundsTyped`, `FundsLedgerMatches`,
`FundsDepositChain`, `FundsPrincipalOnce`, `FundsOverdraft`,
`FundsImplementCustody`.

`DepositProofs`, approval. `AutomaticApprovalIsPaid` is not inductive: a task decided
on evidence it read long ago. `ClaimIsPaid` follows the claim through the tasks:
persisted verified evidence, a verified result in hand, and an automatic approval
under way all imply a confirmed transaction; a confirmed transaction stays
confirmed. Results: `ApprovalTyped`, `AutomaticApprovalsArePaid`, `ReviewsAreFinal`,
for any number of deposits, administrators, requests and restarts.

`ReferralsProofs`. "No cycle" and "one tree" are stated with sets of users that are
closed under "sponsor of", so no induction on chains is needed: the walk of
`assertNoCycle` is such a set, with the new sponsor and without the member who moves
(`WalkIsClosed`). `TreeInv` joins the shape of profiles, the tree and
`HistoryCoversProfiles`: the last history row of a member is its profile. From it
follows that a step adds rows after every earlier time only (`StepExtendsHistory`),
that the past stays (`PastIsFrozen`), and that each past tree is one that was current
(`PastStaysAcyclic`). Results: `ReferralTypes`, `TreeStaysAcyclic`, `TreeStaysWhole`,
`HistoryIsComplete`, `PastIsFrozen`, `PastStaysAcyclic`, for any number of members; none
of them rests on `CommissionsAssumption`.

`ReferralsProofs`, the commissions. `CommissionInv` joins the tree now and at every
earlier time, activations that are past, ranges of plans that do not overlap, and runs
that belong to a subscription. A route is a recursive function of the level; it is shown
to exist by the first level at which it would not (`SmallestNumber`, from `Totals`), and
to visit nobody twice because each past tree has no cycle (`RouteIsStraight`): an event
per receiver, hence no payment twice, and a run that is never refused. `StepKeepsTerms`
puts together that rows of the history come after every earlier time and that a
publication closes a range after the present (`PastPlansKept`). Results:
`CommissionsTyped`, `CommissionsCreditedOnce`, `CommissionsPayEachOnce`,
`RunsAreNeverRefused`, and the action property `WaitingKeepsItsTerms`, for any finite
number of members and any plans that are valid.

`Totals`. A sum is a fold of the community modules, whose recursive function no
induction theorem can be instantiated for. `SmallestSet` takes the place of induction:
among the subsets of a finite set with a property, one is the smallest (strict
inclusion is well founded). With it the recursive function is shown to exist
(`SumExists`) and to be unique (`SumsAgree`), and everything else follows:
removing, adding and changing one summand, negation, that a sum of naturals covers
each of them, and that it grows with the set.

`FundsSystemProofs`, the accounts. `Books` says of every account which rows it sums up:
the buckets and the platform's accounts balance, reserve, settlement and fee account
match the payouts, the control account mirrors the events, the events are what each
user has spent, the principal account is what packages have not given back, and `MAIN`
covers the deposits waiting for activation. The parts need each other and `FundsInv`:
a release is booked once because its status was open, a return of principal because
the package had not ended. From it follow the properties of `FundsAccounting`, and
`FundsCovered`: settling, rejecting and returning principal are never refused.

`PolicyVersionsProofs`. `VersionsInv` joins the three properties to what relates them to
screens and time: no row has more revisions than instants have passed
(`RevisionsBounded`), a row that still has the revision a screen shows has its content
(`ScreensBehind`), and payout policies are published from the present
(`PayoutsAtOnce`). The actions come down to six kinds of steps (nothing written, a draft
added or saved, a version published with a range of its own or until a successor, the
end of a package plan moved), each with its lemma. Results: `VersionsTyped`,
`VersionsDisjoint`, `VersionsSucceeded`, `VersionsAsShown`, and the action property
`VersionsPast`.

`DepositProofs`, submission. The properties count; `SubmissionInv` compares in pairs
(`HoldersApart`: two holders differ in user and wallet) and counts sessions and deposits
per terms (`TakenOnce`). For payments it keeps when they were mined: payments are in
the past, a payment to a held wallet comes not before its holder's session, a deposit
entered without a transaction id can only get one that its owner may enter, and what
others enter was mined at the latest in the second of the checkpoint
(`PaidBeforeSession`, `OwnBeforeTxid`, `OthersEnteredMined`). Results:
`SubmissionTyped`, `SubmissionOneHolder`, `SubmissionPayers`, `SubmissionSessions`.

`RewardsProofs`. `PackageOK` is said of each package alone and does not mention the
runners, of which only `RunsTyped` is kept: a run goes by an instant that has been. What
the properties lack to be inductive is `InTerm`: the next day is after the activation
and after the start of the policy, and an active row has a day left in its term and
room in its cap. The branch of `processOneDueReward` that completes a row without a
reward is shown never to be taken. Every step keeps the rows (`KeepsRows`), makes a new
row (`EnsureKept`) or posts one reward (`RewardKept`). Results: `RewardsTyped`,
`RewardsEachDayOnce`, `RewardsWithinCapAndTerm`.

`TradingProofs`. A reconciliation is one step of any length, so most of the proof is
about the inside of it. `RowOK` is what holds of a row at any time: `DaysInOrder`,
`SourcesMatch`, `ClaimsMatch`, `SumsMatch` and, for V1, `EarnedSoFar`, which places what
was settled between the gross targets of yesterday and of today and says when it is at
either end; without it neither the snapshot's checks nor the closing slot of a day could
be shown to go through. `Going` adds what holds of a transaction in progress: which path
it is on, that history only grew, that the balances moved with the row, and that only a
V2 package with an unplanned trade is refused. `SettleKeeps` is one settlement, then
come a slot on each path, the loop over slots, a day on each path, and the loop over
days. The arithmetic is that of rounding half up: a share never shrinks when the gross
grows (`SharesGrow`), the share of the rounded quotient is the target already, so that
the eight attempts of `grossTargetForUserNet` are never needed (`QuotientIsExact`), and targets grow strictly from day to day (`TargetsGrow`). What is
committed is `Closed` as well: the next day is open or the package completed. The
invariant (`TradingInv`) joins this to canonical trades without gaps (`CanonicalOK`) and
to the balances. Results: `TradingTyped`, `EarningsAreHistory`, `DaysArePaid`,
`TradesMatchTheirSource`, `NobodyIsStuck`, and the action property
`HistoryIsNeverRewritten`, for any finite number of packages, any goal, any number of
slots and any results.

`AwardRewardsProofs`. A package can count for one track only because a track counts from
its start and the next one starts when it is closed; and for one level of it, while no team
moves, because the levels of a team have nobody in
common. The last of these is a fact about trees without cycles,
which `MoveKeepsAcyclic` and the guard of `MoveMember` keep: were somebody on two levels,
then the members on the way up would be a set whose sponsors
are all within it (`NotInOwnTeam`, `LevelsApart`). A level is a recursive function of its
depth, shown to exist and to be unique by the first depth at which it would not
(`LevelsExist`, `LevelsAgree`). The invariant (`AwardInv`) adds to types and tree what is
true of the rows. `TracksOK`: the tracks of a member differ in kind, come in the
order of the policies, only the last can be open, and what an open one has recorded as
achieved was reached by packages bought since its start, unless teams were moved
(`EarnedSoFar`). `EventsOK`:
closed tracks and events correspond, and the wallet is their sum. `MetOK`: the packages by
which levels were achieved were bought after the track started and before the next one of
the member did, and by members who still are on that level if no team has moved since;
this is what `PackagesCountOnce` lacks to be inductive. The four things a
reconciliation does, starting a track, counting, paying and
starting the next, have a lemma each (`StartKeeps`, `CountKeeps`, `PayKeeps`,
`ReconcileKeeps`). Results: `AwardsTyped`, `AwardsMatch`, `PackagesAreCountedOnce`, and the
action property `AwardsEarned`, for any finite number of members, any kinds, levels and
policies, any batch limit and any moves.

### Model-checked only

The liveness properties and the fairness they rest on: `AwardsArrive`, `RewardsArrive`,
`PaidDepositsAreProcessed`, `FinishedPackagesComplete`. `AwardsArrive`
and `PaidDepositsAreProcessed` are checked where a batch has room for all; the known limits
of section 1 and `MCBatch` say what happens otherwise.

## 5. Not modelled, and why

Nearly two thirds of the source is the web frontend (`src/admin`):
pages that show what the backend returns, and proxies. Most of what remains beside
the mapped code is the validation of requests (DTOs), listings and reports,
permissions, audit records, deliveries to outside services and tests. None of these
keeps state that the properties are about, so that the share of lines that can be
mapped faithfully stays small; what moves money, or decides that it moves, is
covered. The parts with status `not_modelled` in `PROJECT.json`:

- Authentication and sessions, users, roles, captcha, duplicate accounts: records that
  change in single transactions, independent of the money paths.
- Communication, notifications, web push, support, content, reports, dashboard: they
  read what the modelled parts write, and nothing waits for them.
- Frontend and deployment.

Inside modelled components: listings, formats, the sizes of amounts and rates, the
address book of profiles, testers, schedules and emergency recovery of site mode, and
the creation of rails are left out. Two commits within one millisecond, and a clock
that runs backwards, are excluded where rows are ordered by their stamps.

Not covered by a composition: each engine has its own wallet balance, and
`PostEarning` stands for all of them in `FundsSystem`. Each posts under a source key
of its own to a bucket of its own, which is all that `FundsSystem` uses of them.

## 6. Plan

The models are complete in the sense of section 5, and every safety property of the
passing runs is proved. What is left is out of the provers' reach: the liveness
properties stay with TLC.
