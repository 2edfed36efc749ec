------------------------------- MODULE Ledger -------------------------------
(***************************************************************************)
(* The double-entry ledger every money movement of FixTradeZone goes       *)
(* through, for the platform's single accounting currency.                 *)
(*                                                                         *)
(* A handler runs in one Serializable database transaction, so a posting   *)
(* is one step: it books its entries, applies the balance read models and  *)
(* remembers its source key, or, when a guard fails, nothing of it happens.*)
(*                                                                         *)
(* USER buckets are credit-normal accounts.  "opened" records which bucket *)
(* accounts exist: a missing account counts as zero when it is read        *)
(* (COALESCE) but cannot be posted to by handlers that require it.         *)
(* "eventDelta" is the sum of the immutable Total-Wallet-only events of a  *)
(* user: money spent from, and given back to, the Total Wallet without     *)
(* touching a bucket.                                                      *)
(***************************************************************************)
EXTENDS Integers

CONSTANTS
  Users,            \* members of the platform
  Earnings,         \* earning events other engines credit to a user's bucket
  EarningUser,      \* earning -> the user it belongs to
  EarningBucket,    \* earning -> the bucket its engine credits
  EarningAmount     \* earning -> its amount

VARIABLES
  component,        \* user -> bucket -> balance
  opened,           \* user -> buckets whose ledger account exists
  eventDelta,       \* user -> sum of Total-Wallet-only events
  system,           \* system account -> balance on its normal side
  posted            \* source keys of the posted ledger transactions

ledgerVars == <<component, opened, eventDelta, system, posted>>

Buckets == {"MAIN", "PACKAGE_EARNINGS", "REFERRAL_COMMISSION", "REWARDS"}

\* Earning engines open and credit these buckets only.
EarningBuckets == Buckets \ {"MAIN"}

\* Debit-normal: DEPOSIT_CLEARING, PAYOUT_TOTAL_WALLET_CONTROL,
\* EARNINGS_EXPENSE.  The engines' separate expense accounts are one account.
SystemAccounts ==
  {"DEPOSIT_CLEARING", "PAYOUT_TOTAL_WALLET_CONTROL", "EARNINGS_EXPENSE",
   "PACKAGE_PRINCIPAL", "PAYOUT_RESERVE", "PAYOUT_SETTLEMENT",
   "PAYOUT_FEE_REVENUE"}

ASSUME EarningsAssumption ==
  /\ EarningUser \in [Earnings -> Users]
  /\ EarningBucket \in [Earnings -> EarningBuckets]
  /\ EarningAmount \in [Earnings -> Nat \ {0}]

LedgerTypeOK ==
  /\ component \in [Users -> [Buckets -> Nat]]
  /\ opened \in [Users -> SUBSET Buckets]
  /\ eventDelta \in [Users -> Int]
  /\ system \in [SystemAccounts -> Nat]

LedgerInit ==
  /\ component = [u \in Users |-> [b \in Buckets |-> 0]]
  /\ opened = [u \in Users |-> {}]
  /\ eventDelta = [u \in Users |-> 0]
  /\ system = [a \in SystemAccounts |-> 0]
  /\ posted = {}

-----------------------------------------------------------------------------
(* The Total Wallet is not an account: it is read as the four buckets plus  *)
(* the event delta, with the user row and the bucket balances locked.       *)

SourceBalance(u) ==
  component[u]["MAIN"] + component[u]["PACKAGE_EARNINGS"]
    + component[u]["REFERRAL_COMMISSION"] + component[u]["REWARDS"]

Available(u) == SourceBalance(u) + eventDelta[u]

(* applyBalance: no account may leave its normal side.                      *)
NoNegativeBalance(components, accounts) ==
  /\ \A u \in Users, b \in Buckets : components[u][b] >= 0
  /\ \A a \in SystemAccounts : accounts[a] >= 0

(* A ledger transaction with source key "key" and the balances it leaves.   *)
Post(key, components, accounts, deltas) ==
  /\ NoNegativeBalance(components, accounts)
  /\ component' = components
  /\ system' = accounts
  /\ eventDelta' = deltas
  /\ posted' = posted \union {key}

-----------------------------------------------------------------------------
(* A commission, daily claim or reward reaches its user.  Its engine opens  *)
(* the one bucket account it credits and posts under a source key of its    *)
(* own, so processing it again finds it posted and changes nothing.         *)

PostEarning(e) ==
  LET u == EarningUser[e]
      b == EarningBucket[e]
      n == EarningAmount[e]
  IN /\ <<"EARNING", e>> \notin posted
     /\ opened' = [opened EXCEPT ![u] = @ \union {b}]
     /\ Post(<<"EARNING", e>>,
             [component EXCEPT ![u][b] = @ + n],
             [system EXCEPT !["EARNINGS_EXPENSE"] = @ + n],
             eventDelta)
=============================================================================
