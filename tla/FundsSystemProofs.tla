------------------------- MODULE FundsSystemProofs --------------------------
(***************************************************************************)
(* Proofs about the payout desk and the funds system, for every set of     *)
(* users, deposits, plans, keys, amounts, policies and transaction ids.    *)
(*                                                                         *)
(* The facts about one step of the desk are split in two: what a step of   *)
(* the desk does (PayoutNext) and what any other engine may do to the      *)
(* ledger meanwhile (Elsewhere).  Both the desk alone and the whole funds  *)
(* system are made of these two kinds of steps: a step of the              *)
(* subscriptions is a step "Elsewhere" for the desk, and the other way     *)
(* round a step of the desk posts no key of a subscription.                *)
(*                                                                         *)
(* The last part is about the books: what every account adds up to.        *)
(***************************************************************************)
EXTENDS FundsAccounting, Totals

-----------------------------------------------------------------------------
(* The payout desk.                                                         *)

\* A quoted net amount and fee add up to the amount that was reserved.
QuotesAddUp ==
  \A p \in Payouts : payout[p].status # "NONE" =>
    payout[p].gross = payout[p].net + payout[p].fee

\* An amount is on the row exactly from the reservation on.
GrossOfReserved ==
  \A p \in Payouts : payout[p].status = "NONE" => payout[p].gross = 0

DeskInv == DeskTypeOK /\ LedgerMatchesStatus /\ QuotesAddUp /\ GrossOfReserved

\* A step of another engine: the desk's rows stay, no key of a payout is
\* posted, and the accounts of the desk keep their balances.
Elsewhere ==
  /\ UNCHANGED payoutVars
  /\ \A p \in Payouts : /\ Reserved(p)' <=> Reserved(p)
                        /\ Released(p)' <=> Released(p)
                        /\ Settled(p)' <=> Settled(p)
  /\ system'["PAYOUT_RESERVE"] = system["PAYOUT_RESERVE"]
  /\ system'["PAYOUT_SETTLEMENT"] = system["PAYOUT_SETTLEMENT"]
  /\ system'["PAYOUT_FEE_REVENUE"] = system["PAYOUT_FEE_REVENUE"]

-----------------------------------------------------------------------------
(* Lemmas about the operators.                                              *)

\* A fee computed from a policy is a natural number.
LEMMA FeeIsNat ==
  ASSUME NEW policy \in PolicyRows, NEW gross \in Nat
  PROVE  FeeOf(policy, gross) \in Nat
<1>1. policy.fixedFee \in Nat /\ policy.percentageFee \in Nat
  BY DEF PolicyRows
<1>2. gross * policy.percentageFee \in Nat
  BY <1>1
<1>3. (gross * policy.percentageFee + 50) \div 100 \in Nat
  BY <1>2
<1> QED BY <1>1, <1>3 DEF FeeOf

\* A posting keeps the ledger typed when the balances it proposes are
\* integers: the guard on negative balances does the rest.
LEMMA PostKeepsType ==
  ASSUME NEW key, NEW components, NEW accounts, NEW deltas,
         components \in [Users -> [Buckets -> Int]],
         accounts \in [SystemAccounts -> Int],
         deltas \in [Users -> Int],
         opened' \in [Users -> SUBSET Buckets],
         Post(key, components, accounts, deltas)
  PROVE  LedgerTypeOK'
<1>1. components \in [Users -> [Buckets -> Nat]]
  <2>1. \A u \in Users : components[u] \in [Buckets -> Nat]
    BY DEF Post, NoNegativeBalance
  <2> QED BY <2>1
<1>2. accounts \in [SystemAccounts -> Nat]
  BY DEF Post, NoNegativeBalance
<1> QED BY <1>1, <1>2 DEF Post, LedgerTypeOK

\* What the reservation of a payout does to the ledger.
LEMMA ReserveEffect ==
  ASSUME LedgerTypeOK, NEW p \in Payouts, NEW source \in Sources,
         NEW gross \in Nat, ~ Reserved(p), Reserve(p, source, gross)
  PROVE  /\ LedgerTypeOK'
         /\ posted' = posted \union {<<"PAYOUT_RESERVE", p>>}
         /\ system'["PAYOUT_RESERVE"] = system["PAYOUT_RESERVE"] + gross
         /\ system'["PAYOUT_SETTLEMENT"] = system["PAYOUT_SETTLEMENT"]
         /\ system'["PAYOUT_FEE_REVENUE"] = system["PAYOUT_FEE_REVENUE"]
<1> DEFINE u == Owner(p)
<1>0. u \in Users
  BY DEF Owner, Payouts
<1>1. CASE source = "TOTAL_WALLET"
  <2> DEFINE accounts ==
        [system EXCEPT !["PAYOUT_TOTAL_WALLET_CONTROL"] = @ + gross,
                       !["PAYOUT_RESERVE"] = @ + gross]
             deltas == [eventDelta EXCEPT ![u] = @ - gross]
  <2>1. Post(<<"PAYOUT_RESERVE", p>>, component, accounts, deltas) /\ UNCHANGED opened
    BY <1>1 DEF Reserve, Once, Reserved
  <2>2. accounts \in [SystemAccounts -> Int] /\ deltas \in [Users -> Int]
    BY <1>0 DEF LedgerTypeOK, SystemAccounts
  <2>3. component \in [Users -> [Buckets -> Int]]
    BY DEF LedgerTypeOK
  <2>4. LedgerTypeOK'
    <3> HIDE DEF accounts, deltas
    <3> QED BY <2>1, <2>2, <2>3, PostKeepsType DEF LedgerTypeOK
  <2> QED BY <2>1, <2>4 DEF Post, LedgerTypeOK, SystemAccounts
<1>2. CASE source # "TOTAL_WALLET"
  <2> DEFINE components == [component EXCEPT ![u][source] = @ - gross]
             accounts == [system EXCEPT !["PAYOUT_RESERVE"] = @ + gross]
  <2>1. /\ Post(<<"PAYOUT_RESERVE", p>>, components, accounts, eventDelta)
        /\ UNCHANGED opened
    BY <1>2 DEF Reserve, Once, Reserved
  <2>2. accounts \in [SystemAccounts -> Int] /\ components \in [Users -> [Buckets -> Int]]
    BY <1>0, <1>2 DEF LedgerTypeOK, SystemAccounts, Sources
  <2>4. LedgerTypeOK'
    <3> HIDE DEF accounts, components
    <3> QED BY <2>1, <2>2, PostKeepsType DEF LedgerTypeOK
  <2> QED BY <2>1, <2>4 DEF Post, LedgerTypeOK, SystemAccounts
<1> QED BY <1>1, <1>2

\* What giving a payout back does to the ledger.
LEMMA ReleaseEffect ==
  ASSUME LedgerTypeOK, PayoutTypeOK, NEW p \in Payouts,
         ~ Released(p), Release(p)
  PROVE  /\ LedgerTypeOK'
         /\ posted' = posted \union {<<"PAYOUT_RELEASE", p>>}
         /\ system'["PAYOUT_RESERVE"] = system["PAYOUT_RESERVE"] - payout[p].gross
         /\ system'["PAYOUT_SETTLEMENT"] = system["PAYOUT_SETTLEMENT"]
         /\ system'["PAYOUT_FEE_REVENUE"] = system["PAYOUT_FEE_REVENUE"]
<1> DEFINE u == Owner(p)
           source == payout[p].source
           gross == payout[p].gross
<1>0. u \in Users /\ source \in Sources /\ gross \in Nat
  BY DEF Owner, Payouts, PayoutTypeOK, PayoutRows
<1>1. CASE source = "TOTAL_WALLET"
  <2> DEFINE accounts ==
        [system EXCEPT !["PAYOUT_TOTAL_WALLET_CONTROL"] = @ - gross,
                       !["PAYOUT_RESERVE"] = @ - gross]
             deltas == [eventDelta EXCEPT ![u] = @ + gross]
  <2>1. Post(<<"PAYOUT_RELEASE", p>>, component, accounts, deltas) /\ UNCHANGED opened
    BY <1>1 DEF Release, Once, Released
  <2>2. accounts \in [SystemAccounts -> Int] /\ deltas \in [Users -> Int]
    BY <1>0 DEF LedgerTypeOK, SystemAccounts
  <2>3. component \in [Users -> [Buckets -> Int]]
    BY DEF LedgerTypeOK
  <2>4. LedgerTypeOK'
    <3> HIDE DEF accounts, deltas
    <3> QED BY <2>1, <2>2, <2>3, PostKeepsType DEF LedgerTypeOK
  <2> QED BY <2>1, <2>4 DEF Post, LedgerTypeOK, SystemAccounts
<1>2. CASE source # "TOTAL_WALLET"
  <2> DEFINE components == [component EXCEPT ![u][source] = @ + gross]
             accounts == [system EXCEPT !["PAYOUT_RESERVE"] = @ - gross]
  <2>1. /\ Post(<<"PAYOUT_RELEASE", p>>, components, accounts, eventDelta)
        /\ UNCHANGED opened
    BY <1>2 DEF Release, Once, Released
  <2>2. accounts \in [SystemAccounts -> Int] /\ components \in [Users -> [Buckets -> Int]]
    BY <1>0, <1>2 DEF LedgerTypeOK, SystemAccounts, Sources
  <2>4. LedgerTypeOK'
    <3> HIDE DEF accounts, components
    <3> QED BY <2>1, <2>2, PostKeepsType DEF LedgerTypeOK
  <2> QED BY <2>1, <2>4 DEF Post, LedgerTypeOK, SystemAccounts
<1> QED BY <1>1, <1>2

\* What the settlement of a payout does to the ledger.
LEMMA SettleEffect ==
  ASSUME LedgerTypeOK, PayoutTypeOK, NEW p \in Payouts,
         ~ Settled(p), Settle(p)
  PROVE  /\ LedgerTypeOK'
         /\ posted' = posted \union {<<"PAYOUT_SETTLEMENT", p>>}
         /\ system'["PAYOUT_RESERVE"] = system["PAYOUT_RESERVE"] - payout[p].gross
         /\ system'["PAYOUT_SETTLEMENT"] = system["PAYOUT_SETTLEMENT"] + payout[p].net
         /\ system'["PAYOUT_FEE_REVENUE"] = system["PAYOUT_FEE_REVENUE"] + payout[p].fee
<1> DEFINE accounts ==
      [system EXCEPT !["PAYOUT_RESERVE"] = @ - payout[p].gross,
                     !["PAYOUT_SETTLEMENT"] = @ + payout[p].net,
                     !["PAYOUT_FEE_REVENUE"] = @ + payout[p].fee]
<1>1. /\ Post(<<"PAYOUT_SETTLEMENT", p>>, component, accounts, eventDelta)
      /\ UNCHANGED opened
  BY DEF Settle, Once, Settled
<1>2. payout[p].gross \in Nat /\ payout[p].net \in Nat /\ payout[p].fee \in Nat
  BY DEF PayoutTypeOK, PayoutRows
<1>3. accounts \in [SystemAccounts -> Int]
  BY <1>2 DEF LedgerTypeOK, SystemAccounts
<1>4. component \in [Users -> [Buckets -> Int]]
  BY DEF LedgerTypeOK
<1>5. LedgerTypeOK'
  <2> HIDE DEF accounts
  <2> QED BY <1>1, <1>3, <1>4, PostKeepsType DEF LedgerTypeOK
<1> QED BY <1>1, <1>2, <1>5 DEF Post, LedgerTypeOK, SystemAccounts

-----------------------------------------------------------------------------
(* The invariant.                                                           *)

\* The invariant holds on the empty platform.
LEMMA DeskInvInit == LedgerInit /\ PayoutInit => DeskInv
<1> SUFFICES ASSUME LedgerInit, PayoutInit PROVE DeskInv
  OBVIOUS
<1>1. LedgerTypeOK
  BY DEF LedgerInit, LedgerTypeOK
<1>2. NoRow \in PayoutRows
  BY DEF NoRow, PayoutRows, Sources
<1>3. NoPolicy \in PolicyRows
  BY DEF NoPolicy, PolicyRows
<1>4. PayoutTypeOK
  BY <1>2, <1>3 DEF PayoutInit, PayoutTypeOK
<1>5. LedgerMatchesStatus /\ QuotesAddUp /\ GrossOfReserved
  BY DEF LedgerInit, PayoutInit, NoRow, LedgerMatchesStatus, QuotesAddUp,
         GrossOfReserved, Reserved, Released, Settled
<1> QED BY <1>1, <1>4, <1>5 DEF DeskInv, DeskTypeOK

\* Every step of the desk keeps its invariant.
LEMMA DeskInvStep == DeskInv /\ PayoutNext => DeskInv'
<1> SUFFICES ASSUME DeskInv, PayoutNext PROVE DeskInv'
  OBVIOUS
<1> USE DEF DeskInv, DeskTypeOK
<1>1. ASSUME NEW policy \in PayoutPolicies, PublishPolicy(policy) PROVE DeskInv'
  <2>1. UNCHANGED <<ledgerVars, payout, totalWalletOnly>> /\ payoutPolicy' = policy
    BY <1>1 DEF PublishPolicy
  <2>2. policy \in PolicyRows
    BY PayoutsAssumption
  <2> QED BY <2>1, <2>2 DEF ledgerVars, LedgerTypeOK, PayoutTypeOK, LedgerMatchesStatus,
             QuotesAddUp, GrossOfReserved, Reserved, Released, Settled
<1>2. CASE ReleaseTotalWallet
  BY <1>2 DEF ReleaseTotalWallet, ledgerVars, LedgerTypeOK, PayoutTypeOK,
     LedgerMatchesStatus, QuotesAddUp, GrossOfReserved, Reserved, Released, Settled
<1>3. ASSUME NEW p \in Payouts, NEW source \in RequestSources, NEW gross \in Amounts,
             CreateRequest(p, source, gross)
      PROVE  DeskInv'
  <2> DEFINE fee == FeeOf(payoutPolicy, gross)
             row == [status |-> "PENDING_REVIEW", source |-> source, gross |-> gross,
                     fee |-> fee, net |-> gross - fee,
                     network |-> payoutPolicy.network, txid |-> NoTxid]
  <2>1. source \in Sources /\ gross \in Nat /\ payoutPolicy.network \in Networks \union {"NONE"}
    BY <1>3, PayoutsAssumption DEF RequestSources, Sources, PayoutTypeOK, PolicyRows
  <2>2. fee \in Nat
    BY <2>1, FeeIsNat DEF PayoutTypeOK
  <2>3. gross - fee \in Nat
    <3>1. gross - fee > 0
      BY <1>3 DEF CreateRequest
    <3> HIDE DEF fee
    <3> QED BY <2>1, <2>2, <3>1
  <2>4. /\ payout[p].status = "NONE"
        /\ Reserve(p, source, gross)
        /\ payout' = [payout EXCEPT ![p] = row]
        /\ UNCHANGED <<payoutPolicy, totalWalletOnly>>
    BY <1>3 DEF CreateRequest
  <2>5. ~ Reserved(p)
    BY <2>4 DEF LedgerMatchesStatus
  <2>6. LedgerTypeOK' /\ posted' = posted \union {<<"PAYOUT_RESERVE", p>>}
    BY <2>1, <2>4, <2>5, ReserveEffect
  <2>7. row \in PayoutRows /\ row.gross = row.net + row.fee
    <3> HIDE DEF fee
    <3> QED BY <2>1, <2>2, <2>3 DEF PayoutRows, PayoutStatuses, OpenStatuses
  <2>8. PayoutTypeOK'
    <3> HIDE DEF row
    <3> QED BY <2>4, <2>7 DEF PayoutTypeOK
  <2>9. row.status = "PENDING_REVIEW"
    OBVIOUS
  <2>10. LedgerMatchesStatus' /\ QuotesAddUp' /\ GrossOfReserved'
    <3> HIDE DEF row
    <3> QED BY <2>4, <2>6, <2>7, <2>9 DEF PayoutTypeOK, LedgerMatchesStatus,
               QuotesAddUp, GrossOfReserved, Reserved, Released, Settled
  <2> QED BY <2>6, <2>8, <2>10
<1>4. ASSUME NEW p \in Payouts, Approve(p) PROVE DeskInv'
  <2>1. payout' = [payout EXCEPT ![p].status = "APPROVED"]
        /\ UNCHANGED <<ledgerVars, payoutPolicy, totalWalletOnly>>
        /\ payout[p].status = "PENDING_REVIEW"
    BY <1>4 DEF Approve
  <2>2. PayoutTypeOK'
    <3> DEFINE row == [payout[p] EXCEPT !.status = "APPROVED"]
    <3>1. payout[p] \in PayoutRows
      BY DEF PayoutTypeOK
    <3>2. row \in PayoutRows
      BY <3>1 DEF PayoutRows, PayoutStatuses, OpenStatuses
    <3>3. payout' = [payout EXCEPT ![p] = row]
      BY <2>1
    <3> HIDE DEF row
    <3> QED BY <2>1, <3>2, <3>3 DEF PayoutTypeOK
  <2> QED BY <2>1, <2>2 DEF ledgerVars, LedgerTypeOK, PayoutTypeOK, PayoutRows,
             LedgerMatchesStatus, QuotesAddUp, GrossOfReserved, Reserved, Released, Settled
<1>5. ASSUME NEW p \in Payouts, Reject(p) PROVE DeskInv'
  <2>1. /\ payout' = [payout EXCEPT ![p].status = "REJECTED"]
        /\ Release(p)
        /\ UNCHANGED <<payoutPolicy, totalWalletOnly>>
        /\ payout[p].status \in {"PENDING_REVIEW", "APPROVED"}
    BY <1>5 DEF Reject
  <2>2. ~ Released(p)
    BY <2>1 DEF LedgerMatchesStatus
  <2>3. LedgerTypeOK' /\ posted' = posted \union {<<"PAYOUT_RELEASE", p>>}
    BY <2>1, <2>2, ReleaseEffect
  <2>4. PayoutTypeOK'
    <3> DEFINE row == [payout[p] EXCEPT !.status = "REJECTED"]
    <3>1. payout[p] \in PayoutRows
      BY DEF PayoutTypeOK
    <3>2. row \in PayoutRows
      BY <3>1 DEF PayoutRows, PayoutStatuses, OpenStatuses
    <3>3. payout' = [payout EXCEPT ![p] = row]
      BY <2>1
    <3> HIDE DEF row
    <3> QED BY <2>1, <3>2, <3>3 DEF PayoutTypeOK
  <2> QED BY <2>1, <2>3, <2>4 DEF PayoutTypeOK, PayoutRows,
             LedgerMatchesStatus, QuotesAddUp, GrossOfReserved, Reserved, Released, Settled
<1>6. ASSUME NEW p \in Payouts, NEW txid \in Txids, SubmitExternalTxid(p, txid)
      PROVE  DeskInv'
  <2>1. /\ payout' = [payout EXCEPT ![p].status = "SUBMITTED", ![p].txid = txid]
        /\ UNCHANGED <<ledgerVars, payoutPolicy, totalWalletOnly>>
        /\ payout[p].status = "APPROVED"
    BY <1>6 DEF SubmitExternalTxid
  <2>2. PayoutTypeOK'
    <3> DEFINE row == [payout[p] EXCEPT !.status = "SUBMITTED", !.txid = txid]
    <3>1. payout[p] \in PayoutRows
      BY DEF PayoutTypeOK
    <3>2. row \in PayoutRows
      BY <3>1 DEF PayoutRows, PayoutStatuses, OpenStatuses
    <3>3. payout' = [payout EXCEPT ![p] = row]
      BY <2>1
    <3> HIDE DEF row
    <3> QED BY <2>1, <3>2, <3>3 DEF PayoutTypeOK
  <2> QED BY <2>1, <2>2 DEF ledgerVars, LedgerTypeOK, PayoutTypeOK, PayoutRows,
             LedgerMatchesStatus, QuotesAddUp, GrossOfReserved, Reserved, Released, Settled
<1>7. ASSUME NEW p \in Payouts, Complete(p) PROVE DeskInv'
  <2>1. /\ payout' = [payout EXCEPT ![p].status = "COMPLETED"]
        /\ Settle(p)
        /\ UNCHANGED <<payoutPolicy, totalWalletOnly>>
        /\ payout[p].status = "SUBMITTED"
    BY <1>7 DEF Complete
  <2>2. ~ Settled(p)
    BY <2>1 DEF LedgerMatchesStatus
  <2>3. LedgerTypeOK' /\ posted' = posted \union {<<"PAYOUT_SETTLEMENT", p>>}
    BY <2>1, <2>2, SettleEffect
  <2>4. PayoutTypeOK'
    <3> DEFINE row == [payout[p] EXCEPT !.status = "COMPLETED"]
    <3>1. payout[p] \in PayoutRows
      BY DEF PayoutTypeOK
    <3>2. row \in PayoutRows
      BY <3>1 DEF PayoutRows, PayoutStatuses, OpenStatuses
    <3>3. payout' = [payout EXCEPT ![p] = row]
      BY <2>1
    <3> HIDE DEF row
    <3> QED BY <2>1, <3>2, <3>3 DEF PayoutTypeOK
  <2> QED BY <2>1, <2>3, <2>4 DEF PayoutTypeOK, PayoutRows,
             LedgerMatchesStatus, QuotesAddUp, GrossOfReserved, Reserved, Released, Settled
<1> QED BY <1>1, <1>2, <1>3, <1>4, <1>5, <1>6, <1>7 DEF PayoutNext

\* A step of another engine keeps it too, as long as the ledger stays typed.
LEMMA DeskInvElsewhere == DeskInv /\ Elsewhere /\ LedgerTypeOK' => DeskInv'
BY DEF DeskInv, DeskTypeOK, Elsewhere, payoutVars, PayoutTypeOK,
       LedgerMatchesStatus, QuotesAddUp, GrossOfReserved, Reserved, Released, Settled

\* Elsewhere, on the desk's own, only earnings are posted.
LEMMA EarningEffect ==
  ASSUME LedgerTypeOK, NEW e \in Earnings, PostEarning(e), UNCHANGED payoutVars
  PROVE  LedgerTypeOK' /\ Elsewhere
<1> DEFINE u == EarningUser[e]
           b == EarningBucket[e]
           n == EarningAmount[e]
           components == [component EXCEPT ![u][b] = @ + n]
           accounts == [system EXCEPT !["EARNINGS_EXPENSE"] = @ + n]
<1>1. u \in Users /\ b \in Buckets /\ n \in Nat
  BY EarningsAssumption DEF EarningBuckets
<1>2. /\ opened' = [opened EXCEPT ![u] = @ \union {b}]
      /\ Post(<<"EARNING", e>>, components, accounts, eventDelta)
  BY DEF PostEarning
<1>3. /\ accounts \in [SystemAccounts -> Int]
      /\ components \in [Users -> [Buckets -> Int]]
      /\ opened' \in [Users -> SUBSET Buckets]
  BY <1>1, <1>2 DEF LedgerTypeOK, SystemAccounts
<1>4. LedgerTypeOK'
  <2> HIDE DEF accounts, components
  <2> QED BY <1>2, <1>3, PostKeepsType DEF LedgerTypeOK
<1>5. Elsewhere
  BY <1>2 DEF Elsewhere, Post, LedgerTypeOK, SystemAccounts, Reserved, Released, Settled
<1> QED BY <1>4, <1>5

\* A step of the desk's specification is the desk's own or one elsewhere that
\* keeps the ledger typed.
LEMMA DeskNextCases ==
  ASSUME DeskInv, DeskNext
  PROVE  PayoutNext \/ (Elsewhere /\ LedgerTypeOK')
BY EarningEffect DEF DeskNext, DeskInv, DeskTypeOK

\* The invariant of the desk on its own.
THEOREM DeskInvariant == DeskSpec => []DeskInv
<1>1. DeskInit => DeskInv
  BY DeskInvInit DEF DeskInit
<1>2. DeskInv /\ [DeskNext]_deskVars => DeskInv'
  <2>1. DeskInv /\ DeskNext => DeskInv'
    BY DeskNextCases, DeskInvStep, DeskInvElsewhere
  <2>2. DeskInv /\ UNCHANGED deskVars => DeskInv'
    BY DEF DeskInv, DeskTypeOK, deskVars, ledgerVars, payoutVars, LedgerTypeOK,
       PayoutTypeOK, LedgerMatchesStatus, QuotesAddUp, GrossOfReserved,
       Reserved, Released, Settled
  <2> QED BY <2>1, <2>2
<1> QED BY <1>1, <1>2, PTL DEF DeskSpec

\* Every balance and every amount on a row stays a natural number, and every
\* row keeps its shape, whatever users and administrators do.
THEOREM DeskTyped == DeskSpec => []DeskTypeOK
<1>1. DeskInv => DeskTypeOK
  BY DEF DeskInv
<1> QED BY <1>1, DeskInvariant, PTL

\* The status of a payout and the ledger transactions posted for it agree:
\* no payout is both given back and settled, however calls interleave.
THEOREM DeskLedgerMatches == DeskSpec => []LedgerMatchesStatus
<1>1. DeskInv => LedgerMatchesStatus
  BY DEF DeskInv
<1> QED BY <1>1, DeskInvariant, PTL

-----------------------------------------------------------------------------
(* One transfer per payout.                                                 *)

\* No step of the desk gives a payout the transaction id of another.
LEMMA OneTransferStep ==
  ASSUME DeskInv, OneTransferPerPayout, PayoutNext
  PROVE  OneTransferPerPayout'
<1> USE DEF DeskInv, DeskTypeOK
<1>1. CASE UNCHANGED payout
  BY <1>1 DEF OneTransferPerPayout
<1>2. ASSUME NEW p \in Payouts, NEW source, NEW gross, CreateRequest(p, source, gross)
      PROVE  OneTransferPerPayout'
  <2>1. /\ \A q \in Payouts \ {p} : payout'[q] = payout[q]
        /\ payout'[p].txid = NoTxid
    BY <1>2 DEF CreateRequest, PayoutTypeOK
  <2> QED BY <2>1 DEF OneTransferPerPayout
<1>3. ASSUME NEW p \in Payouts, Approve(p) \/ Reject(p) \/ Complete(p)
      PROVE  OneTransferPerPayout'
  <2>1. \A q \in Payouts : /\ payout'[q].txid = payout[q].txid
                           /\ payout'[q].network = payout[q].network
    BY <1>3 DEF Approve, Reject, Complete, PayoutTypeOK, PayoutRows
  <2> QED BY <2>1 DEF OneTransferPerPayout
<1>4. ASSUME NEW p \in Payouts, NEW txid \in Txids, SubmitExternalTxid(p, txid)
      PROVE  OneTransferPerPayout'
  <2>1. /\ \A q \in Payouts \ {p} : payout'[q] = payout[q]
        /\ payout'[p].txid = txid
        /\ payout'[p].network = payout[p].network
        /\ \A q \in Payouts \ {p} :
             ~ (payout[q].network = payout[p].network /\ payout[q].txid = txid)
    BY <1>4 DEF SubmitExternalTxid, PayoutTypeOK, PayoutRows
  <2> QED BY <2>1 DEF OneTransferPerPayout
<1> QED BY <1>1, <1>2, <1>3, <1>4 DEF PayoutNext, PublishPolicy, ReleaseTotalWallet

\* One external transfer is never the evidence of two payouts.
THEOREM DeskOneTransfer == DeskSpec => []OneTransferPerPayout
<1>1. DeskInit => OneTransferPerPayout
  BY DEF DeskInit, PayoutInit, NoRow, OneTransferPerPayout
<1>2. DeskInv /\ OneTransferPerPayout /\ [DeskNext]_deskVars => OneTransferPerPayout'
  <2>1. DeskInv /\ OneTransferPerPayout /\ DeskNext => OneTransferPerPayout'
    BY DeskNextCases, OneTransferStep DEF Elsewhere, payoutVars, OneTransferPerPayout
  <2>2. OneTransferPerPayout /\ UNCHANGED deskVars => OneTransferPerPayout'
    BY DEF deskVars, payoutVars, OneTransferPerPayout
  <2> QED BY <2>1, <2>2
<1> QED BY <1>1, <1>2, DeskInvariant, PTL DEF DeskSpec

-----------------------------------------------------------------------------
(* Quotes and endings are final.                                            *)

QuoteAndEndKept(p) ==
  payout[p].status # "NONE" =>
    /\ payout'[p].source = payout[p].source
    /\ payout'[p].gross = payout[p].gross
    /\ payout'[p].net = payout[p].net
    /\ payout'[p].fee = payout[p].fee
    /\ payout[p].status \notin OpenStatuses => payout'[p] = payout[p]

\* No step of the desk changes a quote or a payout that has ended.
LEMMA QuoteAndEndStep ==
  ASSUME PayoutTypeOK, PayoutNext, NEW q \in Payouts
  PROVE  QuoteAndEndKept(q)
<1>1. CASE UNCHANGED payout
  BY <1>1 DEF QuoteAndEndKept
<1>2. ASSUME NEW p \in Payouts, NEW source, NEW gross, CreateRequest(p, source, gross)
      PROVE  QuoteAndEndKept(q)
  BY <1>2 DEF CreateRequest, PayoutTypeOK, QuoteAndEndKept
<1>3. ASSUME NEW p \in Payouts, Approve(p) \/ Reject(p) \/ Complete(p)
      PROVE  QuoteAndEndKept(q)
  BY <1>3 DEF Approve, Reject, Complete, PayoutTypeOK, PayoutRows, QuoteAndEndKept,
     OpenStatuses
<1>4. ASSUME NEW p \in Payouts, NEW txid \in Txids, SubmitExternalTxid(p, txid)
      PROVE  QuoteAndEndKept(q)
  BY <1>4 DEF SubmitExternalTxid, PayoutTypeOK, PayoutRows, QuoteAndEndKept, OpenStatuses
<1> QED BY <1>1, <1>2, <1>3, <1>4 DEF PayoutNext, PublishPolicy, ReleaseTotalWallet

\* The amounts a user was quoted never change, and an ended payout is final.
THEOREM DeskQuotesFinal == DeskSpec => QuoteAndEndAreFinal
<1>1. ASSUME DeskInv, [DeskNext]_deskVars
      PROVE  [\A p \in Payouts : QuoteAndEndKept(p)]_payoutVars
  BY <1>1, DeskNextCases, QuoteAndEndStep
     DEF DeskInv, DeskTypeOK, Elsewhere, deskVars
<1>2. ASSUME [\A p \in Payouts : QuoteAndEndKept(p)]_payoutVars
      PROVE  [\A p \in Payouts :
                payout[p].status # "NONE" =>
                  /\ payout'[p].source = payout[p].source
                  /\ payout'[p].gross = payout[p].gross
                  /\ payout'[p].net = payout[p].net
                  /\ payout'[p].fee = payout[p].fee
                  /\ payout[p].status \notin OpenStatuses =>
                       payout'[p] = payout[p]]_payoutVars
  BY <1>2 DEF QuoteAndEndKept
<1> QED BY <1>1, <1>2, DeskInvariant, PTL DEF DeskSpec, QuoteAndEndAreFinal

-----------------------------------------------------------------------------
(* The desk implements custody.                                             *)

\* Every step of the desk is a step of custody or a stutter of it.
LEMMA CustodyStep ==
  ASSUME DeskInv, PayoutNext
  PROVE  [Custody!CustodyNext]_Custody!custodyVars
<1> USE DEF DeskInv, DeskTypeOK
<1> DEFINE where(p) == IF Settled(p) THEN "PAID" ELSE IF Released(p) THEN "RETURNED"
                       ELSE IF Reserved(p) THEN "HELD" ELSE "USER"
<1>1. CASE UNCHANGED <<payout, ledgerVars>>
  BY <1>1 DEF ledgerVars, Custody!custodyVars, Reserved, Released, Settled
<1>2. ASSUME NEW p \in Payouts, NEW source \in RequestSources, NEW gross \in Amounts,
             CreateRequest(p, source, gross)
      PROVE  Custody!Take(p, gross)
  <2>1. /\ payout[p].status = "NONE"
        /\ Reserve(p, source, gross)
        /\ source \in Sources
        /\ gross \in Nat
    BY <1>2, PayoutsAssumption DEF CreateRequest, RequestSources, Sources
  <2>2. ~ Reserved(p) /\ ~ Released(p) /\ ~ Settled(p)
    BY <2>1 DEF LedgerMatchesStatus
  <2>3. /\ posted' = posted \union {<<"PAYOUT_RESERVE", p>>}
        /\ system'["PAYOUT_RESERVE"] = system["PAYOUT_RESERVE"] + gross
        /\ system'["PAYOUT_SETTLEMENT"] = system["PAYOUT_SETTLEMENT"]
        /\ system'["PAYOUT_FEE_REVENUE"] = system["PAYOUT_FEE_REVENUE"]
    BY <2>1, <2>2, ReserveEffect
  <2>4. \A q \in Payouts : payout'[q].gross = IF q = p THEN gross ELSE payout[q].gross
    BY <1>2 DEF CreateRequest, PayoutTypeOK
  <2>5. \A q \in Payouts : where(q)' = IF q = p THEN "HELD" ELSE where(q)
    BY <2>2, <2>3 DEF Reserved, Released, Settled
  <2> QED BY <2>2, <2>3, <2>4, <2>5 DEF Custody!Take
<1>3. ASSUME NEW p \in Payouts, Reject(p)
      PROVE  Custody!GiveBack(p)
  <2>1. /\ payout[p].status \in {"PENDING_REVIEW", "APPROVED"}
        /\ Release(p)
    BY <1>3 DEF Reject
  <2>2. Reserved(p) /\ ~ Released(p) /\ ~ Settled(p)
    BY <2>1 DEF LedgerMatchesStatus
  <2>3. /\ posted' = posted \union {<<"PAYOUT_RELEASE", p>>}
        /\ system'["PAYOUT_RESERVE"] = system["PAYOUT_RESERVE"] - payout[p].gross
        /\ system'["PAYOUT_SETTLEMENT"] = system["PAYOUT_SETTLEMENT"]
        /\ system'["PAYOUT_FEE_REVENUE"] = system["PAYOUT_FEE_REVENUE"]
    BY <2>1, <2>2, ReleaseEffect
  <2>4. \A q \in Payouts : payout'[q].gross = payout[q].gross
    BY <1>3 DEF Reject, PayoutTypeOK, PayoutRows
  <2>5. \A q \in Payouts : where(q)' = IF q = p THEN "RETURNED" ELSE where(q)
    BY <2>2, <2>3 DEF Reserved, Released, Settled
  <2> QED BY <2>2, <2>3, <2>4, <2>5 DEF Custody!GiveBack
<1>4. ASSUME NEW p \in Payouts, Complete(p)
      PROVE  Custody!PayOut(p)
  <2>1. /\ payout[p].status = "SUBMITTED"
        /\ Settle(p)
    BY <1>4 DEF Complete
  <2>2. Reserved(p) /\ ~ Released(p) /\ ~ Settled(p)
    BY <2>1 DEF LedgerMatchesStatus
  <2>3. /\ posted' = posted \union {<<"PAYOUT_SETTLEMENT", p>>}
        /\ system'["PAYOUT_RESERVE"] = system["PAYOUT_RESERVE"] - payout[p].gross
        /\ system'["PAYOUT_SETTLEMENT"] = system["PAYOUT_SETTLEMENT"] + payout[p].net
        /\ system'["PAYOUT_FEE_REVENUE"] = system["PAYOUT_FEE_REVENUE"] + payout[p].fee
    BY <2>1, <2>2, SettleEffect
  <2>4. \A q \in Payouts : payout'[q].gross = payout[q].gross
    BY <1>4 DEF Complete, PayoutTypeOK, PayoutRows
  <2>5. \A q \in Payouts : where(q)' = IF q = p THEN "PAID" ELSE where(q)
    BY <2>2, <2>3 DEF Reserved, Released, Settled
  <2>6. payout[p].gross = payout[p].net + payout[p].fee
    BY <2>1 DEF QuotesAddUp
  <2>7. /\ payout[p].net \in Nat /\ payout[p].fee \in Nat
        /\ system["PAYOUT_SETTLEMENT"] \in Nat /\ system["PAYOUT_FEE_REVENUE"] \in Nat
    BY DEF PayoutTypeOK, PayoutRows, LedgerTypeOK, SystemAccounts
  <2>8. /\ [q \in Payouts |-> where(q)]' = [[q \in Payouts |-> where(q)] EXCEPT ![p] = "PAID"]
        /\ [q \in Payouts |-> payout[q].gross]' = [q \in Payouts |-> payout[q].gross]
    BY <2>4, <2>5
  <2>9. where(p) = "HELD"
    BY <2>2
  <2>10. (system["PAYOUT_SETTLEMENT"] + system["PAYOUT_FEE_REVENUE"])'
           = system["PAYOUT_SETTLEMENT"] + system["PAYOUT_FEE_REVENUE"] + payout[p].gross
    BY <2>3, <2>6, <2>7
  <2> QED BY <2>3, <2>8, <2>9, <2>10 DEF Custody!PayOut
<1>5. ASSUME NEW p \in Payouts, Approve(p) \/ \E txid \in Txids : SubmitExternalTxid(p, txid)
      PROVE  UNCHANGED Custody!custodyVars
  <2>1. \A q \in Payouts : payout'[q].gross = payout[q].gross
    BY <1>5 DEF Approve, SubmitExternalTxid, PayoutTypeOK, PayoutRows
  <2>2. UNCHANGED ledgerVars
    BY <1>5 DEF Approve, SubmitExternalTxid
  <2> QED BY <2>1, <2>2 DEF ledgerVars, Custody!custodyVars, Reserved, Released, Settled
<1> QED BY <1>1, <1>2, <1>3, <1>4, <1>5
        DEF PayoutNext, PublishPolicy, ReleaseTotalWallet, Custody!CustodyNext

\* A step of another engine is a stutter of custody.
LEMMA CustodyElsewhere ==
  Elsewhere => UNCHANGED Custody!custodyVars
BY DEF Elsewhere, payoutVars, Custody!custodyVars

\* The empty platform has nothing in custody.
LEMMA CustodyInitially ==
  LedgerInit /\ PayoutInit => Custody!CustodyInit
BY DEF LedgerInit, PayoutInit, NoRow, Custody!CustodyInit, Reserved, Released, Settled,
       SystemAccounts

\* The desk keeps the promise of PayoutCustody: money is taken once and leaves
\* once, in full.
THEOREM DeskImplementsCustody == DeskSpec => PayoutCustodyHolds
<1>1. DeskInit => Custody!CustodyInit
  BY CustodyInitially DEF DeskInit
<1>2. DeskInv /\ [DeskNext]_deskVars => [Custody!CustodyNext]_Custody!custodyVars
  <2>1. DeskInv /\ DeskNext => [Custody!CustodyNext]_Custody!custodyVars
    BY DeskNextCases, CustodyStep, CustodyElsewhere
  <2>2. UNCHANGED deskVars => UNCHANGED Custody!custodyVars
    BY DEF deskVars, payoutVars, ledgerVars, Custody!custodyVars,
       Reserved, Released, Settled
  <2> QED BY <2>1, <2>2
<1> QED BY <1>1, <1>2, DeskInvariant, PTL
        DEF DeskSpec, PayoutCustodyHolds, Custody!CustodySpec

-----------------------------------------------------------------------------
(* The funds system.                                                        *)

\* Before the Total Wallet release nobody has spent from a Total Wallet, and
\* no request names it.
TotalWalletUnusedBeforeRelease ==
  ~ totalWalletOnly =>
    /\ \A u \in Users : eventDelta[u] = 0
    /\ \A p \in Payouts : payout[p].status # "NONE" => payout[p].source \in Buckets

FundsInv ==
  /\ DeskInv
  /\ SubscriptionTypeOK
  /\ DepositChainInOrder
  /\ PrincipalReturnedOnce
  /\ TotalWalletUnusedBeforeRelease

\* The keys of the subscriptions that a step of the desk leaves alone.
SubscriptionKeysKept ==
  /\ \A d \in Deposits :
       /\ <<"DEPOSIT_CREDIT", d>> \in posted' <=> <<"DEPOSIT_CREDIT", d>> \in posted
       /\ <<"PACKAGE_ACTIVATION", d>> \in posted'
            <=> <<"PACKAGE_ACTIVATION", d>> \in posted
  /\ \A s \in SubscriptionIds :
       <<"PRINCIPAL_RETURN", s>> \in posted' <=> <<"PRINCIPAL_RETURN", s>> \in posted

-----------------------------------------------------------------------------
(* What each step of the subscriptions does to the ledger and its rows.     *)

\* A subscription belongs to a member of the platform.
LEMMA SubscriberIsUser ==
  ASSUME NEW s \in SubscriptionIds
  PROVE  Subscriber(s) \in Users
BY SubscriptionsAssumption DEF SubscriptionIds, Subscriber

\* Posting an approved deposit types the ledger, posts its own key and takes
\* from nobody.
LEMMA PostDepositEffect ==
  ASSUME LedgerTypeOK, NEW d \in Deposits, PostApprovedDeposit(d), UNCHANGED payoutVars
  PROVE  /\ LedgerTypeOK' /\ Elsewhere
         /\ posted' = posted \union {<<"DEPOSIT_CREDIT", d>>}
         /\ \A u \in Users : Available(u)' >= Available(u)
         /\ UNCHANGED eventDelta
<1> DEFINE u == DepositUser[d]
           n == DepositAmount[d]
           components == [component EXCEPT ![u]["MAIN"] = @ + n]
           accounts == [system EXCEPT !["DEPOSIT_CLEARING"] = @ + n]
<1>1. u \in Users /\ n \in Nat
  BY SubscriptionsAssumption
<1>2. /\ opened' = [opened EXCEPT ![u] = Buckets]
      /\ Post(<<"DEPOSIT_CREDIT", d>>, components, accounts, eventDelta)
  BY DEF PostApprovedDeposit, EnsureUserWalletAccounts
<1>3. /\ accounts \in [SystemAccounts -> Int]
      /\ components \in [Users -> [Buckets -> Int]]
      /\ opened' \in [Users -> SUBSET Buckets]
  BY <1>1, <1>2 DEF LedgerTypeOK, SystemAccounts, Buckets
<1>4. LedgerTypeOK'
  <2> HIDE DEF accounts, components
  <2> QED BY <1>2, <1>3, PostKeepsType DEF LedgerTypeOK
<1>5. Elsewhere
  BY <1>2 DEF Elsewhere, Post, LedgerTypeOK, SystemAccounts, Reserved, Released, Settled
<1>6. \A v \in Users : Available(v)' >= Available(v)
  BY <1>1, <1>2 DEF Post, LedgerTypeOK, Buckets, Available, SourceBalance
<1> QED BY <1>2, <1>4, <1>5, <1>6 DEF Post

\* Activating a deposit types the ledger, posts its own key and changes the
\* Total Wallet of the deposit's user alone.
LEMMA ActivateEffect ==
  ASSUME LedgerTypeOK, NEW d \in Deposits, NEW triggers,
         ActivateFromApprovedDeposit(d, triggers), UNCHANGED payoutVars
  PROVE  /\ LedgerTypeOK' /\ Elsewhere
         /\ posted' = posted \union {<<"PACKAGE_ACTIVATION", d>>}
         /\ \A u \in Users : u # DepositUser[d] => Available(u)' = Available(u)
         /\ UNCHANGED eventDelta
<1> DEFINE u == DepositUser[d]
           n == DepositAmount[d]
           components == [component EXCEPT ![u]["MAIN"] = @ - n]
           accounts == [system EXCEPT !["PACKAGE_PRINCIPAL"] = @ + n]
<1>1. u \in Users /\ n \in Nat
  BY SubscriptionsAssumption
<1>2. /\ UNCHANGED opened
      /\ Post(<<"PACKAGE_ACTIVATION", d>>, components, accounts, eventDelta)
  BY DEF ActivateFromApprovedDeposit, FundActivation
<1>3. /\ accounts \in [SystemAccounts -> Int]
      /\ components \in [Users -> [Buckets -> Int]]
  BY <1>1 DEF LedgerTypeOK, SystemAccounts, Buckets
<1>4. LedgerTypeOK'
  <2> HIDE DEF accounts, components
  <2> QED BY <1>2, <1>3, PostKeepsType DEF LedgerTypeOK
<1>5. Elsewhere
  BY <1>2 DEF Elsewhere, Post, LedgerTypeOK, SystemAccounts, Reserved, Released, Settled
<1>6. \A v \in Users : v # u => Available(v)' = Available(v)
  BY <1>1, <1>2 DEF Post, LedgerTypeOK, Buckets, Available, SourceBalance
<1> QED BY <1>2, <1>4, <1>5, <1>6 DEF Post

\* A reinvestment types the ledger, posts its own key and leaves no Total
\* Wallet it spends from below zero.
LEMMA PurchaseEffect ==
  ASSUME LedgerTypeOK, NEW v \in Users, NEW k \in PurchaseKeys, NEW plan \in catalogue,
         NEW amount \in PurchaseAmounts, Purchase(v, k, plan, amount),
         UNCHANGED payoutVars
  PROVE  /\ LedgerTypeOK' /\ Elsewhere
         /\ posted' = posted \union {<<"REINVESTMENT", <<v, k>>>>}
         /\ \A u \in Users : Available(u)' >= 0 \/ Available(u)' = Available(u)
<1> DEFINE accounts == [system EXCEPT !["PAYOUT_TOTAL_WALLET_CONTROL"] = @ + amount,
                                      !["PACKAGE_PRINCIPAL"] = @ + amount]
           deltas == [eventDelta EXCEPT ![v] = @ - amount]
<1>1. amount \in Nat /\ Available(v) >= amount
  BY SubscriptionsAssumption DEF Purchase, FundFromTotalWallet
<1>2. /\ UNCHANGED opened
      /\ Post(<<"REINVESTMENT", <<v, k>>>>, component, accounts, deltas)
  BY DEF Purchase, FundFromTotalWallet
<1>3. /\ accounts \in [SystemAccounts -> Int]
      /\ deltas \in [Users -> Int]
      /\ component \in [Users -> [Buckets -> Int]]
  BY <1>1 DEF LedgerTypeOK, SystemAccounts
<1>4. LedgerTypeOK'
  <2> HIDE DEF accounts, deltas
  <2> QED BY <1>2, <1>3, PostKeepsType DEF LedgerTypeOK
<1>5. Elsewhere
  BY <1>2 DEF Elsewhere, Post, LedgerTypeOK, SystemAccounts, Reserved, Released, Settled
<1>6. \A u \in Users : Available(u)' >= 0 \/ Available(u)' = Available(u)
  BY <1>1, <1>2 DEF Post, LedgerTypeOK, Buckets, Available, SourceBalance
<1> QED BY <1>2, <1>4, <1>5, <1>6 DEF Post

\* Returning principal types the ledger, posts its own key and takes from
\* nobody.
LEMMA ReturnPrincipalEffect ==
  ASSUME LedgerTypeOK, SubscriptionTypeOK, NEW s \in SubscriptionIds,
         ReturnPrincipal(s), UNCHANGED payoutVars
  PROVE  /\ LedgerTypeOK' /\ Elsewhere
         /\ posted' = posted \union {<<"PRINCIPAL_RETURN", s>>}
         /\ \A u \in Users : Available(u)' >= Available(u)
         /\ UNCHANGED eventDelta
<1> DEFINE u == Subscriber(s)
           n == subscription[s].principal
           components == [component EXCEPT ![u]["MAIN"] = @ + n]
           accounts == [system EXCEPT !["PACKAGE_PRINCIPAL"] = @ - n]
<1>1. u \in Users /\ n \in Nat
  BY SubscriberIsUser DEF SubscriptionTypeOK, SubscriptionRows
<1>2. /\ UNCHANGED opened
      /\ Post(<<"PRINCIPAL_RETURN", s>>, components, accounts, eventDelta)
  BY DEF ReturnPrincipal
<1>3. /\ accounts \in [SystemAccounts -> Int]
      /\ components \in [Users -> [Buckets -> Int]]
  BY <1>1 DEF LedgerTypeOK, SystemAccounts, Buckets
<1>4. LedgerTypeOK'
  <2> HIDE DEF accounts, components
  <2> QED BY <1>2, <1>3, PostKeepsType DEF LedgerTypeOK
<1>5. Elsewhere
  BY <1>2 DEF Elsewhere, Post, LedgerTypeOK, SystemAccounts, Reserved, Released, Settled
<1>6. \A v \in Users : Available(v)' >= Available(v)
  BY <1>1, <1>2 DEF Post, LedgerTypeOK, Buckets, Available, SourceBalance
<1> QED BY <1>2, <1>4, <1>5, <1>6 DEF Post

-----------------------------------------------------------------------------
(* A step of the subscriptions keeps the invariant, and spends no money of  *)
(* a Total Wallet but by activating a deposit.                              *)

NotOverdrawn ==
  \A u \in Users : Available(u)' >= Available(u) \/ Available(u)' >= 0

ActivationOf(d) ==
  /\ <<"PACKAGE_ACTIVATION", d>> \in posted' \ posted
  /\ \A u \in Users : u # DepositUser[d] => Available(u)' = Available(u)

SubscriptionEffect ==
  /\ LedgerTypeOK' /\ Elsewhere /\ UNCHANGED eventDelta
  /\ SubscriptionTypeOK' /\ DepositChainInOrder' /\ PrincipalReturnedOnce'
  /\ NotOverdrawn \/ \E d \in Deposits : ActivationOf(d)

\* The balances and keys stay: nothing to show for the ledger.
LEMMA LedgerKept ==
  ASSUME LedgerTypeOK, UNCHANGED ledgerVars, UNCHANGED payoutVars
  PROVE  /\ LedgerTypeOK' /\ Elsewhere /\ UNCHANGED eventDelta /\ NotOverdrawn
         /\ UNCHANGED posted
<1>1. \A u \in Users : Available(u)' = Available(u) /\ Available(u) \in Int
  BY DEF ledgerVars, LedgerTypeOK, Available, SourceBalance, Buckets
<1> QED BY <1>1 DEF ledgerVars, LedgerTypeOK, Elsewhere, NotOverdrawn, Reserved, Released, Settled

\* Publishing and restarts with another gate have the effect of a step of the
\* subscriptions.
LEMMA ConfigurationStep ==
  ASSUME FundsInv, UNCHANGED payoutVars,
         \/ \E plans \in Catalogues : PublishPlan(plans)
         \/ \E model \in TradingModels : PublishTradingPolicy(model)
         \/ \E setting \in GateSettings : RestartWithGate(setting)
  PROVE  SubscriptionEffect
<1> USE DEF FundsInv, DeskInv, DeskTypeOK
<1>1. UNCHANGED <<ledgerVars, deposit, subscription>>
  BY DEF PublishPlan, PublishTradingPolicy, RestartWithGate
<1>2. SubscriptionTypeOK'
  BY SubscriptionsAssumption
     DEF PublishPlan, PublishTradingPolicy, RestartWithGate, SubscriptionTypeOK
<1>3. DepositChainInOrder' /\ PrincipalReturnedOnce'
  BY <1>1 DEF ledgerVars, DepositChainInOrder, PrincipalReturnedOnce
<1> QED BY <1>1, <1>2, <1>3, LedgerKept DEF SubscriptionEffect

\* So have the review of a deposit and its posting to the ledger.
LEMMA DepositStep ==
  ASSUME FundsInv, UNCHANGED payoutVars, NEW d \in Deposits,
         \/ \E verdict \in {"APPROVED", "REJECTED"} : ReviewDeposit(d, verdict)
         \/ PostApprovedDeposit(d)
  PROVE  SubscriptionEffect
<1> USE DEF FundsInv, DeskInv, DeskTypeOK
<1>1. ASSUME NEW verdict \in {"APPROVED", "REJECTED"}, ReviewDeposit(d, verdict)
      PROVE  SubscriptionEffect
  <2>1. /\ deposit[d] = "OPEN"
        /\ deposit' = [deposit EXCEPT ![d] = verdict]
        /\ UNCHANGED <<ledgerVars, subscription, catalogue, tradingModel, v2Gate>>
    BY <1>1 DEF ReviewDeposit
  <2>2. SubscriptionTypeOK'
    BY <2>1 DEF SubscriptionTypeOK
  <2>3. DepositChainInOrder' /\ PrincipalReturnedOnce'
    BY <2>1 DEF ledgerVars, DepositChainInOrder, PrincipalReturnedOnce, SubscriptionTypeOK
  <2> QED BY <2>1, <2>2, <2>3, LedgerKept DEF SubscriptionEffect
<1>2. CASE PostApprovedDeposit(d)
  <2>1. /\ deposit[d] = "APPROVED"
        /\ UNCHANGED subscriptionVars
    BY <1>2 DEF PostApprovedDeposit
  <2>2. /\ LedgerTypeOK' /\ Elsewhere
        /\ posted' = posted \union {<<"DEPOSIT_CREDIT", d>>}
        /\ NotOverdrawn
        /\ UNCHANGED eventDelta
    BY <1>2, PostDepositEffect DEF NotOverdrawn
  <2>3. SubscriptionTypeOK'
    BY <2>1 DEF subscriptionVars, SubscriptionTypeOK
  <2>4. DepositChainInOrder' /\ PrincipalReturnedOnce'
    BY <2>1, <2>2 DEF subscriptionVars, DepositChainInOrder, PrincipalReturnedOnce
  <2> QED BY <2>2, <2>3, <2>4 DEF SubscriptionEffect
<1> QED BY <1>1, <1>2

\* A new row, whatever created it, has the shape of a subscription.
LEMMA NewRowTyped ==
  ASSUME SubscriptionTypeOK, NEW plan \in Plans, NEW amount \in Nat
  PROVE  NewSubscription(plan, amount) \in SubscriptionRows(Plans \union {NoPlan})
<1>1. Authority \in {"LEGACY_REWARD", "V1", "V2"}
  BY SubscriptionsAssumption DEF SubscriptionTypeOK, Authority
<1> QED BY <1>1 DEF NewSubscription, SubscriptionRows

\* So has the activation of a deposit, which is the step that may overdraw.
LEMMA ActivationStep ==
  ASSUME FundsInv, UNCHANGED payoutVars, NEW d \in Deposits, NEW triggers,
         ActivateFromApprovedDeposit(d, triggers)
  PROVE  SubscriptionEffect
<1> USE DEF FundsInv, DeskInv, DeskTypeOK
<1> DEFINE s == <<"DEPOSIT", d>>
           row == NewSubscription(DepositPlan[d], DepositAmount[d])
<1>1. /\ subscription[s].status = "NONE"
      /\ <<"DEPOSIT_CREDIT", d>> \in posted
      /\ <<"PACKAGE_ACTIVATION", d>> \notin posted
      /\ subscription' = [subscription EXCEPT ![s] = row]
      /\ UNCHANGED <<opened, deposit, catalogue, tradingModel, v2Gate>>
  BY DEF ActivateFromApprovedDeposit, FundActivation
<1>2. s \in SubscriptionIds
  BY DEF SubscriptionIds
<1>3. row \in SubscriptionRows(Plans \union {NoPlan}) /\ row.status = "ACTIVE"
  <2>1. DepositPlan[d] \in Plans /\ DepositAmount[d] \in Nat
    BY SubscriptionsAssumption
  <2> QED BY <2>1, NewRowTyped DEF NewSubscription
<1>4. /\ LedgerTypeOK' /\ Elsewhere
      /\ posted' = posted \union {<<"PACKAGE_ACTIVATION", d>>}
      /\ \A u \in Users : u # DepositUser[d] => Available(u)' = Available(u)
      /\ UNCHANGED eventDelta
  BY ActivateEffect
<1> HIDE DEF row
<1>5. SubscriptionTypeOK'
  BY <1>1, <1>2, <1>3 DEF SubscriptionTypeOK
<1>6. DepositChainInOrder' /\ PrincipalReturnedOnce'
  BY <1>1, <1>2, <1>3, <1>4 DEF SubscriptionTypeOK, DepositChainInOrder, PrincipalReturnedOnce
<1>7. ActivationOf(d)
  BY <1>1, <1>4 DEF ActivationOf
<1> QED BY <1>4, <1>5, <1>6, <1>7 DEF SubscriptionEffect

\* So have the steps in the life of a subscription up to its completion.
LEMMA LifeStep ==
  ASSUME FundsInv, UNCHANGED payoutVars, NEW s \in SubscriptionIds,
         \/ InitializeTrading(s)
         \/ CompleteTrading(s)
         \/ FinalizeCompletion(s)
         \/ CompleteLegacyReward(s)
  PROVE  SubscriptionEffect
<1> USE DEF FundsInv, DeskInv, DeskTypeOK
<1>1. CASE InitializeTrading(s) \/ CompleteTrading(s)
  <2>1. UNCHANGED <<ledgerVars, deposit, catalogue, tradingModel, v2Gate>>
    BY <1>1 DEF InitializeTrading, CompleteTrading
  <2>2. SubscriptionTypeOK'
    BY <1>1 DEF InitializeTrading, CompleteTrading, SubscriptionTypeOK, SubscriptionRows
  <2>3. \A t \in SubscriptionIds : /\ subscription'[t].status = subscription[t].status
                                   /\ subscription'[t].plan = subscription[t].plan
    BY <1>1 DEF InitializeTrading, CompleteTrading, SubscriptionTypeOK, SubscriptionRows
  <2>4. DepositChainInOrder' /\ PrincipalReturnedOnce'
    BY <2>1, <2>3 DEF ledgerVars, SubscriptionIds, DepositChainInOrder, PrincipalReturnedOnce
  <2> QED BY <2>1, <2>2, <2>4, LedgerKept DEF SubscriptionEffect
<1>2. CASE CompleteLegacyReward(s)
  <2>1. /\ UNCHANGED <<ledgerVars, deposit, catalogue, tradingModel, v2Gate>>
        /\ subscription[s].status = "ACTIVE"
        /\ subscription[s].plan.principal = "INCLUDED_IN_TOTAL_RETURN"
        /\ subscription' = [subscription EXCEPT ![s].status = "COMPLETED"]
    BY <1>2 DEF CompleteLegacyReward
  <2>2. SubscriptionTypeOK'
    BY <2>1 DEF SubscriptionTypeOK, SubscriptionRows
  <2>3. \A t \in SubscriptionIds :
          /\ subscription'[t].plan = subscription[t].plan
          /\ subscription'[t].status =
                IF t = s THEN "COMPLETED" ELSE subscription[t].status
    BY <2>1 DEF SubscriptionTypeOK, SubscriptionRows
  <2>4. DepositChainInOrder' /\ PrincipalReturnedOnce'
    BY <2>1, <2>3 DEF ledgerVars, SubscriptionIds, DepositChainInOrder, PrincipalReturnedOnce
  <2> QED BY <2>1, <2>2, <2>4, LedgerKept DEF SubscriptionEffect
<1>3. CASE FinalizeCompletion(s)
  <2>1. /\ subscription[s].status = "ACTIVE"
        /\ subscription' = [subscription EXCEPT ![s].status = "COMPLETED"]
        /\ UNCHANGED <<deposit, catalogue, tradingModel, v2Gate>>
    BY <1>3 DEF FinalizeCompletion
  <2>2. SubscriptionTypeOK'
    BY <2>1 DEF SubscriptionTypeOK, SubscriptionRows
  <2>3. \A t \in SubscriptionIds :
          /\ subscription'[t].plan = subscription[t].plan
          /\ subscription'[t].status =
                IF t = s THEN "COMPLETED" ELSE subscription[t].status
    BY <2>1 DEF SubscriptionTypeOK, SubscriptionRows
  <2>4. <<"PRINCIPAL_RETURN", s>> \notin posted
    BY <2>1 DEF PrincipalReturnedOnce
  <2>5. CASE subscription[s].plan.principal = "RETURN_SEPARATELY"
    <3>1. ReturnPrincipal(s)
      BY <1>3, <2>4, <2>5 DEF FinalizeCompletion
    <3>2. /\ LedgerTypeOK' /\ Elsewhere
          /\ posted' = posted \union {<<"PRINCIPAL_RETURN", s>>}
          /\ NotOverdrawn
          /\ UNCHANGED eventDelta
      BY <3>1, ReturnPrincipalEffect DEF NotOverdrawn
    <3>3. DepositChainInOrder' /\ PrincipalReturnedOnce'
      BY <2>1, <2>3, <2>5, <3>2
         DEF SubscriptionIds, DepositChainInOrder, PrincipalReturnedOnce
    <3> QED BY <2>2, <3>2, <3>3 DEF SubscriptionEffect
  <2>6. CASE subscription[s].plan.principal # "RETURN_SEPARATELY"
    <3>1. UNCHANGED ledgerVars
      BY <1>3, <2>6 DEF FinalizeCompletion
    <3>2. DepositChainInOrder' /\ PrincipalReturnedOnce'
      BY <2>1, <2>3, <2>6, <3>1
         DEF ledgerVars, SubscriptionIds, DepositChainInOrder, PrincipalReturnedOnce
    <3> QED BY <2>2, <3>1, <3>2, LedgerKept DEF SubscriptionEffect
  <2> QED BY <2>5, <2>6
<1> QED BY <1>1, <1>2, <1>3

\* Together: every step of the subscriptions has that effect.
LEMMA SubscriptionStep ==
  ASSUME FundsInv, SubscriptionNext, UNCHANGED payoutVars
  PROVE  SubscriptionEffect
BY ConfigurationStep, DepositStep, ActivationStep, LifeStep DEF SubscriptionNext

\* A reinvestment keeps the invariant and overdraws nobody.
LEMMA PurchaseStep ==
  ASSUME FundsInv, totalWalletOnly, PurchaseNext, UNCHANGED payoutVars
  PROVE  FundsInv' /\ Elsewhere /\ NotOverdrawn
<1> USE DEF FundsInv, DeskInv, DeskTypeOK
<1> PICK v \in Users, k \in PurchaseKeys, plan \in catalogue, amount \in PurchaseAmounts :
       Purchase(v, k, plan, amount)
  BY DEF PurchaseNext
<1> DEFINE s == <<"REINVESTMENT", <<v, k>>>>
           row == NewSubscription(plan, amount)
<1>1. /\ subscription[s].status = "NONE"
      /\ subscription' = [subscription EXCEPT ![s] = row]
      /\ UNCHANGED <<opened, deposit, catalogue, tradingModel, v2Gate>>
  BY DEF Purchase
<1>2. s \in SubscriptionIds
  BY DEF SubscriptionIds
<1>3. row \in SubscriptionRows(Plans \union {NoPlan}) /\ row.status = "ACTIVE"
  <2>1. plan \in Plans /\ amount \in Nat
    BY SubscriptionsAssumption DEF SubscriptionTypeOK
  <2> QED BY <2>1, NewRowTyped DEF NewSubscription
<1>4. /\ LedgerTypeOK' /\ Elsewhere
      /\ posted' = posted \union {s}
      /\ \A u \in Users : Available(u)' >= 0 \/ Available(u)' = Available(u)
  BY PurchaseEffect
<1>5. NotOverdrawn
  <2>1. \A u \in Users : Available(u) \in Int
    BY DEF LedgerTypeOK, Available, SourceBalance, Buckets
  <2> QED BY <1>4, <2>1 DEF NotOverdrawn
<1> HIDE DEF row
<1>6. SubscriptionTypeOK'
  BY <1>1, <1>2, <1>3 DEF SubscriptionTypeOK
<1>7. DepositChainInOrder' /\ PrincipalReturnedOnce'
  BY <1>1, <1>2, <1>3, <1>4 DEF SubscriptionTypeOK, DepositChainInOrder, PrincipalReturnedOnce
<1>8. TotalWalletUnusedBeforeRelease'
  BY DEF payoutVars, TotalWalletUnusedBeforeRelease
<1>9. DeskInv'
  BY <1>4, DeskInvElsewhere
<1> QED BY <1>4, <1>5, <1>6, <1>7, <1>8, <1>9

-----------------------------------------------------------------------------
(* A step of the desk posts no key of a subscription and overdraws nobody.  *)

\* A step of the payout desk leaves the keys of subscriptions alone, overdraws
\* nobody and uses the Total Wallet only after its release.
LEMMA DeskStepOnFunds ==
  ASSUME FundsInv, PayoutNext
  PROVE  SubscriptionKeysKept /\ NotOverdrawn /\ TotalWalletUnusedBeforeRelease'
<1> USE DEF FundsInv, DeskInv, DeskTypeOK
<1>0. \A u \in Users : Available(u) \in Int /\ (UNCHANGED ledgerVars => Available(u)' = Available(u))
  BY DEF ledgerVars, LedgerTypeOK, Available, SourceBalance, Buckets
<1>1. ASSUME NEW policy \in PayoutPolicies, PublishPolicy(policy)
      PROVE  SubscriptionKeysKept /\ NotOverdrawn /\ TotalWalletUnusedBeforeRelease'
  BY <1>0, <1>1 DEF PublishPolicy, ledgerVars, SubscriptionKeysKept, NotOverdrawn,
     TotalWalletUnusedBeforeRelease
<1>2. CASE ReleaseTotalWallet
  BY <1>0, <1>2 DEF ReleaseTotalWallet, ledgerVars, SubscriptionKeysKept, NotOverdrawn,
     TotalWalletUnusedBeforeRelease
<1>3. ASSUME NEW p \in Payouts, NEW source \in RequestSources, NEW gross \in Amounts,
             CreateRequest(p, source, gross)
      PROVE  SubscriptionKeysKept /\ NotOverdrawn /\ TotalWalletUnusedBeforeRelease'
  <2> DEFINE u == Owner(p)
  <2>1. /\ payout[p].status = "NONE"
        /\ Reserve(p, source, gross)
        /\ UNCHANGED totalWalletOnly
        /\ \A q \in Payouts \ {p} : payout'[q] = payout[q]
        /\ payout'[p].source = source
    BY <1>3 DEF CreateRequest, PayoutTypeOK
  <2>2. /\ source \in Sources /\ gross \in Nat /\ u \in Users
        /\ ~ totalWalletOnly => source \in Buckets
        /\ ~ Reserved(p)
    BY <2>1, PayoutsAssumption
       DEF RequestSources, Sources, Owner, Payouts, LedgerMatchesStatus
  <2>3. CASE source = "TOTAL_WALLET"
    <3>1. /\ Available(u) >= gross
          /\ posted' = posted \union {<<"PAYOUT_RESERVE", p>>}
          /\ component' = component
          /\ eventDelta' = [eventDelta EXCEPT ![u] = @ - gross]
      BY <2>1, <2>2, <2>3 DEF Reserve, Once, Reserved, Post
    <3>2. SubscriptionKeysKept
      BY <3>1 DEF SubscriptionKeysKept
    <3>3. NotOverdrawn
      BY <2>2, <3>1 DEF NotOverdrawn, LedgerTypeOK, Available, SourceBalance, Buckets
    <3>4. totalWalletOnly'
      BY <2>1, <2>2, <2>3 DEF Buckets
    <3> QED BY <3>2, <3>3, <3>4 DEF TotalWalletUnusedBeforeRelease
  <2>4. CASE source # "TOTAL_WALLET"
    <3>1. /\ posted' = posted \union {<<"PAYOUT_RESERVE", p>>}
          /\ component' = [component EXCEPT ![u][source] = @ - gross]
          /\ eventDelta' = eventDelta
      BY <2>1, <2>2, <2>4 DEF Reserve, Once, Reserved, Post
    <3>2. SubscriptionKeysKept
      BY <3>1 DEF SubscriptionKeysKept
    <3>3. ~ totalWalletOnly
      BY <2>4, <1>3 DEF RequestSources
    <3>4. \A v \in Users : eventDelta'[v] = 0
      BY <3>1, <3>3 DEF TotalWalletUnusedBeforeRelease
    <3>5. LedgerTypeOK'
      BY <2>1, <2>2, ReserveEffect
    <3>6. NotOverdrawn
      BY <3>4, <3>5 DEF NotOverdrawn, LedgerTypeOK, Available, SourceBalance, Buckets
    <3>7. TotalWalletUnusedBeforeRelease'
      BY <2>1, <2>2, <3>4 DEF TotalWalletUnusedBeforeRelease
    <3> QED BY <3>2, <3>6, <3>7
  <2> QED BY <2>3, <2>4
<1>4. ASSUME NEW p \in Payouts, Approve(p) \/ \E txid \in Txids : SubmitExternalTxid(p, txid)
      PROVE  SubscriptionKeysKept /\ NotOverdrawn /\ TotalWalletUnusedBeforeRelease'
  <2>1. /\ UNCHANGED <<ledgerVars, totalWalletOnly>>
        /\ payout[p].status # "NONE"
        /\ \A q \in Payouts : /\ payout'[q].source = payout[q].source
                              /\ payout'[q].status # "NONE" => payout[q].status # "NONE"
    BY <1>4 DEF Approve, SubmitExternalTxid, PayoutTypeOK, PayoutRows
  <2> QED BY <1>0, <2>1 DEF ledgerVars, SubscriptionKeysKept, NotOverdrawn,
             TotalWalletUnusedBeforeRelease
<1>5. ASSUME NEW p \in Payouts, Reject(p)
      PROVE  SubscriptionKeysKept /\ NotOverdrawn /\ TotalWalletUnusedBeforeRelease'
  <2> DEFINE u == Owner(p)
  <2>1. /\ Release(p)
        /\ UNCHANGED totalWalletOnly
        /\ payout[p].status # "NONE"
        /\ \A q \in Payouts : /\ payout'[q].source = payout[q].source
                              /\ payout'[q].status # "NONE" => payout[q].status # "NONE"
    BY <1>5 DEF Reject, PayoutTypeOK, PayoutRows
  <2>2. /\ payout[p].source \in Sources /\ payout[p].gross \in Nat /\ u \in Users
        /\ ~ Released(p)
    BY <1>5 DEF PayoutTypeOK, PayoutRows, Owner, Payouts, LedgerMatchesStatus, Reject
  <2>3. CASE payout[p].source = "TOTAL_WALLET"
    <3>1. /\ posted' = posted \union {<<"PAYOUT_RELEASE", p>>}
          /\ component' = component
          /\ eventDelta' = [eventDelta EXCEPT ![u] = @ + payout[p].gross]
      BY <2>1, <2>2, <2>3 DEF Release, Once, Released, Post
    <3>2. SubscriptionKeysKept
      BY <3>1 DEF SubscriptionKeysKept
    <3>3. NotOverdrawn
      BY <2>2, <3>1 DEF NotOverdrawn, LedgerTypeOK, Available, SourceBalance, Buckets
    <3>4. totalWalletOnly'
      BY <2>1, <2>3 DEF TotalWalletUnusedBeforeRelease, Buckets
    <3> QED BY <3>2, <3>3, <3>4 DEF TotalWalletUnusedBeforeRelease
  <2>4. CASE payout[p].source # "TOTAL_WALLET"
    <3>1. /\ posted' = posted \union {<<"PAYOUT_RELEASE", p>>}
          /\ component' = [component EXCEPT ![u][payout[p].source] = @ + payout[p].gross]
          /\ eventDelta' = eventDelta
      BY <2>1, <2>2, <2>4 DEF Release, Once, Released, Post
    <3>2. SubscriptionKeysKept
      BY <3>1 DEF SubscriptionKeysKept
    <3>3. NotOverdrawn
      <4>1. payout[p].source \in Buckets
        BY <2>2, <2>4 DEF Sources
      <4> QED BY <2>2, <3>1, <4>1
              DEF NotOverdrawn, LedgerTypeOK, Available, SourceBalance, Buckets
    <3>4. TotalWalletUnusedBeforeRelease'
      BY <2>1, <3>1 DEF TotalWalletUnusedBeforeRelease
    <3> QED BY <3>2, <3>3, <3>4
  <2> QED BY <2>3, <2>4
<1>6. ASSUME NEW p \in Payouts, Complete(p)
      PROVE  SubscriptionKeysKept /\ NotOverdrawn /\ TotalWalletUnusedBeforeRelease'
  <2>1. /\ Settle(p)
        /\ ~ Settled(p)
        /\ UNCHANGED totalWalletOnly
        /\ \A q \in Payouts : /\ payout'[q].source = payout[q].source
                              /\ payout'[q].status # "NONE" => payout[q].status # "NONE"
    BY <1>6 DEF Complete, PayoutTypeOK, PayoutRows, LedgerMatchesStatus
  <2>2. /\ posted' = posted \union {<<"PAYOUT_SETTLEMENT", p>>}
        /\ component' = component
        /\ eventDelta' = eventDelta
    BY <2>1 DEF Settle, Once, Settled, Post
  <2>3. \A u \in Users : Available(u)' = Available(u)
    BY <2>2 DEF Available, SourceBalance
  <2> QED BY <1>0, <2>1, <2>2, <2>3
          DEF SubscriptionKeysKept, NotOverdrawn, TotalWalletUnusedBeforeRelease
<1> QED BY <1>1, <1>2, <1>3, <1>4, <1>5, <1>6 DEF PayoutNext

-----------------------------------------------------------------------------
(* The whole system.                                                        *)

EarningStep(e) == PostEarning(e) /\ UNCHANGED <<payoutVars, subscriptionVars>>

\* An earning keeps the invariant and overdraws nobody.
LEMMA EarningStepOnFunds ==
  ASSUME FundsInv, NEW e \in Earnings, EarningStep(e)
  PROVE  FundsInv' /\ Elsewhere /\ NotOverdrawn
<1> USE DEF FundsInv, DeskInv, DeskTypeOK
<1> DEFINE u == EarningUser[e]
           b == EarningBucket[e]
           n == EarningAmount[e]
<1>1. LedgerTypeOK' /\ Elsewhere /\ UNCHANGED payoutVars /\ UNCHANGED subscriptionVars
  BY EarningEffect DEF EarningStep
<1>2. u \in Users /\ b \in Buckets /\ n \in Nat
  BY EarningsAssumption DEF EarningBuckets
<1>3. /\ posted' = posted \union {<<"EARNING", e>>}
      /\ component' = [component EXCEPT ![u][b] = @ + n]
      /\ eventDelta' = eventDelta
  BY DEF EarningStep, PostEarning, Post
<1>4. NotOverdrawn
  BY <1>2, <1>3 DEF NotOverdrawn, LedgerTypeOK, Available, SourceBalance, Buckets
<1>5. DepositChainInOrder' /\ PrincipalReturnedOnce' /\ SubscriptionTypeOK'
  BY <1>1, <1>3 DEF subscriptionVars, DepositChainInOrder, PrincipalReturnedOnce,
     SubscriptionTypeOK
<1>6. TotalWalletUnusedBeforeRelease'
  BY <1>1, <1>3 DEF payoutVars, TotalWalletUnusedBeforeRelease
<1>7. DeskInv'
  BY <1>1, DeskInvElsewhere
<1> QED BY <1>1, <1>4, <1>5, <1>6, <1>7

\* Every step keeps the invariant; for the desk it is a step of its own or one
\* elsewhere; and it overdraws nobody unless it activates a deposit.
LEMMA FundsStep ==
  ASSUME FundsInv, FundsNext
  PROVE  /\ FundsInv'
         /\ PayoutNext \/ Elsewhere
         /\ NotOverdrawn \/ \E d \in Deposits : ActivationOf(d)
<1>1. CASE PayoutNext /\ UNCHANGED subscriptionVars
  <2>1. DeskInv'
    BY <1>1, DeskInvStep DEF FundsInv
  <2>2. SubscriptionKeysKept /\ NotOverdrawn /\ TotalWalletUnusedBeforeRelease'
    BY <1>1, DeskStepOnFunds
  <2>3. SubscriptionTypeOK' /\ DepositChainInOrder' /\ PrincipalReturnedOnce'
    BY <1>1, <2>2 DEF FundsInv, subscriptionVars, SubscriptionKeysKept,
       SubscriptionTypeOK, DepositChainInOrder, PrincipalReturnedOnce
  <2> QED BY <1>1, <2>1, <2>2, <2>3 DEF FundsInv
<1>2. CASE SubscriptionNext /\ UNCHANGED payoutVars
  <2>1. SubscriptionEffect
    BY <1>2, SubscriptionStep
  <2>2. DeskInv'
    BY <2>1, DeskInvElsewhere DEF FundsInv, SubscriptionEffect
  <2>3. TotalWalletUnusedBeforeRelease'
    BY <1>2, <2>1 DEF FundsInv, SubscriptionEffect, payoutVars,
       TotalWalletUnusedBeforeRelease
  <2> QED BY <2>1, <2>2, <2>3 DEF FundsInv, SubscriptionEffect
<1>3. CASE totalWalletOnly /\ PurchaseNext /\ UNCHANGED payoutVars
  BY <1>3, PurchaseStep
<1>4. ASSUME NEW e \in Earnings, EarningStep(e)
      PROVE  FundsInv' /\ Elsewhere /\ NotOverdrawn
  BY <1>4, EarningStepOnFunds
<1> QED BY <1>1, <1>2, <1>3, <1>4 DEF FundsNext, EarningStep

\* A stuttering step changes nothing that matters.
LEMMA FundsStutter ==
  ASSUME UNCHANGED fundsVars
  PROVE  /\ FundsInv => FundsInv'
         /\ UNCHANGED <<payoutVars, ledgerVars>>
<1> USE DEF fundsVars, ledgerVars, payoutVars, subscriptionVars
<1>1. UNCHANGED <<component, opened, eventDelta, system, posted, payout, payoutPolicy,
                  totalWalletOnly, deposit, subscription, catalogue, tradingModel, v2Gate>>
  OBVIOUS
<1>2. DeskInv => DeskInv'
  BY <1>1 DEF DeskInv, DeskTypeOK, LedgerTypeOK, PayoutTypeOK, LedgerMatchesStatus,
     QuotesAddUp, GrossOfReserved, Reserved, Released, Settled
<1> QED BY <1>1, <1>2 DEF FundsInv, SubscriptionTypeOK, DepositChainInOrder,
           PrincipalReturnedOnce, TotalWalletUnusedBeforeRelease

\* The invariant holds on the empty platform.
LEMMA FundsInitially == FundsInit => FundsInv
<1> SUFFICES ASSUME FundsInit PROVE FundsInv
  OBVIOUS
<1>1. DeskInv
  BY DeskInvInit DEF FundsInit
<1>2. NoSubscription \in SubscriptionRows(Plans \union {NoPlan})
  BY DEF NoSubscription, SubscriptionRows
<1>3. SubscriptionTypeOK
  BY <1>2 DEF FundsInit, SubscriptionInit, SubscriptionTypeOK
<1>4. DepositChainInOrder /\ PrincipalReturnedOnce
  BY DEF FundsInit, LedgerInit, SubscriptionInit, NoSubscription, SubscriptionIds,
     DepositChainInOrder, PrincipalReturnedOnce
<1>5. TotalWalletUnusedBeforeRelease
  BY DEF FundsInit, LedgerInit, PayoutInit, NoRow, TotalWalletUnusedBeforeRelease
<1> QED BY <1>1, <1>3, <1>4, <1>5 DEF FundsInv

\* The inductive invariant of the funds system.
THEOREM FundsInvariant == FundsSpec => []FundsInv
<1>1. FundsInv /\ [FundsNext]_fundsVars => FundsInv'
  BY FundsStep, FundsStutter
<1> QED BY FundsInitially, <1>1, PTL DEF FundsSpec

\* No account and no recorded amount ever leaves the naturals, whatever
\* handlers of the desk and of the subscriptions run in whatever order.
THEOREM FundsTyped == FundsSpec => []FundsTypeOK
<1>1. FundsInv => FundsTypeOK
  BY DEF FundsInv, DeskInv, DeskTypeOK, FundsTypeOK
<1> QED BY <1>1, FundsInvariant, PTL

\* Packages and other engines do not disturb the agreement of payout rows and
\* payout transactions.
THEOREM FundsLedgerMatches == FundsSpec => []LedgerMatchesStatus
<1>1. FundsInv => LedgerMatchesStatus
  BY DEF FundsInv, DeskInv
<1> QED BY <1>1, FundsInvariant, PTL

\* Approval, accounting and activation of a deposit happen in that order and
\* at most once each.
THEOREM FundsDepositChain == FundsSpec => []DepositChainInOrder
<1>1. FundsInv => DepositChainInOrder
  BY DEF FundsInv
<1> QED BY <1>1, FundsInvariant, PTL

\* Principal is returned exactly once, with the completion of the package.
THEOREM FundsPrincipalOnce == FundsSpec => []PrincipalReturnedOnce
<1>1. FundsInv => PrincipalReturnedOnce
  BY DEF FundsInv
<1> QED BY <1>1, FundsInvariant, PTL

\* Only the activation of a deposit can take a Total Wallet below zero.
THEOREM FundsOverdraft == FundsSpec => OnlyActivationOverdraws
<1> DEFINE Overdraft ==
      \A u \in Users :
        Available(u)' < Available(u) /\ Available(u)' < 0 =>
          \E d \in Deposits :
            /\ DepositUser[d] = u
            /\ <<"PACKAGE_ACTIVATION", d>> \in posted' \ posted
<1>1. FundsInv /\ [FundsNext]_fundsVars => [Overdraft]_fundsVars
  <2> SUFFICES ASSUME FundsInv, FundsNext, NEW u \in Users,
                      Available(u)' < Available(u), Available(u)' < 0
               PROVE  \E d \in Deposits :
                        /\ DepositUser[d] = u
                        /\ <<"PACKAGE_ACTIVATION", d>> \in posted' \ posted
    OBVIOUS
  <2>1. Available(u) \in Int /\ Available(u)' \in Int
    <3>1. LedgerTypeOK /\ LedgerTypeOK'
      BY FundsStep DEF FundsInv, DeskInv, DeskTypeOK
    <3> QED BY <3>1 DEF LedgerTypeOK, Available, SourceBalance, Buckets
  <2>2. ~ NotOverdrawn
    BY <2>1 DEF NotOverdrawn
  <2>3. PICK d \in Deposits : ActivationOf(d)
    BY <2>2, FundsStep
  <2>4. u = DepositUser[d]
    BY <2>1, <2>3 DEF ActivationOf
  <2> QED BY <2>3, <2>4 DEF ActivationOf
<1> QED BY <1>1, FundsInvariant, PTL DEF FundsSpec, OnlyActivationOverdraws

\* Inside the whole system, too, the desk implements custody.
THEOREM FundsImplementCustody == FundsSpec => PayoutCustodyHolds
<1>1. FundsInit => Custody!CustodyInit
  BY CustodyInitially DEF FundsInit
<1>2. FundsInv /\ [FundsNext]_fundsVars => [Custody!CustodyNext]_Custody!custodyVars
  <2>1. FundsInv /\ FundsNext => [Custody!CustodyNext]_Custody!custodyVars
    BY FundsStep, CustodyStep, CustodyElsewhere DEF FundsInv
  <2>2. UNCHANGED fundsVars => UNCHANGED Custody!custodyVars
    BY FundsStutter DEF payoutVars, ledgerVars, Custody!custodyVars,
       Reserved, Released, Settled
  <2> QED BY <2>1, <2>2
<1> QED BY <1>1, <1>2, FundsInvariant, PTL
        DEF FundsSpec, PayoutCustodyHolds, Custody!CustodySpec

-----------------------------------------------------------------------------
(* The books.  A sum over the rows of a table changes by what the one row   *)
(* that a step writes contributes, so each lemma below is about one table.  *)

\* Money is on a subscription row only from its creation on.
PrincipalNeedsRow ==
  \A s \in SubscriptionIds : subscription[s].status = "NONE" => subscription[s].principal = 0

Books ==
  /\ TrialBalance
  /\ PayoutAccountsMatchRows
  /\ ControlMirrorsWallets
  /\ EventsAreSpending
  /\ PrincipalBacksPackages
  /\ PaidPackagesStayFunded
  /\ PrincipalNeedsRow

ContributionsTyped ==
  /\ BucketTotals \in [Users -> Int] /\ eventDelta \in [Users -> Int]
  /\ GrossHeld \in [Payouts -> Nat]
  /\ NetPaid \in [Payouts -> Nat]
  /\ FeeKept \in [Payouts -> Nat]
  /\ PrincipalHeld \in [SubscriptionIds -> Nat]
  /\ \A u \in Users : /\ SpentOnPayouts(u) \in [Payouts -> Nat]
                      /\ SpentOnPackages(u) \in [SubscriptionIds -> Nat]
                      /\ AwaitingActivation(u) \in [Deposits -> Nat]

SumsTyped ==
  /\ SumFunction(BucketTotals) \in Int /\ SumFunction(eventDelta) \in Int
  /\ SumFunction(GrossHeld) \in Int
  /\ SumFunction(NetPaid) \in Int
  /\ SumFunction(FeeKept) \in Int
  /\ SumFunction(PrincipalHeld) \in Int
  /\ \A u \in Users : /\ SumFunction(SpentOnPayouts(u)) \in Int
                      /\ SumFunction(SpentOnPackages(u)) \in Int
                      /\ SumFunction(AwaitingActivation(u)) \in Int

\* The tables are finite.
LEMMA TablesFinite ==
  /\ IsFiniteSet(Users) /\ IsFiniteSet(Payouts)
  /\ IsFiniteSet(Deposits) /\ IsFiniteSet(SubscriptionIds)
<1>1. IsFiniteSet({"DEPOSIT"}) /\ IsFiniteSet({"REINVESTMENT"})
  BY FS_Singleton
<1>2. IsFiniteSet(Users \X PurchaseKeys) /\ IsFiniteSet(Payouts)
  BY FiniteTables, FS_Product DEF Payouts
<1>3. /\ IsFiniteSet({"DEPOSIT"} \X Deposits)
      /\ IsFiniteSet({"REINVESTMENT"} \X (Users \X PurchaseKeys))
  BY <1>1, <1>2, FiniteTables, FS_Product
<1>4. IsFiniteSet(SubscriptionIds)
  BY <1>3, FS_Union DEF SubscriptionIds
<1> QED BY <1>2, <1>4, FiniteTables

\* What a row contributes to an account is an amount, before and after a step.
LEMMA ContributionsAreAmounts ==
  /\ FundsTypeOK => ContributionsTyped
  /\ FundsTypeOK' => ContributionsTyped'
<1>1. \A d \in Deposits : DepositAmount[d] \in Nat
  BY SubscriptionsAssumption
<1>2. FundsTypeOK => ContributionsTyped
  BY <1>1 DEF FundsTypeOK, LedgerTypeOK, PayoutTypeOK, SubscriptionTypeOK, PayoutRows,
     SubscriptionRows, Buckets, SourceBalance, ContributionsTyped, BucketTotals,
     GrossHeld, NetPaid, FeeKept, PrincipalHeld, SpentOnPayouts, SpentOnPackages,
     AwaitingActivation
<1>3. FundsTypeOK' => ContributionsTyped'
  BY <1>1 DEF FundsTypeOK, LedgerTypeOK, PayoutTypeOK, SubscriptionTypeOK, PayoutRows,
     SubscriptionRows, Buckets, SourceBalance, ContributionsTyped, BucketTotals,
     GrossHeld, NetPaid, FeeKept, PrincipalHeld, SpentOnPayouts, SpentOnPackages,
     AwaitingActivation
<1> QED BY <1>2, <1>3

\* So the sums are integers.
LEMMA SumsAreIntegers ==
  /\ FundsTypeOK => SumsTyped
  /\ FundsTypeOK' => SumsTyped'
<1>1. \A S : \A f \in [S -> Nat] : f \in [S -> Int]
  OBVIOUS
<1>2. ContributionsTyped => SumsTyped
  BY <1>1, TablesFinite, TotalInt DEF ContributionsTyped, SumsTyped
<1>3. ContributionsTyped' => SumsTyped'
  BY <1>1, TablesFinite, TotalInt DEF ContributionsTyped, SumsTyped
<1> QED BY <1>2, <1>3, ContributionsAreAmounts

\* A step that writes one payout row.
LEMMA PayoutRowChange ==
  ASSUME FundsTypeOK, FundsTypeOK', NEW p \in Payouts,
         \A q \in Payouts \ {p} : payout'[q] = payout[q]
  PROVE  /\ SumFunction(GrossHeld') = SumFunction(GrossHeld) + GrossHeld'[p] - GrossHeld[p]
         /\ SumFunction(NetPaid') = SumFunction(NetPaid) + NetPaid'[p] - NetPaid[p]
         /\ SumFunction(FeeKept') = SumFunction(FeeKept) + FeeKept'[p] - FeeKept[p]
         /\ \A u \in Users :
              SumFunction(SpentOnPayouts(u)') =
                SumFunction(SpentOnPayouts(u)) + SpentOnPayouts(u)'[p] - SpentOnPayouts(u)[p]
<1>1. ContributionsTyped /\ ContributionsTyped'
  BY ContributionsAreAmounts
<1>2. /\ \A q \in Payouts \ {p} : GrossHeld'[q] = GrossHeld[q]
      /\ \A q \in Payouts \ {p} : NetPaid'[q] = NetPaid[q]
      /\ \A q \in Payouts \ {p} : FeeKept'[q] = FeeKept[q]
      /\ \A u \in Users, q \in Payouts \ {p} : SpentOnPayouts(u)'[q] = SpentOnPayouts(u)[q]
  BY DEF GrossHeld, NetPaid, FeeKept, SpentOnPayouts
<1>3. \A f \in [Payouts -> Nat] : f \in [Payouts -> Int]
  OBVIOUS
<1>4. \A f, g \in [Payouts -> Nat] :
        (\A q \in Payouts \ {p} : g[q] = f[q]) => SumFunction(g) = SumFunction(f) + g[p] - f[p]
  BY <1>3, TablesFinite, TotalChange
<1>5. SumFunction(GrossHeld') = SumFunction(GrossHeld) + GrossHeld'[p] - GrossHeld[p]
  BY <1>1, <1>2, <1>4 DEF ContributionsTyped
<1>6. SumFunction(NetPaid') = SumFunction(NetPaid) + NetPaid'[p] - NetPaid[p]
  BY <1>1, <1>2, <1>4 DEF ContributionsTyped
<1>7. SumFunction(FeeKept') = SumFunction(FeeKept) + FeeKept'[p] - FeeKept[p]
  BY <1>1, <1>2, <1>4 DEF ContributionsTyped
<1>8. ASSUME NEW u \in Users
      PROVE  SumFunction(SpentOnPayouts(u)') =
               SumFunction(SpentOnPayouts(u)) + SpentOnPayouts(u)'[p] - SpentOnPayouts(u)[p]
  BY <1>1, <1>2, <1>4 DEF ContributionsTyped
<1> QED BY <1>5, <1>6, <1>7, <1>8

\* A step that writes one subscription row, or returns its principal.
LEMMA SubscriptionRowChange ==
  ASSUME FundsTypeOK, FundsTypeOK', NEW s \in SubscriptionIds,
         \A t \in SubscriptionIds \ {s} :
           /\ subscription'[t].principal = subscription[t].principal
           /\ <<"PRINCIPAL_RETURN", t>> \in posted' <=> <<"PRINCIPAL_RETURN", t>> \in posted
  PROVE  /\ SumFunction(PrincipalHeld') =
              SumFunction(PrincipalHeld) + PrincipalHeld'[s] - PrincipalHeld[s]
         /\ \A u \in Users :
              SumFunction(SpentOnPackages(u)') =
                SumFunction(SpentOnPackages(u)) + SpentOnPackages(u)'[s] - SpentOnPackages(u)[s]
<1>1. ContributionsTyped /\ ContributionsTyped'
  BY ContributionsAreAmounts
<1>2. /\ \A t \in SubscriptionIds \ {s} : PrincipalHeld'[t] = PrincipalHeld[t]
      /\ \A u \in Users, t \in SubscriptionIds \ {s} : SpentOnPackages(u)'[t] = SpentOnPackages(u)[t]
  BY DEF PrincipalHeld, SpentOnPackages
<1>3. \A f \in [SubscriptionIds -> Nat] : f \in [SubscriptionIds -> Int]
  OBVIOUS
<1>4. \A f, g \in [SubscriptionIds -> Nat] :
        (\A t \in SubscriptionIds \ {s} : g[t] = f[t])
          => SumFunction(g) = SumFunction(f) + g[s] - f[s]
  BY <1>3, TablesFinite, TotalChange
<1>5. SumFunction(PrincipalHeld') =
        SumFunction(PrincipalHeld) + PrincipalHeld'[s] - PrincipalHeld[s]
  BY <1>1, <1>2, <1>4 DEF ContributionsTyped
<1>6. ASSUME NEW u \in Users
      PROVE  SumFunction(SpentOnPackages(u)') =
               SumFunction(SpentOnPackages(u)) + SpentOnPackages(u)'[s] - SpentOnPackages(u)[s]
  BY <1>1, <1>2, <1>4 DEF ContributionsTyped
<1> QED BY <1>5, <1>6

\* A step that posts a key of one deposit.
LEMMA DepositKeyChange ==
  ASSUME FundsTypeOK, FundsTypeOK', NEW d \in Deposits, NEW u \in Users,
         \A c \in Deposits \ {d} :
           /\ <<"DEPOSIT_CREDIT", c>> \in posted' <=> <<"DEPOSIT_CREDIT", c>> \in posted
           /\ <<"PACKAGE_ACTIVATION", c>> \in posted'
                <=> <<"PACKAGE_ACTIVATION", c>> \in posted
  PROVE  SumFunction(AwaitingActivation(u)') =
           SumFunction(AwaitingActivation(u))
             + AwaitingActivation(u)'[d] - AwaitingActivation(u)[d]
<1>1. ContributionsTyped /\ ContributionsTyped'
  BY ContributionsAreAmounts
<1>2. \A c \in Deposits \ {d} : AwaitingActivation(u)'[c] = AwaitingActivation(u)[c]
  BY DEF AwaitingActivation
<1>3. \A f \in [Deposits -> Nat] : f \in [Deposits -> Int]
  OBVIOUS
<1>4. \A f, g \in [Deposits -> Nat] :
        (\A c \in Deposits \ {d} : g[c] = f[c]) => SumFunction(g) = SumFunction(f) + g[d] - f[d]
  BY <1>3, TablesFinite, TotalChange
<1> QED BY <1>1, <1>2, <1>4 DEF ContributionsTyped

\* A step that moves n into one bucket of one user, or out of it when n is
\* negative.
LEMMA BucketMove ==
  ASSUME FundsTypeOK, FundsTypeOK', NEW u \in Users, NEW b \in Buckets, NEW n \in Int,
         \A v \in Users, c \in Buckets :
           component'[v][c] = component[v][c] + (IF v = u /\ c = b THEN n ELSE 0)
  PROVE  SumFunction(BucketTotals') = SumFunction(BucketTotals) + n
<1>1. ContributionsTyped /\ ContributionsTyped'
  BY ContributionsAreAmounts
<1>2. \A f, g \in [Users -> Int] :
        (\A v \in Users \ {u} : g[v] = f[v]) => SumFunction(g) = SumFunction(f) + g[u] - f[u]
  BY TablesFinite, TotalChange
<1>3. /\ \A v \in Users \ {u} : BucketTotals'[v] = BucketTotals[v]
      /\ BucketTotals'[u] = BucketTotals[u] + n
      /\ BucketTotals[u] \in Int
  BY DEF FundsTypeOK, LedgerTypeOK, BucketTotals, SourceBalance, Buckets
<1>4. SumFunction(BucketTotals') = SumFunction(BucketTotals) + BucketTotals'[u] - BucketTotals[u]
  BY <1>1, <1>2, <1>3 DEF ContributionsTyped
<1>5. SumFunction(BucketTotals) \in Int
  BY SumsAreIntegers DEF SumsTyped
<1> QED BY <1>3, <1>4, <1>5

\* A step that records an event of n for one user.
LEMMA EventMove ==
  ASSUME FundsTypeOK, FundsTypeOK', NEW u \in Users, NEW n \in Int,
         \A v \in Users : eventDelta'[v] = eventDelta[v] + (IF v = u THEN n ELSE 0)
  PROVE  SumFunction(eventDelta') = SumFunction(eventDelta) + n
<1>1. eventDelta \in [Users -> Int] /\ eventDelta' \in [Users -> Int]
  BY DEF FundsTypeOK, LedgerTypeOK
<1>2. \A v \in Users \ {u} : eventDelta'[v] = eventDelta[v]
  BY <1>1
<1>3. SumFunction(eventDelta') = SumFunction(eventDelta) + eventDelta'[u] - eventDelta[u]
  BY <1>1, <1>2, TablesFinite, TotalChange
<1>4. SumFunction(eventDelta) \in Int
  BY SumsAreIntegers DEF SumsTyped
<1> QED BY <1>1, <1>3, <1>4

ReturnsKept ==
  \A s \in SubscriptionIds :
    <<"PRINCIPAL_RETURN", s>> \in posted' <=> <<"PRINCIPAL_RETURN", s>> \in posted

DepositKeysKept ==
  \A d \in Deposits :
    /\ <<"DEPOSIT_CREDIT", d>> \in posted' <=> <<"DEPOSIT_CREDIT", d>> \in posted
    /\ <<"PACKAGE_ACTIVATION", d>> \in posted' <=> <<"PACKAGE_ACTIVATION", d>> \in posted

PrincipalsKept ==
  \A s \in SubscriptionIds : subscription'[s].principal = subscription[s].principal

\* Tables that a step does not write keep their sums.
LEMMA TablesKept ==
  /\ UNCHANGED component => SumFunction(BucketTotals') = SumFunction(BucketTotals)
  /\ UNCHANGED payout =>
       /\ SumFunction(GrossHeld') = SumFunction(GrossHeld)
       /\ SumFunction(NetPaid') = SumFunction(NetPaid)
       /\ SumFunction(FeeKept') = SumFunction(FeeKept)
       /\ \A u \in Users : SumFunction(SpentOnPayouts(u)') = SumFunction(SpentOnPayouts(u))
  /\ UNCHANGED subscription => PrincipalsKept
  /\ SubscriptionKeysKept => ReturnsKept /\ DepositKeysKept
  /\ PrincipalsKept =>
       \A u \in Users : SumFunction(SpentOnPackages(u)') = SumFunction(SpentOnPackages(u))
  /\ PrincipalsKept /\ ReturnsKept => SumFunction(PrincipalHeld') = SumFunction(PrincipalHeld)
  /\ DepositKeysKept =>
       \A u \in Users :
         SumFunction(AwaitingActivation(u)') = SumFunction(AwaitingActivation(u))
<1>1. UNCHANGED component => BucketTotals' = BucketTotals
  BY DEF BucketTotals, SourceBalance
<1>2. UNCHANGED payout =>
        /\ GrossHeld' = GrossHeld /\ NetPaid' = NetPaid /\ FeeKept' = FeeKept
        /\ \A u \in Users : SpentOnPayouts(u)' = SpentOnPayouts(u)
  BY DEF GrossHeld, NetPaid, FeeKept, SpentOnPayouts
<1>3. PrincipalsKept => \A u \in Users : SpentOnPackages(u)' = SpentOnPackages(u)
  BY DEF PrincipalsKept, SpentOnPackages
<1>4. PrincipalsKept /\ ReturnsKept => PrincipalHeld' = PrincipalHeld
  BY DEF PrincipalsKept, ReturnsKept, PrincipalHeld
<1>5. DepositKeysKept => \A u \in Users : AwaitingActivation(u)' = AwaitingActivation(u)
  BY DEF DepositKeysKept, AwaitingActivation
<1>6. /\ UNCHANGED subscription => PrincipalsKept
      /\ SubscriptionKeysKept => ReturnsKept /\ DepositKeysKept
  BY DEF PrincipalsKept, SubscriptionKeysKept, ReturnsKept, DepositKeysKept
<1> QED BY <1>1, <1>2, <1>3, <1>4, <1>5, <1>6

-----------------------------------------------------------------------------
(* What each step does to the books.                                        *)

\* A request is created: its gross amount moves into the reserve, from the
\* Total Wallet or, before that release, from the bucket it names.
LEMMA CreateRequestBooks ==
  ASSUME FundsInv, FundsTypeOK', Books, UNCHANGED subscriptionVars, SubscriptionKeysKept,
         NEW p \in Payouts, NEW source \in RequestSources, NEW gross \in Amounts,
         CreateRequest(p, source, gross)
  PROVE  Books'
<1> USE DEF FundsInv, DeskInv, DeskTypeOK
<1> DEFINE u == Owner(p)
           wallet == source = "TOTAL_WALLET"
<1>1. /\ payout[p].status = "NONE"
      /\ Reserve(p, source, gross)
      /\ \A q \in Payouts \ {p} : payout'[q] = payout[q]
      /\ payout'[p].source = source
      /\ payout'[p].status = "PENDING_REVIEW"
      /\ payout'[p].gross = gross
  BY DEF CreateRequest, PayoutTypeOK
<1>2. /\ u \in Users /\ gross \in Nat /\ ~ Reserved(p) /\ FundsTypeOK
      /\ ~ wallet => source \in LegacySources /\ source \in Buckets
  BY <1>1, PayoutsAssumption
     DEF Owner, Payouts, LedgerMatchesStatus, FundsTypeOK, RequestSources
<1>3. SumsTyped
  BY <1>2, SumsAreIntegers
<1>4. /\ SumFunction(GrossHeld') = SumFunction(GrossHeld) + gross
      /\ SumFunction(NetPaid') = SumFunction(NetPaid)
      /\ SumFunction(FeeKept') = SumFunction(FeeKept)
      /\ \A v \in Users :
           SumFunction(SpentOnPayouts(v)') =
             SumFunction(SpentOnPayouts(v)) + (IF v = u /\ wallet THEN gross ELSE 0)
  <2>1. /\ GrossHeld[p] = 0 /\ GrossHeld'[p] = gross
        /\ NetPaid[p] = 0 /\ NetPaid'[p] = 0
        /\ FeeKept[p] = 0 /\ FeeKept'[p] = 0
        /\ \A v \in Users :
             /\ SpentOnPayouts(v)[p] = 0
             /\ SpentOnPayouts(v)'[p] = IF v = u /\ wallet THEN gross ELSE 0
    BY <1>1 DEF GrossHeld, NetPaid, FeeKept, SpentOnPayouts, OpenStatuses
  <2> HIDE DEF u, wallet
  <2> QED BY <1>1, <1>2, <1>3, <2>1, PayoutRowChange DEF SumsTyped
<1>5. /\ \A v \in Users : SumFunction(SpentOnPackages(v)') = SumFunction(SpentOnPackages(v))
      /\ SumFunction(PrincipalHeld') = SumFunction(PrincipalHeld)
      /\ \A v \in Users :
           SumFunction(AwaitingActivation(v)') = SumFunction(AwaitingActivation(v))
      /\ PrincipalNeedsRow'
  BY TablesKept DEF subscriptionVars, Books, PrincipalNeedsRow
<1>6. CASE wallet
  <2>1. /\ component' = component
        /\ system' = [system EXCEPT !["PAYOUT_TOTAL_WALLET_CONTROL"] = @ + gross,
                                    !["PAYOUT_RESERVE"] = @ + gross]
        /\ eventDelta' = [eventDelta EXCEPT ![u] = @ - gross]
    BY <1>1, <1>2, <1>6 DEF Reserve, Once, Reserved, Post
  <2>2. \A v \in Users : eventDelta'[v] = eventDelta[v] + (IF v = u THEN - gross ELSE 0)
    BY <1>2, <2>1 DEF LedgerTypeOK
  <2>3. SumFunction(eventDelta') = SumFunction(eventDelta) - gross
    <3>1. SumFunction(eventDelta') = SumFunction(eventDelta) + (- gross)
      BY <1>2, <2>2, EventMove
    <3> QED BY <1>2, <1>3, <3>1 DEF SumsTyped
  <2>4. SumFunction(BucketTotals') = SumFunction(BucketTotals)
    BY <2>1, TablesKept
  <2>5. TrialBalance'
    <3>1. \A a \in SystemAccounts :
            /\ system[a] \in Int
            /\ system'[a] =
                 system[a] + (IF a \in {"PAYOUT_TOTAL_WALLET_CONTROL", "PAYOUT_RESERVE"}
                              THEN gross ELSE 0)
      BY <1>2, <2>1 DEF LedgerTypeOK, SystemAccounts
    <3> QED BY <1>2, <1>3, <2>4, <3>1 DEF Books, TrialBalance, SystemAccounts, SumsTyped
  <2>6. PayoutAccountsMatchRows'
    BY <1>2, <1>3, <1>4, <2>1
       DEF Books, PayoutAccountsMatchRows, LedgerTypeOK, SystemAccounts, SumsTyped
  <2>7. ControlMirrorsWallets'
    BY <1>2, <1>3, <2>1, <2>3
       DEF Books, ControlMirrorsWallets, LedgerTypeOK, SystemAccounts, SumsTyped
  <2>8. EventsAreSpending'
    BY <1>2, <1>3, <1>4, <1>5, <1>6, <2>2
       DEF Books, EventsAreSpending, LedgerTypeOK, SumsTyped
  <2>9. PrincipalBacksPackages' /\ PaidPackagesStayFunded'
    BY <1>5, <2>1 DEF Books, PrincipalBacksPackages, PaidPackagesStayFunded,
       LedgerTypeOK, SystemAccounts
  <2> QED BY <1>5, <2>5, <2>6, <2>7, <2>8, <2>9 DEF Books
<1>7. CASE ~ wallet
  <2>1. /\ component' = [component EXCEPT ![u][source] = @ - gross]
        /\ system' = [system EXCEPT !["PAYOUT_RESERVE"] = @ + gross]
        /\ eventDelta' = eventDelta
    BY <1>1, <1>2, <1>7 DEF Reserve, Once, Reserved, Post
  <2>2. \A v \in Users, c \in Buckets :
          component'[v][c] = component[v][c] + (IF v = u /\ c = source THEN - gross ELSE 0)
    BY <1>2, <2>1 DEF LedgerTypeOK
  <2>3. SumFunction(BucketTotals') = SumFunction(BucketTotals) - gross
    <3>1. SumFunction(BucketTotals') = SumFunction(BucketTotals) + (- gross)
      BY <1>2, <1>7, <2>2, BucketMove
    <3> QED BY <1>2, <1>3, <3>1 DEF SumsTyped
  <2>4. TrialBalance'
    BY <1>2, <1>3, <2>1, <2>3 DEF Books, TrialBalance, LedgerTypeOK, SystemAccounts, SumsTyped
  <2>5. PayoutAccountsMatchRows'
    BY <1>2, <1>3, <1>4, <2>1
       DEF Books, PayoutAccountsMatchRows, LedgerTypeOK, SystemAccounts, SumsTyped
  <2>6. ControlMirrorsWallets' /\ PrincipalBacksPackages'
    BY <1>5, <2>1
       DEF Books, ControlMirrorsWallets, PrincipalBacksPackages, LedgerTypeOK, SystemAccounts
  <2>7. EventsAreSpending'
    BY <1>3, <1>4, <1>5, <1>7, <2>1 DEF Books, EventsAreSpending, SumsTyped
  <2>8. PaidPackagesStayFunded'
    <3>1. "MAIN" \notin LegacySources =>
            \A v \in Users : component'[v]["MAIN"] = component[v]["MAIN"]
      BY <1>2, <1>7, <2>2 DEF FundsTypeOK, LedgerTypeOK, Buckets
    <3> QED BY <1>5, <3>1 DEF Books, PaidPackagesStayFunded
  <2> QED BY <1>5, <2>4, <2>5, <2>6, <2>7, <2>8 DEF Books
<1> QED BY <1>6, <1>7

\* A payout is rejected: its gross amount goes back where it came from.
LEMMA RejectBooks ==
  ASSUME FundsInv, FundsTypeOK', Books, UNCHANGED subscriptionVars, SubscriptionKeysKept,
         NEW p \in Payouts, Reject(p)
  PROVE  Books'
<1> USE DEF FundsInv, DeskInv, DeskTypeOK
<1> DEFINE u == Owner(p)
           source == payout[p].source
           gross == payout[p].gross
           wallet == source = "TOTAL_WALLET"
<1>1. /\ payout[p].status \in {"PENDING_REVIEW", "APPROVED"}
      /\ Release(p)
      /\ payout' = [payout EXCEPT ![p].status = "REJECTED"]
  BY DEF Reject
<1>2. /\ u \in Users /\ gross \in Nat /\ ~ Released(p) /\ FundsTypeOK
      /\ ~ wallet => source \in Buckets
  BY <1>1 DEF Owner, Payouts, LedgerMatchesStatus, FundsTypeOK, PayoutTypeOK, PayoutRows, Sources
<1>3. SumsTyped
  BY <1>2, SumsAreIntegers
<1>4. /\ SumFunction(GrossHeld') = SumFunction(GrossHeld) - gross
      /\ SumFunction(NetPaid') = SumFunction(NetPaid)
      /\ SumFunction(FeeKept') = SumFunction(FeeKept)
      /\ \A v \in Users :
           SumFunction(SpentOnPayouts(v)') =
             SumFunction(SpentOnPayouts(v)) - (IF v = u /\ wallet THEN gross ELSE 0)
  <2>1. /\ \A q \in Payouts \ {p} : payout'[q] = payout[q]
        /\ payout'[p].status = "REJECTED"
    BY <1>1 DEF PayoutTypeOK, PayoutRows
  <2>2. /\ GrossHeld[p] = gross /\ GrossHeld'[p] = 0
        /\ NetPaid[p] = 0 /\ NetPaid'[p] = 0
        /\ FeeKept[p] = 0 /\ FeeKept'[p] = 0
        /\ \A v \in Users :
             /\ SpentOnPayouts(v)[p] = IF v = u /\ wallet THEN gross ELSE 0
             /\ SpentOnPayouts(v)'[p] = 0
    BY <1>1, <2>1 DEF GrossHeld, NetPaid, FeeKept, SpentOnPayouts, OpenStatuses
  <2> HIDE DEF u, wallet, gross
  <2> QED BY <1>2, <1>3, <2>1, <2>2, PayoutRowChange DEF SumsTyped
<1>5. /\ \A v \in Users : SumFunction(SpentOnPackages(v)') = SumFunction(SpentOnPackages(v))
      /\ SumFunction(PrincipalHeld') = SumFunction(PrincipalHeld)
      /\ \A v \in Users :
           SumFunction(AwaitingActivation(v)') = SumFunction(AwaitingActivation(v))
      /\ PrincipalNeedsRow'
  BY TablesKept DEF subscriptionVars, Books, PrincipalNeedsRow
<1>6. CASE wallet
  <2>1. /\ component' = component
        /\ system' = [system EXCEPT !["PAYOUT_TOTAL_WALLET_CONTROL"] = @ - gross,
                                    !["PAYOUT_RESERVE"] = @ - gross]
        /\ eventDelta' = [eventDelta EXCEPT ![u] = @ + gross]
    BY <1>1, <1>2, <1>6 DEF Release, Once, Released, Post
  <2> HIDE DEF gross, u, wallet
  <2>2. \A v \in Users : eventDelta'[v] = eventDelta[v] + (IF v = u THEN gross ELSE 0)
    BY <1>2, <2>1 DEF LedgerTypeOK
  <2>3. SumFunction(eventDelta') = SumFunction(eventDelta) + gross
    BY <1>2, <2>2, EventMove
  <2>4. SumFunction(BucketTotals') = SumFunction(BucketTotals)
    BY <2>1, TablesKept
  <2>5. \A a \in SystemAccounts :
          /\ system[a] \in Int
          /\ system'[a] =
               system[a] - (IF a \in {"PAYOUT_TOTAL_WALLET_CONTROL", "PAYOUT_RESERVE"}
                            THEN gross ELSE 0)
    BY <1>2, <2>1 DEF LedgerTypeOK, SystemAccounts
  <2>6. TrialBalance'
    BY <1>2, <1>3, <2>4, <2>5 DEF Books, TrialBalance, SystemAccounts, SumsTyped
  <2>7. PayoutAccountsMatchRows'
    BY <1>2, <1>3, <1>4, <2>5 DEF Books, PayoutAccountsMatchRows, SystemAccounts, SumsTyped
  <2>8. ControlMirrorsWallets'
    BY <1>2, <1>3, <2>3, <2>5 DEF Books, ControlMirrorsWallets, SystemAccounts, SumsTyped
  <2>9. EventsAreSpending'
    BY <1>2, <1>3, <1>4, <1>5, <1>6, <2>2
       DEF Books, EventsAreSpending, LedgerTypeOK, SumsTyped
  <2>10. PrincipalBacksPackages' /\ PaidPackagesStayFunded'
    BY <1>2, <1>5, <2>1, <2>5 DEF Books, PrincipalBacksPackages, PaidPackagesStayFunded,
       SystemAccounts
  <2> QED BY <1>5, <2>6, <2>7, <2>8, <2>9, <2>10 DEF Books
<1>7. CASE ~ wallet
  <2>1. /\ component' = [component EXCEPT ![u][source] = @ + gross]
        /\ system' = [system EXCEPT !["PAYOUT_RESERVE"] = @ - gross]
        /\ eventDelta' = eventDelta
    BY <1>1, <1>2, <1>7 DEF Release, Once, Released, Post
  <2> HIDE DEF gross, u, wallet, source
  <2>2. \A v \in Users, c \in Buckets :
          component'[v][c] = component[v][c] + (IF v = u /\ c = source THEN gross ELSE 0)
    BY <1>2, <1>7, <2>1 DEF LedgerTypeOK
  <2>3. SumFunction(BucketTotals') = SumFunction(BucketTotals) + gross
    BY <1>2, <1>7, <2>2, BucketMove
  <2>4. \A a \in SystemAccounts :
          /\ system[a] \in Int
          /\ system'[a] = system[a] - (IF a = "PAYOUT_RESERVE" THEN gross ELSE 0)
    BY <1>2, <2>1 DEF LedgerTypeOK, SystemAccounts
  <2>5. TrialBalance'
    BY <1>2, <1>3, <2>3, <2>4 DEF Books, TrialBalance, SystemAccounts, SumsTyped
  <2>6. PayoutAccountsMatchRows'
    BY <1>2, <1>3, <1>4, <2>4 DEF Books, PayoutAccountsMatchRows, SystemAccounts, SumsTyped
  <2>7. ControlMirrorsWallets' /\ PrincipalBacksPackages'
    BY <1>5, <2>1, <2>4
       DEF Books, ControlMirrorsWallets, PrincipalBacksPackages, SystemAccounts
  <2>8. EventsAreSpending'
    BY <1>3, <1>4, <1>5, <1>7, <2>1 DEF Books, EventsAreSpending, SumsTyped
  <2>9. PaidPackagesStayFunded'
    <3>1. \A v \in Users : /\ component[v]["MAIN"] \in Nat
                           /\ component'[v]["MAIN"] \in Nat
                           /\ component'[v]["MAIN"] >= component[v]["MAIN"]
      BY <1>2, <2>2 DEF FundsTypeOK, LedgerTypeOK, Buckets
    <3> QED BY <1>3, <1>5, <3>1 DEF Books, PaidPackagesStayFunded, SumsTyped
  <2> QED BY <1>5, <2>5, <2>6, <2>7, <2>8, <2>9 DEF Books
<1> QED BY <1>6, <1>7

\* A payout is completed: what was reserved is now paid out and kept as fee.
LEMMA CompleteBooks ==
  ASSUME FundsInv, FundsTypeOK', Books, UNCHANGED subscriptionVars, SubscriptionKeysKept,
         NEW p \in Payouts, Complete(p)
  PROVE  Books'
<1> USE DEF FundsInv, DeskInv, DeskTypeOK
<1> DEFINE row == payout[p]
<1>1. /\ row.status = "SUBMITTED"
      /\ Settle(p)
      /\ payout' = [payout EXCEPT ![p].status = "COMPLETED"]
  BY DEF Complete
<1>2. /\ row.gross \in Nat /\ row.net \in Nat /\ row.fee \in Nat
      /\ row.gross = row.net + row.fee
      /\ ~ Settled(p) /\ FundsTypeOK
  BY <1>1 DEF LedgerMatchesStatus, QuotesAddUp, FundsTypeOK, PayoutTypeOK, PayoutRows
<1>3. SumsTyped
  BY <1>2, SumsAreIntegers
<1>4. /\ SumFunction(GrossHeld') = SumFunction(GrossHeld) - row.gross
      /\ SumFunction(NetPaid') = SumFunction(NetPaid) + row.net
      /\ SumFunction(FeeKept') = SumFunction(FeeKept) + row.fee
      /\ \A v \in Users : SumFunction(SpentOnPayouts(v)') = SumFunction(SpentOnPayouts(v))
  <2>1. /\ \A q \in Payouts \ {p} : payout'[q] = payout[q]
        /\ payout'[p].status = "COMPLETED"
        /\ payout'[p].source = row.source /\ payout'[p].gross = row.gross
        /\ payout'[p].net = row.net /\ payout'[p].fee = row.fee
    BY <1>1 DEF PayoutTypeOK, PayoutRows
  <2>2. /\ GrossHeld[p] = row.gross /\ GrossHeld'[p] = 0
        /\ NetPaid[p] = 0 /\ NetPaid'[p] = row.net
        /\ FeeKept[p] = 0 /\ FeeKept'[p] = row.fee
        /\ \A v \in Users :
             /\ SpentOnPayouts(v)[p] \in Nat
             /\ SpentOnPayouts(v)'[p] = SpentOnPayouts(v)[p]
    BY <1>1, <1>2, <2>1 DEF GrossHeld, NetPaid, FeeKept, SpentOnPayouts, OpenStatuses
  <2> HIDE DEF row
  <2> QED BY <1>2, <1>3, <2>1, <2>2, PayoutRowChange DEF SumsTyped
<1>5. /\ \A v \in Users : SumFunction(SpentOnPackages(v)') = SumFunction(SpentOnPackages(v))
      /\ SumFunction(PrincipalHeld') = SumFunction(PrincipalHeld)
      /\ \A v \in Users :
           SumFunction(AwaitingActivation(v)') = SumFunction(AwaitingActivation(v))
      /\ PrincipalNeedsRow'
  BY TablesKept DEF subscriptionVars, Books, PrincipalNeedsRow
<1>6. /\ component' = component
      /\ eventDelta' = eventDelta
      /\ system' = [system EXCEPT !["PAYOUT_RESERVE"] = @ - row.gross,
                                  !["PAYOUT_SETTLEMENT"] = @ + row.net,
                                  !["PAYOUT_FEE_REVENUE"] = @ + row.fee]
  BY <1>1, <1>2 DEF Settle, Once, Settled, Post
<1> HIDE DEF row
<1>7. /\ \A a \in SystemAccounts : system[a] \in Int
      /\ system'["PAYOUT_RESERVE"] = system["PAYOUT_RESERVE"] - row.gross
      /\ system'["PAYOUT_SETTLEMENT"] = system["PAYOUT_SETTLEMENT"] + row.net
      /\ system'["PAYOUT_FEE_REVENUE"] = system["PAYOUT_FEE_REVENUE"] + row.fee
      /\ \A a \in SystemAccounts :
           a \notin {"PAYOUT_RESERVE", "PAYOUT_SETTLEMENT", "PAYOUT_FEE_REVENUE"}
             => system'[a] = system[a]
  BY <1>2, <1>6 DEF LedgerTypeOK, SystemAccounts
<1>8. SumFunction(BucketTotals') = SumFunction(BucketTotals)
  BY <1>6, TablesKept
<1>9. TrialBalance'
  BY <1>2, <1>3, <1>7, <1>8 DEF Books, TrialBalance, SystemAccounts, SumsTyped
<1>10. PayoutAccountsMatchRows'
  BY <1>2, <1>3, <1>4, <1>7 DEF Books, PayoutAccountsMatchRows, SystemAccounts, SumsTyped
<1>11. ControlMirrorsWallets' /\ PrincipalBacksPackages'
  BY <1>5, <1>6, <1>7
     DEF Books, ControlMirrorsWallets, PrincipalBacksPackages, SystemAccounts
<1>12. EventsAreSpending' /\ PaidPackagesStayFunded'
  BY <1>4, <1>5, <1>6 DEF Books, EventsAreSpending, PaidPackagesStayFunded
<1> QED BY <1>5, <1>9, <1>10, <1>11, <1>12 DEF Books

\* The other steps of the desk write no amount and move no money.
LEMMA QuietDeskBooks ==
  ASSUME FundsInv, FundsTypeOK', Books, UNCHANGED subscriptionVars, SubscriptionKeysKept,
         \/ \E policy \in PayoutPolicies : PublishPolicy(policy)
         \/ ReleaseTotalWallet
         \/ \E p \in Payouts : Approve(p)
         \/ \E p \in Payouts, txid \in Txids : SubmitExternalTxid(p, txid)
  PROVE  Books'
<1> USE DEF FundsInv, DeskInv, DeskTypeOK
<1>1. UNCHANGED ledgerVars
  BY DEF PublishPolicy, ReleaseTotalWallet, Approve, SubmitExternalTxid
<1> DEFINE SameAmounts(q) ==
             /\ payout'[q].source = payout[q].source /\ payout'[q].gross = payout[q].gross
             /\ payout'[q].net = payout[q].net /\ payout'[q].fee = payout[q].fee
             /\ payout'[q].status \in OpenStatuses <=> payout[q].status \in OpenStatuses
             /\ payout'[q].status = "COMPLETED" <=> payout[q].status = "COMPLETED"
<1>2. \A q \in Payouts : SameAmounts(q)
  <2>1. ASSUME NEW p \in Payouts, Approve(p) PROVE \A q \in Payouts : SameAmounts(q)
    BY <2>1 DEF Approve, PayoutTypeOK, PayoutRows, OpenStatuses
  <2>2. ASSUME NEW p \in Payouts, NEW txid \in Txids, SubmitExternalTxid(p, txid)
        PROVE  \A q \in Payouts : SameAmounts(q)
    BY <2>2 DEF SubmitExternalTxid, PayoutTypeOK, PayoutRows, OpenStatuses
  <2>3. UNCHANGED payout => \A q \in Payouts : SameAmounts(q)
    OBVIOUS
  <2> QED BY <2>1, <2>2, <2>3 DEF PublishPolicy, ReleaseTotalWallet
<1>3. /\ GrossHeld' = GrossHeld /\ NetPaid' = NetPaid /\ FeeKept' = FeeKept
      /\ \A v \in Users : SpentOnPayouts(v)' = SpentOnPayouts(v)
  BY <1>2 DEF GrossHeld, NetPaid, FeeKept, SpentOnPayouts
<1>4. /\ \A v \in Users : SumFunction(SpentOnPackages(v)') = SumFunction(SpentOnPackages(v))
      /\ SumFunction(PrincipalHeld') = SumFunction(PrincipalHeld)
      /\ \A v \in Users :
           SumFunction(AwaitingActivation(v)') = SumFunction(AwaitingActivation(v))
      /\ SumFunction(BucketTotals') = SumFunction(BucketTotals)
      /\ PrincipalNeedsRow'
  BY <1>1, TablesKept DEF ledgerVars, subscriptionVars, Books, PrincipalNeedsRow
<1> QED BY <1>1, <1>3, <1>4 DEF ledgerVars, Books, TrialBalance, PayoutAccountsMatchRows,
           ControlMirrorsWallets, EventsAreSpending, PrincipalBacksPackages,
           PaidPackagesStayFunded

\* So every step of the desk keeps the books.
LEMMA DeskBooks ==
  ASSUME FundsInv, FundsTypeOK', Books, PayoutNext, UNCHANGED subscriptionVars
  PROVE  Books'
<1>1. SubscriptionKeysKept
  BY DeskStepOnFunds
<1> QED BY <1>1, CreateRequestBooks, RejectBooks, CompleteBooks, QuietDeskBooks DEF PayoutNext

\* An approved deposit is credited: MAIN holds what its activation will take.
LEMMA PostDepositBooks ==
  ASSUME FundsInv, FundsTypeOK', Books, UNCHANGED payoutVars, NEW d \in Deposits,
         PostApprovedDeposit(d)
  PROVE  Books'
<1> USE DEF FundsInv, DeskInv, DeskTypeOK
<1> DEFINE u == DepositUser[d]
           n == DepositAmount[d]
<1>1. /\ <<"DEPOSIT_CREDIT", d>> \notin posted
      /\ <<"PACKAGE_ACTIVATION", d>> \notin posted
      /\ component' = [component EXCEPT ![u]["MAIN"] = @ + n]
      /\ system' = [system EXCEPT !["DEPOSIT_CLEARING"] = @ + n]
      /\ eventDelta' = eventDelta
      /\ posted' = posted \union {<<"DEPOSIT_CREDIT", d>>}
      /\ UNCHANGED subscriptionVars
  BY DEF PostApprovedDeposit, Post, DepositChainInOrder
<1>2. u \in Users /\ n \in Nat /\ FundsTypeOK
  BY SubscriptionsAssumption DEF FundsTypeOK
<1>3. SumsTyped
  BY <1>2, SumsAreIntegers
<1>4. \A v \in Users : SumFunction(AwaitingActivation(v)') =
                         SumFunction(AwaitingActivation(v)) + (IF v = u THEN n ELSE 0)
  <2>1. \A v \in Users : /\ AwaitingActivation(v)[d] = 0
                         /\ AwaitingActivation(v)'[d] = IF v = u THEN n ELSE 0
    BY <1>1 DEF AwaitingActivation
  <2>2. \A c \in Deposits \ {d} :
          /\ <<"DEPOSIT_CREDIT", c>> \in posted' <=> <<"DEPOSIT_CREDIT", c>> \in posted
          /\ <<"PACKAGE_ACTIVATION", c>> \in posted' <=> <<"PACKAGE_ACTIVATION", c>> \in posted
    BY <1>1
  <2> HIDE DEF u, n
  <2> QED BY <1>2, <1>3, <2>1, <2>2, DepositKeyChange DEF SumsTyped
<1> HIDE DEF u, n
<1>5. ReturnsKept
  BY <1>1 DEF ReturnsKept
<1>6. /\ SumFunction(GrossHeld') = SumFunction(GrossHeld)
      /\ SumFunction(NetPaid') = SumFunction(NetPaid)
      /\ SumFunction(FeeKept') = SumFunction(FeeKept)
      /\ \A v \in Users : SumFunction(SpentOnPayouts(v)') = SumFunction(SpentOnPayouts(v))
      /\ \A v \in Users : SumFunction(SpentOnPackages(v)') = SumFunction(SpentOnPackages(v))
      /\ SumFunction(PrincipalHeld') = SumFunction(PrincipalHeld)
      /\ PrincipalNeedsRow'
  BY <1>1, <1>5, TablesKept DEF payoutVars, subscriptionVars, Books, PrincipalNeedsRow
<1>7. \A v \in Users, c \in Buckets :
        component'[v][c] = component[v][c] + (IF v = u /\ c = "MAIN" THEN n ELSE 0)
  BY <1>1, <1>2 DEF LedgerTypeOK, Buckets
<1>8. SumFunction(BucketTotals') = SumFunction(BucketTotals) + n
  BY <1>2, <1>7, BucketMove DEF Buckets
<1>9. \A a \in SystemAccounts :
        /\ system[a] \in Int
        /\ system'[a] = system[a] + (IF a = "DEPOSIT_CLEARING" THEN n ELSE 0)
  BY <1>1, <1>2 DEF LedgerTypeOK, SystemAccounts
<1>10. TrialBalance'
  BY <1>2, <1>3, <1>8, <1>9 DEF Books, TrialBalance, SystemAccounts, SumsTyped
<1>11. /\ PayoutAccountsMatchRows' /\ ControlMirrorsWallets' /\ EventsAreSpending'
       /\ PrincipalBacksPackages'
  BY <1>1, <1>6, <1>9 DEF Books, PayoutAccountsMatchRows, ControlMirrorsWallets,
     EventsAreSpending, PrincipalBacksPackages, SystemAccounts
<1>12. PaidPackagesStayFunded'
  <2>1. \A v \in Users : /\ component[v]["MAIN"] \in Int
                         /\ component'[v]["MAIN"] =
                              component[v]["MAIN"] + (IF v = u THEN n ELSE 0)
    BY <1>7 DEF LedgerTypeOK, Buckets
  <2> QED BY <1>2, <1>3, <1>4, <2>1 DEF Books, PaidPackagesStayFunded, SumsTyped
<1> QED BY <1>6, <1>10, <1>11, <1>12 DEF Books

\* A deposit is activated: its amount moves from MAIN to package principal.
LEMMA ActivateBooks ==
  ASSUME FundsInv, FundsTypeOK', Books, UNCHANGED payoutVars, NEW d \in Deposits,
         NEW triggers, ActivateFromApprovedDeposit(d, triggers)
  PROVE  Books'
<1> USE DEF FundsInv, DeskInv, DeskTypeOK
<1> DEFINE u == DepositUser[d]
           n == DepositAmount[d]
           s == <<"DEPOSIT", d>>
           row == NewSubscription(DepositPlan[d], n)
<1>1. /\ <<"DEPOSIT_CREDIT", d>> \in posted
      /\ <<"PACKAGE_ACTIVATION", d>> \notin posted
      /\ subscription[s].status = "NONE"
      /\ component' = [component EXCEPT ![u]["MAIN"] = @ - n]
      /\ system' = [system EXCEPT !["PACKAGE_PRINCIPAL"] = @ + n]
      /\ eventDelta' = eventDelta
      /\ posted' = posted \union {<<"PACKAGE_ACTIVATION", d>>}
      /\ subscription' = [subscription EXCEPT ![s] = row]
      /\ row.principal = n /\ row.status = "ACTIVE"
  BY DEF ActivateFromApprovedDeposit, FundActivation, Post, NewSubscription
<1>2. u \in Users /\ n \in Nat /\ FundsTypeOK /\ s \in SubscriptionIds
  BY SubscriptionsAssumption DEF FundsTypeOK, SubscriptionIds
<1>3. SumsTyped
  BY <1>2, SumsAreIntegers
<1>4. \A v \in Users : SumFunction(AwaitingActivation(v)') =
                         SumFunction(AwaitingActivation(v)) - (IF v = u THEN n ELSE 0)
  <2>1. \A v \in Users : /\ AwaitingActivation(v)[d] = IF v = u THEN n ELSE 0
                         /\ AwaitingActivation(v)'[d] = 0
    BY <1>1 DEF AwaitingActivation
  <2>2. \A c \in Deposits \ {d} :
          /\ <<"DEPOSIT_CREDIT", c>> \in posted' <=> <<"DEPOSIT_CREDIT", c>> \in posted
          /\ <<"PACKAGE_ACTIVATION", c>> \in posted' <=> <<"PACKAGE_ACTIVATION", c>> \in posted
    BY <1>1
  <2> HIDE DEF u, n
  <2> QED BY <1>2, <1>3, <2>1, <2>2, DepositKeyChange DEF SumsTyped
<1> HIDE DEF u, n, row
<1>5. /\ SumFunction(PrincipalHeld') = SumFunction(PrincipalHeld) + n
      /\ \A v \in Users : SumFunction(SpentOnPackages(v)') = SumFunction(SpentOnPackages(v))
      /\ PrincipalNeedsRow'
  <2>1. /\ subscription[s].principal = 0
        /\ <<"PRINCIPAL_RETURN", s>> \notin posted
    BY <1>1, <1>2 DEF Books, PrincipalNeedsRow, PrincipalReturnedOnce
  <2>2. /\ \A t \in SubscriptionIds \ {s} : subscription'[t] = subscription[t]
        /\ subscription'[s] = row
        /\ ReturnsKept
    BY <1>1, <1>2 DEF SubscriptionTypeOK, ReturnsKept
  <2>3. /\ PrincipalHeld[s] = 0 /\ PrincipalHeld'[s] = n
        /\ \A v \in Users : SpentOnPackages(v)[s] = 0 /\ SpentOnPackages(v)'[s] = 0
    BY <1>1, <1>2, <2>1, <2>2 DEF PrincipalHeld, SpentOnPackages, ReturnsKept
  <2>4. PrincipalNeedsRow'
    BY <1>1, <2>2 DEF Books, PrincipalNeedsRow
  <2>5. \A t \in SubscriptionIds \ {s} :
          /\ subscription'[t].principal = subscription[t].principal
          /\ <<"PRINCIPAL_RETURN", t>> \in posted' <=> <<"PRINCIPAL_RETURN", t>> \in posted
    BY <2>2 DEF ReturnsKept
  <2> HIDE DEF s
  <2> QED BY <1>2, <1>3, <2>3, <2>4, <2>5, SubscriptionRowChange DEF SumsTyped
<1>6. /\ SumFunction(GrossHeld') = SumFunction(GrossHeld)
      /\ SumFunction(NetPaid') = SumFunction(NetPaid)
      /\ SumFunction(FeeKept') = SumFunction(FeeKept)
      /\ \A v \in Users : SumFunction(SpentOnPayouts(v)') = SumFunction(SpentOnPayouts(v))
  BY TablesKept DEF payoutVars
<1>7. \A v \in Users, c \in Buckets :
        component'[v][c] = component[v][c] + (IF v = u /\ c = "MAIN" THEN - n ELSE 0)
  BY <1>1, <1>2 DEF LedgerTypeOK, Buckets
<1>8. SumFunction(BucketTotals') = SumFunction(BucketTotals) + (- n)
  BY <1>2, <1>7, BucketMove DEF Buckets
<1>9. \A a \in SystemAccounts :
        /\ system[a] \in Int
        /\ system'[a] = system[a] + (IF a = "PACKAGE_PRINCIPAL" THEN n ELSE 0)
  BY <1>1, <1>2 DEF LedgerTypeOK, SystemAccounts
<1>10. TrialBalance'
  BY <1>2, <1>3, <1>8, <1>9 DEF Books, TrialBalance, SystemAccounts, SumsTyped
<1>11. PayoutAccountsMatchRows' /\ ControlMirrorsWallets' /\ EventsAreSpending'
  BY <1>1, <1>5, <1>6, <1>9 DEF Books, PayoutAccountsMatchRows, ControlMirrorsWallets,
     EventsAreSpending, SystemAccounts
<1>12. PrincipalBacksPackages'
  BY <1>2, <1>3, <1>5, <1>9 DEF Books, PrincipalBacksPackages, SystemAccounts, SumsTyped
<1>13. PaidPackagesStayFunded'
  <2>1. \A v \in Users : /\ component[v]["MAIN"] \in Int
                         /\ component'[v]["MAIN"] =
                              component[v]["MAIN"] - (IF v = u THEN n ELSE 0)
    BY <1>2, <1>7 DEF LedgerTypeOK, Buckets
  <2> QED BY <1>2, <1>3, <1>4, <2>1 DEF Books, PaidPackagesStayFunded, SumsTyped
<1> QED BY <1>5, <1>10, <1>11, <1>12, <1>13 DEF Books

\* A reinvestment: package principal grows by what the Total Wallet paid.
LEMMA PurchaseBooks ==
  ASSUME FundsInv, FundsTypeOK', Books, UNCHANGED payoutVars,
         NEW w \in Users, NEW k \in PurchaseKeys, NEW plan, NEW amount \in PurchaseAmounts,
         Purchase(w, k, plan, amount)
  PROVE  Books'
<1> USE DEF FundsInv, DeskInv, DeskTypeOK
<1> DEFINE s == <<"REINVESTMENT", <<w, k>>>>
           row == NewSubscription(plan, amount)
<1>1. /\ subscription[s].status = "NONE"
      /\ component' = component
      /\ system' = [system EXCEPT !["PAYOUT_TOTAL_WALLET_CONTROL"] = @ + amount,
                                  !["PACKAGE_PRINCIPAL"] = @ + amount]
      /\ eventDelta' = [eventDelta EXCEPT ![w] = @ - amount]
      /\ posted' = posted \union {s}
      /\ subscription' = [subscription EXCEPT ![s] = row]
      /\ row.principal = amount /\ row.status = "ACTIVE"
  BY DEF Purchase, FundFromTotalWallet, Post, NewSubscription
<1>2. amount \in Nat /\ FundsTypeOK /\ s \in SubscriptionIds /\ Subscriber(s) = w
  BY SubscriptionsAssumption DEF FundsTypeOK, SubscriptionIds, Subscriber
<1>3. SumsTyped
  BY <1>2, SumsAreIntegers
<1> HIDE DEF row
<1>4. ReturnsKept /\ DepositKeysKept
  BY <1>1 DEF ReturnsKept, DepositKeysKept
<1>5. /\ SumFunction(PrincipalHeld') = SumFunction(PrincipalHeld) + amount
      /\ \A v \in Users : SumFunction(SpentOnPackages(v)') =
                            SumFunction(SpentOnPackages(v)) + (IF v = w THEN amount ELSE 0)
      /\ PrincipalNeedsRow'
  <2>1. /\ subscription[s].principal = 0
        /\ <<"PRINCIPAL_RETURN", s>> \notin posted
    BY <1>1, <1>2 DEF Books, PrincipalNeedsRow, PrincipalReturnedOnce
  <2>2. /\ \A t \in SubscriptionIds \ {s} : subscription'[t] = subscription[t]
        /\ subscription'[s] = row
    BY <1>1, <1>2 DEF SubscriptionTypeOK
  <2>3. /\ PrincipalHeld[s] = 0 /\ PrincipalHeld'[s] = amount
        /\ \A v \in Users :
             /\ SpentOnPackages(v)[s] = 0
             /\ SpentOnPackages(v)'[s] = IF v = w THEN amount ELSE 0
    BY <1>1, <1>2, <1>4, <2>1, <2>2 DEF PrincipalHeld, SpentOnPackages, ReturnsKept
  <2>4. PrincipalNeedsRow'
    BY <1>1, <2>2 DEF Books, PrincipalNeedsRow
  <2>5. \A t \in SubscriptionIds \ {s} :
          /\ subscription'[t].principal = subscription[t].principal
          /\ <<"PRINCIPAL_RETURN", t>> \in posted' <=> <<"PRINCIPAL_RETURN", t>> \in posted
    BY <1>4, <2>2 DEF ReturnsKept
  <2> HIDE DEF s
  <2> QED BY <1>2, <1>3, <2>3, <2>4, <2>5, SubscriptionRowChange DEF SumsTyped
<1>6. /\ SumFunction(GrossHeld') = SumFunction(GrossHeld)
      /\ SumFunction(NetPaid') = SumFunction(NetPaid)
      /\ SumFunction(FeeKept') = SumFunction(FeeKept)
      /\ \A v \in Users : SumFunction(SpentOnPayouts(v)') = SumFunction(SpentOnPayouts(v))
      /\ \A v \in Users :
           SumFunction(AwaitingActivation(v)') = SumFunction(AwaitingActivation(v))
      /\ SumFunction(BucketTotals') = SumFunction(BucketTotals)
  BY <1>1, <1>4, TablesKept DEF payoutVars
<1>7. \A v \in Users :
        /\ eventDelta[v] \in Int
        /\ eventDelta'[v] = eventDelta[v] + (IF v = w THEN - amount ELSE 0)
  BY <1>1, <1>2 DEF LedgerTypeOK
<1>8. SumFunction(eventDelta') = SumFunction(eventDelta) + (- amount)
  BY <1>2, <1>7, EventMove
<1>9. \A a \in SystemAccounts :
        /\ system[a] \in Int
        /\ system'[a] =
             system[a] + (IF a \in {"PAYOUT_TOTAL_WALLET_CONTROL", "PACKAGE_PRINCIPAL"}
                          THEN amount ELSE 0)
  BY <1>1, <1>2 DEF LedgerTypeOK, SystemAccounts
<1>10. TrialBalance'
  BY <1>2, <1>3, <1>6, <1>9 DEF Books, TrialBalance, SystemAccounts, SumsTyped
<1>11. PayoutAccountsMatchRows' /\ PaidPackagesStayFunded'
  BY <1>1, <1>6, <1>9 DEF Books, PayoutAccountsMatchRows, PaidPackagesStayFunded, SystemAccounts
<1>12. ControlMirrorsWallets'
  BY <1>2, <1>3, <1>8, <1>9 DEF Books, ControlMirrorsWallets, SystemAccounts, SumsTyped
<1>13. PrincipalBacksPackages'
  BY <1>2, <1>3, <1>5, <1>9 DEF Books, PrincipalBacksPackages, SystemAccounts, SumsTyped
<1>14. EventsAreSpending'
  BY <1>2, <1>3, <1>5, <1>6, <1>7 DEF Books, EventsAreSpending, SumsTyped
<1> QED BY <1>5, <1>10, <1>11, <1>12, <1>13, <1>14 DEF Books

\* A completed package gives its principal back to MAIN.
LEMMA ReturnBooks ==
  ASSUME FundsInv, FundsTypeOK', Books, UNCHANGED payoutVars, NEW s \in SubscriptionIds,
         FinalizeCompletion(s), <<"PRINCIPAL_RETURN", s>> \notin posted, ReturnPrincipal(s)
  PROVE  Books'
<1> USE DEF FundsInv, DeskInv, DeskTypeOK
<1> DEFINE u == Subscriber(s)
           n == subscription[s].principal
<1>1. /\ component' = [component EXCEPT ![u]["MAIN"] = @ + n]
      /\ system' = [system EXCEPT !["PACKAGE_PRINCIPAL"] = @ - n]
      /\ eventDelta' = eventDelta
      /\ posted' = posted \union {<<"PRINCIPAL_RETURN", s>>}
      /\ subscription' = [subscription EXCEPT ![s].status = "COMPLETED"]
  BY DEF FinalizeCompletion, ReturnPrincipal, Post
<1>2. u \in Users /\ n \in Nat /\ FundsTypeOK
  BY SubscriberIsUser DEF FundsTypeOK, SubscriptionTypeOK, SubscriptionRows
<1>3. SumsTyped
  BY <1>2, SumsAreIntegers
<1>4. /\ PrincipalsKept
      /\ \A t \in SubscriptionIds : t # s => subscription'[t].status = subscription[t].status
      /\ subscription'[s].status = "COMPLETED"
  BY <1>1 DEF SubscriptionTypeOK, SubscriptionRows, PrincipalsKept
<1> HIDE DEF u, n
<1>5. DepositKeysKept
  BY <1>1 DEF DepositKeysKept
<1>6. /\ SumFunction(GrossHeld') = SumFunction(GrossHeld)
      /\ SumFunction(NetPaid') = SumFunction(NetPaid)
      /\ SumFunction(FeeKept') = SumFunction(FeeKept)
      /\ \A v \in Users : SumFunction(SpentOnPayouts(v)') = SumFunction(SpentOnPayouts(v))
      /\ \A v \in Users : SumFunction(SpentOnPackages(v)') = SumFunction(SpentOnPackages(v))
      /\ \A v \in Users :
           SumFunction(AwaitingActivation(v)') = SumFunction(AwaitingActivation(v))
  BY <1>4, <1>5, TablesKept DEF payoutVars
<1>7. SumFunction(PrincipalHeld') = SumFunction(PrincipalHeld) - n
  <2>1. PrincipalHeld[s] = n /\ PrincipalHeld'[s] = 0
    BY <1>1 DEF PrincipalHeld, n
  <2>2. \A t \in SubscriptionIds \ {s} :
          /\ subscription'[t].principal = subscription[t].principal
          /\ <<"PRINCIPAL_RETURN", t>> \in posted' <=> <<"PRINCIPAL_RETURN", t>> \in posted
    BY <1>1, <1>4 DEF PrincipalsKept
  <2> QED BY <1>2, <1>3, <2>1, <2>2, SubscriptionRowChange DEF SumsTyped
<1>8. \A v \in Users, c \in Buckets :
        component'[v][c] = component[v][c] + (IF v = u /\ c = "MAIN" THEN n ELSE 0)
  BY <1>1, <1>2 DEF LedgerTypeOK, Buckets
<1>9. SumFunction(BucketTotals') = SumFunction(BucketTotals) + n
  <2>1. n \in Int /\ "MAIN" \in Buckets
    BY <1>2 DEF Buckets
  <2> QED BY <1>2, <1>8, <2>1, BucketMove
<1>10. \A a \in SystemAccounts :
         /\ system[a] \in Int
         /\ system'[a] = system[a] - (IF a = "PACKAGE_PRINCIPAL" THEN n ELSE 0)
  BY <1>1, <1>2 DEF LedgerTypeOK, SystemAccounts
<1>11. TrialBalance'
  BY <1>2, <1>3, <1>9, <1>10 DEF Books, TrialBalance, SystemAccounts, SumsTyped
<1>12. PayoutAccountsMatchRows' /\ ControlMirrorsWallets' /\ EventsAreSpending'
  BY <1>1, <1>6, <1>10 DEF Books, PayoutAccountsMatchRows, ControlMirrorsWallets,
     EventsAreSpending, SystemAccounts
<1>13. PrincipalBacksPackages'
  BY <1>2, <1>3, <1>7, <1>10 DEF Books, PrincipalBacksPackages, SystemAccounts, SumsTyped
<1>14. PaidPackagesStayFunded'
  <2>1. \A v \in Users : /\ component[v]["MAIN"] \in Int
                         /\ component'[v]["MAIN"] \in Int
                         /\ component'[v]["MAIN"] >= component[v]["MAIN"]
    BY <1>2, <1>8 DEF LedgerTypeOK, Buckets
  <2> QED BY <1>3, <1>6, <2>1 DEF Books, PaidPackagesStayFunded, SumsTyped
<1>15. PrincipalNeedsRow'
  BY <1>4 DEF Books, PrincipalNeedsRow, PrincipalsKept
<1> QED BY <1>11, <1>12, <1>13, <1>14, <1>15 DEF Books

\* The other steps of the subscriptions write no amount and move no money.
LEMMA QuietSubscriptionBooks ==
  ASSUME Books, UNCHANGED payoutVars, UNCHANGED ledgerVars, PrincipalsKept,
         \A s \in SubscriptionIds :
           subscription'[s].status = "NONE" => subscription[s].status = "NONE"
  PROVE  Books'
<1>1. ReturnsKept /\ DepositKeysKept
  BY DEF ledgerVars, ReturnsKept, DepositKeysKept
<1>2. /\ SumFunction(GrossHeld') = SumFunction(GrossHeld)
      /\ SumFunction(NetPaid') = SumFunction(NetPaid)
      /\ SumFunction(FeeKept') = SumFunction(FeeKept)
      /\ \A v \in Users : SumFunction(SpentOnPayouts(v)') = SumFunction(SpentOnPayouts(v))
      /\ \A v \in Users : SumFunction(SpentOnPackages(v)') = SumFunction(SpentOnPackages(v))
      /\ \A v \in Users :
           SumFunction(AwaitingActivation(v)') = SumFunction(AwaitingActivation(v))
      /\ SumFunction(PrincipalHeld') = SumFunction(PrincipalHeld)
      /\ SumFunction(BucketTotals') = SumFunction(BucketTotals)
  BY <1>1, TablesKept DEF payoutVars, ledgerVars
<1>3. PrincipalNeedsRow'
  BY DEF Books, PrincipalNeedsRow, PrincipalsKept
<1> QED BY <1>2, <1>3 DEF ledgerVars, Books, TrialBalance, PayoutAccountsMatchRows,
           ControlMirrorsWallets, EventsAreSpending, PrincipalBacksPackages,
           PaidPackagesStayFunded

\* So every step of the subscriptions keeps the books.
LEMMA SubscriptionBooks ==
  ASSUME FundsInv, FundsTypeOK', Books, SubscriptionNext, UNCHANGED payoutVars
  PROVE  Books'
<1> USE DEF FundsInv, DeskInv, DeskTypeOK
<1>1. UNCHANGED <<ledgerVars, subscription>> => Books'
  BY QuietSubscriptionBooks DEF PrincipalsKept
<1>2. ASSUME NEW s \in SubscriptionIds, UNCHANGED ledgerVars,
             \/ InitializeTrading(s)
             \/ CompleteTrading(s)
             \/ CompleteLegacyReward(s)
             \/ FinalizeCompletion(s)
      PROVE  Books'
  <2>1. PrincipalsKept /\ \A t \in SubscriptionIds :
          subscription'[t].status = "NONE" => subscription[t].status = "NONE"
    <3>1. CASE InitializeTrading(s)
      BY <3>1 DEF InitializeTrading, SubscriptionTypeOK, SubscriptionRows, PrincipalsKept
    <3>2. CASE CompleteTrading(s)
      BY <3>2 DEF CompleteTrading, SubscriptionTypeOK, SubscriptionRows, PrincipalsKept
    <3>3. CASE CompleteLegacyReward(s)
      BY <3>3 DEF CompleteLegacyReward, SubscriptionTypeOK, SubscriptionRows, PrincipalsKept
    <3>4. CASE FinalizeCompletion(s)
      <4>1. subscription' = [subscription EXCEPT ![s].status = "COMPLETED"]
        BY <3>4 DEF FinalizeCompletion
      <4> QED BY <4>1 DEF SubscriptionTypeOK, SubscriptionRows, PrincipalsKept
    <3> QED BY <1>2, <3>1, <3>2, <3>3, <3>4
  <2> QED BY <1>2, <2>1, QuietSubscriptionBooks
<1>3. ASSUME NEW s \in SubscriptionIds, FinalizeCompletion(s)
      PROVE  Books'
  <2>1. \/ <<"PRINCIPAL_RETURN", s>> \notin posted /\ ReturnPrincipal(s)
        \/ UNCHANGED ledgerVars
    BY <1>3 DEF FinalizeCompletion
  <2> QED BY <1>2, <1>3, <2>1, ReturnBooks
<1>4. ASSUME NEW s \in SubscriptionIds,
             InitializeTrading(s) \/ CompleteTrading(s) \/ CompleteLegacyReward(s)
      PROVE  Books'
  BY <1>2, <1>4 DEF InitializeTrading, CompleteTrading, CompleteLegacyReward
<1>5. \/ \E plans \in Catalogues : PublishPlan(plans)
      \/ \E model \in TradingModels : PublishTradingPolicy(model)
      \/ \E setting \in GateSettings : RestartWithGate(setting)
      \/ \E d \in Deposits, verdict \in {"APPROVED", "REJECTED"} : ReviewDeposit(d, verdict)
      => Books'
  BY <1>1 DEF PublishPlan, PublishTradingPolicy, RestartWithGate, ReviewDeposit
<1> QED BY <1>3, <1>4, <1>5, PostDepositBooks, ActivateBooks DEF SubscriptionNext

\* An earning is an expense of the platform and money in its bucket.
LEMMA EarningBooks ==
  ASSUME FundsInv, FundsTypeOK', Books, NEW e \in Earnings, EarningStep(e)
  PROVE  Books'
<1> USE DEF FundsInv, DeskInv, DeskTypeOK
<1> DEFINE u == EarningUser[e]
           b == EarningBucket[e]
           n == EarningAmount[e]
<1>1. /\ component' = [component EXCEPT ![u][b] = @ + n]
      /\ system' = [system EXCEPT !["EARNINGS_EXPENSE"] = @ + n]
      /\ eventDelta' = eventDelta
      /\ posted' = posted \union {<<"EARNING", e>>}
      /\ UNCHANGED payoutVars /\ UNCHANGED subscriptionVars
  BY DEF EarningStep, PostEarning, Post
<1>2. u \in Users /\ b \in Buckets /\ b # "MAIN" /\ n \in Nat /\ n \in Int /\ FundsTypeOK
  BY EarningsAssumption DEF EarningBuckets, FundsTypeOK
<1>3. SumsTyped
  BY <1>2, SumsAreIntegers
<1> HIDE DEF u, b, n
<1>4. ReturnsKept /\ DepositKeysKept
  BY <1>1 DEF ReturnsKept, DepositKeysKept
<1>5. /\ SumFunction(GrossHeld') = SumFunction(GrossHeld)
      /\ SumFunction(NetPaid') = SumFunction(NetPaid)
      /\ SumFunction(FeeKept') = SumFunction(FeeKept)
      /\ \A v \in Users : SumFunction(SpentOnPayouts(v)') = SumFunction(SpentOnPayouts(v))
      /\ \A v \in Users : SumFunction(SpentOnPackages(v)') = SumFunction(SpentOnPackages(v))
      /\ \A v \in Users :
           SumFunction(AwaitingActivation(v)') = SumFunction(AwaitingActivation(v))
      /\ SumFunction(PrincipalHeld') = SumFunction(PrincipalHeld)
      /\ PrincipalNeedsRow'
  BY <1>1, <1>4, TablesKept DEF payoutVars, subscriptionVars, Books, PrincipalNeedsRow
<1>6. \A v \in Users, c \in Buckets :
        component'[v][c] = component[v][c] + (IF v = u /\ c = b THEN n ELSE 0)
  BY <1>1, <1>2 DEF LedgerTypeOK, Buckets
<1>7. SumFunction(BucketTotals') = SumFunction(BucketTotals) + n
  BY <1>2, <1>6, BucketMove
<1>8. \A a \in SystemAccounts :
        /\ system[a] \in Int
        /\ system'[a] = system[a] + (IF a = "EARNINGS_EXPENSE" THEN n ELSE 0)
  BY <1>1, <1>2 DEF LedgerTypeOK, SystemAccounts
<1>9. TrialBalance'
  BY <1>2, <1>3, <1>7, <1>8 DEF Books, TrialBalance, SystemAccounts, SumsTyped
<1>10. /\ PayoutAccountsMatchRows' /\ ControlMirrorsWallets' /\ EventsAreSpending'
       /\ PrincipalBacksPackages'
  BY <1>1, <1>5, <1>8 DEF Books, PayoutAccountsMatchRows, ControlMirrorsWallets,
     EventsAreSpending, PrincipalBacksPackages, SystemAccounts
<1>11. PaidPackagesStayFunded'
  <2>1. \A v \in Users : component'[v]["MAIN"] = component[v]["MAIN"]
    BY <1>2, <1>6 DEF LedgerTypeOK, Buckets
  <2> QED BY <1>5, <2>1 DEF Books, PaidPackagesStayFunded
<1> QED BY <1>5, <1>9, <1>10, <1>11 DEF Books

\* The books of the empty platform balance.
LEMMA BooksInitially == FundsInit => Books
<1> SUFFICES ASSUME FundsInit PROVE Books
  OBVIOUS
<1>1. /\ component = [u \in Users |-> [b \in Buckets |-> 0]]
      /\ eventDelta = [u \in Users |-> 0]
      /\ system = [a \in SystemAccounts |-> 0]
      /\ posted = {}
      /\ payout = [p \in Payouts |-> NoRow]
      /\ subscription = [s \in SubscriptionIds |-> NoSubscription]
  BY DEF FundsInit, LedgerInit, PayoutInit, SubscriptionInit
<1>2. /\ BucketTotals = [u \in Users |-> 0]
      /\ GrossHeld = [p \in Payouts |-> 0]
      /\ NetPaid = [p \in Payouts |-> 0]
      /\ FeeKept = [p \in Payouts |-> 0]
      /\ PrincipalHeld = [s \in SubscriptionIds |-> 0]
      /\ \A u \in Users : /\ SpentOnPayouts(u) = [p \in Payouts |-> 0]
                          /\ SpentOnPackages(u) = [s \in SubscriptionIds |-> 0]
                          /\ AwaitingActivation(u) = [d \in Deposits |-> 0]
  BY <1>1 DEF BucketTotals, SourceBalance, Buckets, GrossHeld, NetPaid, FeeKept, PrincipalHeld,
     SpentOnPayouts, SpentOnPackages, AwaitingActivation, NoRow, NoSubscription, OpenStatuses
<1>3. /\ SumFunction(BucketTotals) = 0 /\ SumFunction(eventDelta) = 0
      /\ SumFunction(GrossHeld) = 0
      /\ SumFunction(NetPaid) = 0
      /\ SumFunction(FeeKept) = 0
      /\ SumFunction(PrincipalHeld) = 0
      /\ \A u \in Users : /\ SumFunction(SpentOnPayouts(u)) = 0
                          /\ SumFunction(SpentOnPackages(u)) = 0
                          /\ SumFunction(AwaitingActivation(u)) = 0
  BY <1>1, <1>2, TablesFinite, TotalZero
<1>4. \A a \in SystemAccounts : system[a] = 0
  BY <1>1
<1>5. PrincipalNeedsRow
  BY <1>1 DEF PrincipalNeedsRow, NoSubscription
<1>6. PaidPackagesStayFunded
  <2>1. \A u \in Users : component[u]["MAIN"] = 0
    BY <1>1 DEF Buckets
  <2>2. ASSUME NEW u \in Users PROVE component[u]["MAIN"] >= SumFunction(AwaitingActivation(u))
    <3>1. component[u]["MAIN"] = 0 /\ SumFunction(AwaitingActivation(u)) = 0
      BY <1>3, <2>1
    <3> QED BY <3>1
  <2> QED BY <2>2 DEF PaidPackagesStayFunded
<1>7. TrialBalance /\ PayoutAccountsMatchRows /\ ControlMirrorsWallets /\ PrincipalBacksPackages
  BY <1>3, <1>4 DEF TrialBalance, PayoutAccountsMatchRows, ControlMirrorsWallets,
     PrincipalBacksPackages, SystemAccounts
<1>8. EventsAreSpending
  <2>1. \A u \in Users : eventDelta[u] = 0
    BY <1>1
  <2>2. ASSUME NEW u \in Users
        PROVE  eventDelta[u] =
                 - SumFunction(SpentOnPayouts(u)) - SumFunction(SpentOnPackages(u))
    <3>1. /\ SumFunction(SpentOnPayouts(u)) = 0 /\ SumFunction(SpentOnPackages(u)) = 0
          /\ eventDelta[u] = 0
      BY <1>3, <2>1
    <3> QED BY <3>1
  <2> QED BY <2>2 DEF EventsAreSpending
<1> QED BY <1>5, <1>6, <1>7, <1>8 DEF Books

\* Every step of the funds system keeps the books.
LEMMA BooksStep ==
  ASSUME FundsInv, Books, [FundsNext]_fundsVars
  PROVE  Books'
<1>1. FundsInv'
  BY FundsStep, FundsStutter
<1>2. FundsTypeOK'
  BY <1>1 DEF FundsInv, DeskInv, DeskTypeOK, FundsTypeOK
<1>3. CASE PayoutNext /\ UNCHANGED subscriptionVars
  BY <1>2, <1>3, DeskBooks
<1>4. CASE SubscriptionNext /\ UNCHANGED payoutVars
  BY <1>2, <1>4, SubscriptionBooks
<1>5. CASE PurchaseNext /\ UNCHANGED payoutVars
  BY <1>2, <1>5, PurchaseBooks DEF PurchaseNext
<1>6. CASE \E e \in Earnings : EarningStep(e)
  BY <1>2, <1>6, EarningBooks
<1>7. CASE UNCHANGED fundsVars
  BY <1>7, QuietSubscriptionBooks
     DEF fundsVars, ledgerVars, payoutVars, subscriptionVars, PrincipalsKept
<1> QED BY <1>3, <1>4, <1>5, <1>6, <1>7 DEF FundsNext, EarningStep

\* The books are kept: with FundsInv they are inductive.
THEOREM BooksAreKept == FundsSpec => []Books
<1>1. FundsInv /\ Books /\ [FundsNext]_fundsVars => Books'
  BY BooksStep
<1> QED BY BooksInitially, <1>1, FundsInvariant, PTL DEF FundsSpec

-----------------------------------------------------------------------------
(* What the books show.                                                     *)

\* Debits equal credits over all accounts of the platform.
THEOREM FundsBalance == FundsSpec => []TrialBalance
<1>1. Books => TrialBalance
  BY DEF Books
<1> QED BY <1>1, BooksAreKept, PTL

\* The payout accounts hold exactly what the payout rows say.
THEOREM FundsPayoutAccounts == FundsSpec => []PayoutAccountsMatchRows
<1>1. Books => PayoutAccountsMatchRows
  BY DEF Books
<1> QED BY <1>1, BooksAreKept, PTL

\* The control account mirrors the users' event logs.
THEOREM FundsControl == FundsSpec => []ControlMirrorsWallets
<1>1. Books => ControlMirrorsWallets
  BY DEF Books
<1> QED BY <1>1, BooksAreKept, PTL

\* The events of a user are what the Total Wallet paid for.
THEOREM FundsEvents == FundsSpec => []EventsAreSpending
<1>1. Books => EventsAreSpending
  BY DEF Books
<1> QED BY <1>1, BooksAreKept, PTL

\* Package principal is what the packages have not given back.
THEOREM FundsPrincipal == FundsSpec => []PrincipalBacksPackages
<1>1. Books => PrincipalBacksPackages
  BY DEF Books
<1> QED BY <1>1, BooksAreKept, PTL

\* MAIN covers the deposits that are credited and not yet activated.
THEOREM FundsPaidPackages == FundsSpec => []PaidPackagesStayFunded
<1>1. Books => PaidPackagesStayFunded
  BY DEF Books
<1> QED BY <1>1, BooksAreKept, PTL

\* The control account covers what any one user spent: events only ever spend.
LEMMA ControlCoversSpending ==
  ASSUME FundsTypeOK, Books, NEW p \in Payouts, payout[p].status \in OpenStatuses,
         payout[p].source = "TOTAL_WALLET"
  PROVE  system["PAYOUT_TOTAL_WALLET_CONTROL"] >= payout[p].gross
<1> DEFINE spent == [u \in Users |-> - eventDelta[u]]
           u == Owner(p)
<1>1. ContributionsTyped
  BY ContributionsAreAmounts
<1>2. u \in Users /\ SpentOnPayouts(u)[p] = payout[p].gross /\ payout[p].gross \in Nat
  BY DEF Owner, Payouts, SpentOnPayouts, FundsTypeOK, PayoutTypeOK, PayoutRows
<1>3. \A v \in Users :
        /\ SumFunction(SpentOnPayouts(v)) \in Nat
        /\ SumFunction(SpentOnPayouts(v)) >= SpentOnPayouts(v)[p]
  BY <1>1, TablesFinite, TotalCovers DEF ContributionsTyped
<1>4. \A v \in Users : SumFunction(SpentOnPackages(v)) \in Nat
  BY <1>1, TablesFinite, TotalNat DEF ContributionsTyped
<1>5. eventDelta \in [Users -> Int]
  BY <1>1 DEF ContributionsTyped
<1>6. \A v \in Users :
        spent[v] = SumFunction(SpentOnPayouts(v)) + SumFunction(SpentOnPackages(v))
  <2> SUFFICES ASSUME NEW v \in Users
               PROVE  - eventDelta[v] =
                        SumFunction(SpentOnPayouts(v)) + SumFunction(SpentOnPackages(v))
    OBVIOUS
  <2> DEFINE x == SumFunction(SpentOnPayouts(v))
             y == SumFunction(SpentOnPackages(v))
  <2>1. x \in Nat /\ y \in Nat /\ eventDelta[v] = - x - y
    BY <1>3, <1>4 DEF Books, EventsAreSpending
  <2>2. - eventDelta[v] = x + y
    <3> HIDE DEF x, y
    <3> QED BY <2>1
  <2> QED BY <2>2
<1>7. spent \in [Users -> Nat] /\ spent[u] >= payout[p].gross
  <2>1. ASSUME NEW v \in Users PROVE spent[v] \in Nat
    <3> DEFINE x == SumFunction(SpentOnPayouts(v))
               y == SumFunction(SpentOnPackages(v))
    <3>1. x \in Nat /\ y \in Nat /\ spent[v] = x + y
      BY <1>3, <1>4, <1>6
    <3> HIDE DEF x, y, spent
    <3> QED BY <3>1
  <2>2. spent[u] >= payout[p].gross
    <3> HIDE DEF spent, u
    <3> QED BY <1>2, <1>3, <1>4, <1>6
  <2> QED BY <2>1, <2>2
<1>8. SumFunction(spent) = - SumFunction(eventDelta)
  BY <1>5, TablesFinite, TotalNegated
<1>9. SumFunction(spent) \in Nat /\ SumFunction(spent) >= spent[u]
  <2> HIDE DEF spent, u
  <2> QED BY <1>2, <1>7, TablesFinite, TotalCovers
<1>10. system["PAYOUT_TOTAL_WALLET_CONTROL"] = SumFunction(spent)
  BY <1>8 DEF Books, ControlMirrorsWallets
<1> HIDE DEF spent
<1> QED BY <1>2, <1>7, <1>9, <1>10

\* Rejecting, settling and returning principal are never short of money.
THEOREM FundsCovered == FundsSpec => []AlwaysCovered
<1>1. FundsInv /\ Books => AlwaysCovered
  <2> SUFFICES ASSUME FundsInv, Books PROVE AlwaysCovered
    OBVIOUS
  <2>1. FundsTypeOK
    BY DEF FundsInv, DeskInv, DeskTypeOK, FundsTypeOK
  <2>2. ContributionsTyped
    BY <2>1, ContributionsAreAmounts
  <2>3. ASSUME NEW p \in Payouts, payout[p].status \in OpenStatuses
        PROVE  /\ system["PAYOUT_RESERVE"] >= payout[p].gross
               /\ payout[p].source = "TOTAL_WALLET" =>
                    system["PAYOUT_TOTAL_WALLET_CONTROL"] >= payout[p].gross
    <3>1. GrossHeld[p] = payout[p].gross
      BY <2>3 DEF GrossHeld
    <3>2. SumFunction(GrossHeld) >= GrossHeld[p]
      BY <2>2, TablesFinite, TotalCovers DEF ContributionsTyped
    <3> QED BY <2>1, <2>3, <3>1, <3>2, ControlCoversSpending DEF Books, PayoutAccountsMatchRows
  <2>4. ASSUME NEW s \in SubscriptionIds, <<"PRINCIPAL_RETURN", s>> \notin posted
        PROVE  system["PACKAGE_PRINCIPAL"] >= subscription[s].principal
    <3>1. PrincipalHeld[s] = subscription[s].principal
      BY <2>4 DEF PrincipalHeld
    <3>2. SumFunction(PrincipalHeld) >= PrincipalHeld[s]
      BY <2>2, TablesFinite, TotalCovers DEF ContributionsTyped
    <3> QED BY <3>1, <3>2 DEF Books, PrincipalBacksPackages
  <2> QED BY <2>3, <2>4 DEF AlwaysCovered
<1> QED BY <1>1, FundsInvariant, BooksAreKept, PTL
=============================================================================
