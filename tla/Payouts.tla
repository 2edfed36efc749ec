------------------------------ MODULE Payouts -------------------------------
(***************************************************************************)
(* Payout requests (backend/src/payouts): a user asks for money, it is     *)
(* reserved from the Total Wallet, an administrator reviews it, records    *)
(* the external transfer and marks it completed.                           *)
(*                                                                         *)
(* A request is identified by its user and the request key the client      *)
(* chose, which is how a retried call finds the row of the first one.  The *)
(* destination address is fixed data of a request and is left out.         *)
(***************************************************************************)
EXTENDS Ledger

CONSTANTS
  RequestKeys,      \* client-chosen idempotency keys
  Amounts,          \* gross amounts users ask for
  LegacySources,    \* buckets that requests could name before Total Wallet
  PayoutPolicies,   \* policy drafts an administrator may publish
  Networks,         \* networks money may be sent on
  Txids,            \* external transaction ids
  NoTxid

VARIABLES
  payout,           \* the payout_requests rows
  payoutPolicy,     \* the effective published policy
  totalWalletOnly   \* the release that pins requests to the Total Wallet is live

payoutVars == <<payout, payoutPolicy, totalWalletOnly>>

Payouts == Users \X RequestKeys

Owner(p) == p[1]

Sources == Buckets \union {"TOTAL_WALLET"}

OpenStatuses == {"PENDING_REVIEW", "APPROVED", "SUBMITTED"}

PayoutStatuses == OpenStatuses \union {"COMPLETED", "REJECTED"}

\* A payout_requests row; status "NONE" says there is no such row.
PayoutRows ==
  [status : PayoutStatuses \union {"NONE"}, source : Sources, gross : Nat,
   fee : Nat, net : Nat, network : Networks \union {"NONE"},
   txid : Txids \union {NoTxid}]

NoRow ==
  [status |-> "NONE", source |-> "TOTAL_WALLET", gross |-> 0, fee |-> 0,
   net |-> 0, network |-> "NONE", txid |-> NoTxid]

\* A missing minimum is 0, a missing maximum an amount nobody asks for.
PolicyRows ==
  [requestsEnabled : BOOLEAN, buckets : SUBSET Sources, minimum : Nat,
   maximum : Nat, fixedFee : Nat, percentageFee : Nat,
   network : Networks \union {"NONE"}]

NoPolicy ==
  [requestsEnabled |-> FALSE, buckets |-> {}, minimum |-> 0, maximum |-> 0,
   fixedFee |-> 0, percentageFee |-> 0, network |-> "NONE"]

ASSUME PayoutsAssumption ==
  /\ Amounts \subseteq Nat
  /\ LegacySources \subseteq Buckets
  /\ PayoutPolicies \subseteq PolicyRows
  /\ NoTxid \notin Txids

PayoutTypeOK ==
  /\ payout \in [Payouts -> PayoutRows]
  /\ payoutPolicy \in PolicyRows
  /\ totalWalletOnly \in BOOLEAN

PayoutInit ==
  /\ payout = [p \in Payouts |-> NoRow]
  /\ payoutPolicy = NoPolicy
  /\ totalWalletOnly = (LegacySources = {})

-----------------------------------------------------------------------------
(* Policy.                                                                  *)

(* The fixed fee plus a percentage of the gross amount, rounded half up to  *)
(* the smallest unit.                                                       *)
FeeOf(policy, gross) ==
  policy.fixedFee + (gross * policy.percentageFee + 50) \div 100

(* Publishing checks the draft, closes the open policy and puts the new one *)
(* into effect at once; rows already requested keep their own fee.          *)
PublishPolicy(policy) ==
  /\ policy.percentageFee <= 100
  /\ policy.minimum <= policy.maximum
  /\ policy.requestsEnabled => policy.buckets # {}
  /\ payoutPolicy' = policy
  /\ UNCHANGED <<ledgerVars, payout, totalWalletOnly>>

(* The Total Wallet release: from now on every new request names the Total  *)
(* Wallet, while requests made from a bucket finish from that bucket.       *)
ReleaseTotalWallet ==
  /\ ~ totalWalletOnly
  /\ totalWalletOnly' = TRUE
  /\ UNCHANGED <<ledgerVars, payout, payoutPolicy>>

RequestSources ==
  IF totalWalletOnly THEN {"TOTAL_WALLET"} ELSE LegacySources

-----------------------------------------------------------------------------
(* The three ledger transactions of a payout.  Each is posted under a       *)
(* source key of the payout and does nothing when it finds it posted.       *)

Once(key, Posting) ==
  IF key \in posted THEN UNCHANGED ledgerVars ELSE Posting

\* Mutant of Reserve: the Total Wallet is taken to be the sum of the buckets.
ReserveFromBuckets(p, source, gross) ==
  Once(<<"PAYOUT_RESERVE", p>>,
    /\ SourceBalance(Owner(p)) >= gross
    /\ Post(<<"PAYOUT_RESERVE", p>>, component,
         [system EXCEPT !["PAYOUT_TOTAL_WALLET_CONTROL"] = @ + gross,
                        !["PAYOUT_RESERVE"] = @ + gross],
         [eventDelta EXCEPT ![Owner(p)] = @ - gross])
    /\ UNCHANGED opened)

Reserve(p, source, gross) ==
  LET u == Owner(p)
  IN Once(<<"PAYOUT_RESERVE", p>>,
       /\ IF source = "TOTAL_WALLET"
          THEN /\ Available(u) >= gross
               /\ Post(<<"PAYOUT_RESERVE", p>>, component,
                    [system EXCEPT !["PAYOUT_TOTAL_WALLET_CONTROL"] = @ + gross,
                                   !["PAYOUT_RESERVE"] = @ + gross],
                    [eventDelta EXCEPT ![u] = @ - gross])
          ELSE /\ source \in opened[u]
               /\ Post(<<"PAYOUT_RESERVE", p>>,
                    [component EXCEPT ![u][source] = @ - gross],
                    [system EXCEPT !["PAYOUT_RESERVE"] = @ + gross],
                    eventDelta)
       /\ UNCHANGED opened)

\* Mutant of Release: the net amount is given back, not the gross amount.
ReleaseNet(p) ==
  Once(<<"PAYOUT_RELEASE", p>>,
    /\ payout[p].source = "TOTAL_WALLET"
    /\ Post(<<"PAYOUT_RELEASE", p>>, component,
         [system EXCEPT !["PAYOUT_TOTAL_WALLET_CONTROL"] = @ - payout[p].net,
                        !["PAYOUT_RESERVE"] = @ - payout[p].net],
         [eventDelta EXCEPT ![Owner(p)] = @ + payout[p].net])
    /\ UNCHANGED opened)

\* Mutant of Release: the accounts are reversed but no event is recorded.
ReleaseWithoutEvent(p) ==
  Once(<<"PAYOUT_RELEASE", p>>,
    /\ payout[p].source = "TOTAL_WALLET"
    /\ Post(<<"PAYOUT_RELEASE", p>>, component,
         [system EXCEPT !["PAYOUT_TOTAL_WALLET_CONTROL"] = @ - payout[p].gross,
                        !["PAYOUT_RESERVE"] = @ - payout[p].gross],
         eventDelta)
    /\ UNCHANGED opened)

Release(p) ==
  LET u == Owner(p)
      source == payout[p].source
      gross == payout[p].gross
  IN Once(<<"PAYOUT_RELEASE", p>>,
       /\ IF source = "TOTAL_WALLET"
          THEN Post(<<"PAYOUT_RELEASE", p>>, component,
                 [system EXCEPT !["PAYOUT_TOTAL_WALLET_CONTROL"] = @ - gross,
                                !["PAYOUT_RESERVE"] = @ - gross],
                 [eventDelta EXCEPT ![u] = @ + gross])
          ELSE /\ source \in opened[u]
               /\ Post(<<"PAYOUT_RELEASE", p>>,
                    [component EXCEPT ![u][source] = @ + gross],
                    [system EXCEPT !["PAYOUT_RESERVE"] = @ - gross],
                    eventDelta)
       /\ UNCHANGED opened)

\* Mutant of Settle: the fee leaves the platform with the transfer.
SettleGross(p) ==
  Once(<<"PAYOUT_SETTLEMENT", p>>,
    /\ Post(<<"PAYOUT_SETTLEMENT", p>>, component,
         [system EXCEPT !["PAYOUT_RESERVE"] = @ - payout[p].gross,
                        !["PAYOUT_SETTLEMENT"] = @ + payout[p].gross],
         eventDelta)
    /\ UNCHANGED opened)

Settle(p) ==
  Once(<<"PAYOUT_SETTLEMENT", p>>,
    /\ Post(<<"PAYOUT_SETTLEMENT", p>>, component,
         [system EXCEPT !["PAYOUT_RESERVE"] = @ - payout[p].gross,
                        !["PAYOUT_SETTLEMENT"] = @ + payout[p].net,
                        !["PAYOUT_FEE_REVENUE"] = @ + payout[p].fee],
         eventDelta)
    /\ UNCHANGED opened)

-----------------------------------------------------------------------------
(* The endpoints.  A retried request whose row exists returns that row, or  *)
(* an error when its data differs, and changes nothing either way.          *)

CreateRequest(p, source, gross) ==
  LET fee == FeeOf(payoutPolicy, gross)
  IN /\ payout[p].status = "NONE"
     /\ payoutPolicy.requestsEnabled
     /\ source \in payoutPolicy.buckets
     /\ gross > 0
     /\ payoutPolicy.minimum <= gross /\ gross <= payoutPolicy.maximum
     /\ gross - fee > 0
     /\ payout' = [payout EXCEPT ![p] =
          [status |-> "PENDING_REVIEW", source |-> source, gross |-> gross,
           fee |-> fee, net |-> gross - fee, network |-> payoutPolicy.network,
           txid |-> NoTxid]]
     /\ Reserve(p, source, gross)
     /\ UNCHANGED <<payoutPolicy, totalWalletOnly>>

Approve(p) ==
  /\ payout[p].status = "PENDING_REVIEW"
  /\ <<"PAYOUT_RESERVE", p>> \in posted
  /\ payout' = [payout EXCEPT ![p].status = "APPROVED"]
  /\ UNCHANGED <<ledgerVars, payoutPolicy, totalWalletOnly>>

\* Mutant of Reject: a payout is rejected in any status but REJECTED.
RejectAnyStatus(p) ==
  /\ payout[p].status \notin {"NONE", "REJECTED"}
  /\ Release(p)
  /\ payout' = [payout EXCEPT ![p].status = "REJECTED"]
  /\ UNCHANGED <<payoutPolicy, totalWalletOnly>>

Reject(p) ==
  /\ payout[p].status \in {"PENDING_REVIEW", "APPROVED"}
  /\ <<"PAYOUT_RESERVE", p>> \in posted
  /\ Release(p)
  /\ payout' = [payout EXCEPT ![p].status = "REJECTED"]
  /\ UNCHANGED <<payoutPolicy, totalWalletOnly>>

\* Mutant of SubmitExternalTxid: other payouts are not looked at.
SubmitAnyTxid(p, txid) ==
  /\ payout[p].status = "APPROVED"
  /\ payout' = [payout EXCEPT ![p].status = "SUBMITTED", ![p].txid = txid]
  /\ UNCHANGED <<ledgerVars, payoutPolicy, totalWalletOnly>>

SubmitExternalTxid(p, txid) ==
  /\ payout[p].status = "APPROVED"
  /\ \A q \in Payouts \ {p} :
       ~ (payout[q].network = payout[p].network /\ payout[q].txid = txid)
  /\ payout' = [payout EXCEPT ![p].status = "SUBMITTED", ![p].txid = txid]
  /\ UNCHANGED <<ledgerVars, payoutPolicy, totalWalletOnly>>

\* Mutant of Complete: the fee is quoted again from the policy now in effect.
CompleteRequoted(p) ==
  LET fee == FeeOf(payoutPolicy, payout[p].gross)
  IN /\ payout[p].status = "SUBMITTED"
     /\ Settle(p)
     /\ payout' = [payout EXCEPT ![p].status = "COMPLETED", ![p].fee = fee,
                                 ![p].net = payout[p].gross - fee]
     /\ UNCHANGED <<payoutPolicy, totalWalletOnly>>

Complete(p) ==
  /\ payout[p].status = "SUBMITTED"
  /\ payout[p].txid # NoTxid
  /\ Settle(p)
  /\ payout' = [payout EXCEPT ![p].status = "COMPLETED"]
  /\ UNCHANGED <<payoutPolicy, totalWalletOnly>>

PayoutNext ==
  \/ \E policy \in PayoutPolicies : PublishPolicy(policy)
  \/ ReleaseTotalWallet
  \/ \E p \in Payouts, source \in RequestSources, gross \in Amounts :
       CreateRequest(p, source, gross)
  \/ \E p \in Payouts : Approve(p)
  \/ \E p \in Payouts : Reject(p)
  \/ \E p \in Payouts, txid \in Txids : SubmitExternalTxid(p, txid)
  \/ \E p \in Payouts : Complete(p)

\* The desk alone, with the engines that credit earnings as its environment.
deskVars == <<ledgerVars, payoutVars>>

DeskInit == LedgerInit /\ PayoutInit

DeskNext ==
  \/ PayoutNext
  \/ \E e \in Earnings : PostEarning(e) /\ UNCHANGED payoutVars

DeskSpec == DeskInit /\ [][DeskNext]_deskVars

DeskTypeOK == LedgerTypeOK /\ PayoutTypeOK

-----------------------------------------------------------------------------
(* Payouts against the ledger.                                              *)

Reserved(p) == <<"PAYOUT_RESERVE", p>> \in posted
Released(p) == <<"PAYOUT_RELEASE", p>> \in posted
Settled(p) == <<"PAYOUT_SETTLEMENT", p>> \in posted

\* The status of a payout row and the ledger transactions posted for it tell
\* the same story: a row exists exactly when its money was reserved, it is
\* rejected exactly when the money was given back, and completed exactly when
\* it was settled.  However reviews, submissions and completions race, no
\* payout is both given back and settled.
LedgerMatchesStatus ==
  \A p \in Payouts :
    /\ Reserved(p) <=> payout[p].status # "NONE"
    /\ Released(p) <=> payout[p].status = "REJECTED"
    /\ Settled(p) <=> payout[p].status = "COMPLETED"

\* No two payouts carry one external transaction id on one network: one
\* transfer is never the evidence for settling two payouts.
OneTransferPerPayout ==
  \A p, q \in Payouts :
    p # q /\ payout[p].txid # NoTxid =>
      ~ (payout[p].txid = payout[q].txid /\ payout[p].network = payout[q].network)

\* What a user was quoted stays: after creation no step changes the amounts or
\* the source of a payout, whatever policy is published later, and a payout
\* that has ended (rejected or completed) never changes again.
QuoteAndEndAreFinal ==
  [][\A p \in Payouts :
       payout[p].status # "NONE" =>
         /\ payout'[p].source = payout[p].source
         /\ payout'[p].gross = payout[p].gross
         /\ payout'[p].net = payout[p].net
         /\ payout'[p].fee = payout[p].fee
         /\ payout[p].status \notin OpenStatuses => payout'[p] = payout[p]]_payoutVars

Custody == INSTANCE PayoutCustody WITH
  Items <- Payouts,
  Quantities <- Amounts,
  custody <- [p \in Payouts |->
                IF Settled(p) THEN "PAID" ELSE IF Released(p) THEN "RETURNED"
                ELSE IF Reserved(p) THEN "HELD" ELSE "USER"],
  quantity <- [p \in Payouts |-> payout[p].gross],
  held <- system["PAYOUT_RESERVE"],
  paid <- system["PAYOUT_SETTLEMENT"] + system["PAYOUT_FEE_REVENUE"]

\* Read from the ledger alone, the money of every payout is taken once and
\* leaves once, in full: the payout desk implements custody, whatever else
\* posts to the ledger.
PayoutCustodyHolds == Custody!CustodySpec
=============================================================================
