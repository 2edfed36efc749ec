-------------------------- MODULE DepositSubmission --------------------------
(***************************************************************************)
(* How a user gets a receiving wallet, pays, and submits a deposit.        *)
(*                                                                         *)
(* Opening the deposit page of a package reserves the wallet the package   *)
(* is routed to, for one user and a limited time (a payment session).  The *)
(* user pays outside of the system and submits the id of the transaction;  *)
(* the session is consumed by the deposit, which holds the wallet until it *)
(* is reviewed.  Meanwhile administrators publish plans, route packages to *)
(* other accounts and switch accounts and rails off.                       *)
(*                                                                         *)
(* Every call is one Serializable transaction; a refused call leaves       *)
(* nothing behind, not even the release of expired sessions it began with. *)
(***************************************************************************)
EXTENDS Integers, Sequences, FiniteSets, SequencesExt

CONSTANTS
  Users,
  Packages,       \* package definitions
  Currency,       \* [Packages -> Rails]: the asset a package is paid in
  Rails,          \* assets received on the one network
  Wallets,        \* addresses
  Transfers,      \* ids of transactions on the network
  Sender,         \* [Transfers -> Users]: who pays with it
  Lifetime,       \* PAYMENT_INTENT_TTL_MS in instants
  PerSecond,      \* instants per second, the resolution of block times
  Earlier,        \* deposits of the earlier release that may still be open
  Present,        \* accounts there are at the start
  Routes,         \* routings of packages at the start
  NoAccount, NoTransfer,
  MaxTime,        \* bound of the clock
  MaxDeposits,    \* bound on submitted deposits
  MaxSessions,    \* bound on payment sessions
  MaxChanges      \* bound on changes by administrators and of packages

Accounts == Rails \X Wallets                 \* unique (paymentRailId, walletAddress)
RailOf(a) == a[1]
WalletOf(a) == a[2]

ASSUME SubmissionAssumption ==
  /\ Currency \in [Packages -> Rails] /\ Sender \in [Transfers -> Users]
  /\ {Lifetime, PerSecond} \subseteq Nat \ {0}
  /\ {MaxTime, MaxDeposits, MaxSessions, MaxChanges} \subseteq Nat
  /\ NoAccount \notin Accounts /\ NoTransfer \notin Transfers
  /\ Present \subseteq Accounts
  /\ Routes \subseteq {f \in [Packages -> Present \union {NoAccount}] :
       \A p \in Packages : f[p] # NoAccount => RailOf(f[p]) = Currency[p]}
  /\ IsFiniteSet(Earlier)
  /\ Earlier \subseteq [user : Users, package : Packages, account : Present]
  /\ \A d, e \in Earlier : \/ d = e
                           \/ d.user # e.user /\ WalletOf(d.account) # WalletOf(e.account)

VARIABLES
  now,            \* the clock
  plan,           \* number of the plan version in effect
  offered,        \* packages available in it
  rail,           \* deposit_payment_rails
  account,        \* deposit_accounts
  route,          \* deposit_package_account_routes
  running,        \* active subscriptions, as <<user, package>>
  sessions,       \* deposit_payment_intents, in the order they are inserted
  deposits,       \* deposits, in the order they are created
  transfer,       \* mined transactions
  changes         \* changes so far

submissionVars == <<now, plan, offered, rail, account, route, running, sessions,
                    deposits, transfer, changes>>
catalogue == <<plan, offered>>
routing == <<rail, account, route>>

Second(t) == t \div PerSecond
Open == {"AWAITING_TXID", "PENDING_REVIEW"}
NoCheckpoint == -1

Session ==
  [user : Users, plan : Nat, package : Packages, account : Accounts,
   checkpoint : Nat, expires : Nat, state : {"ACTIVE", "RELEASED", "CONSUMED"}]
Deposit ==
  [user : Users, plan : Nat, package : Packages, account : Accounts,
   checkpoint : Nat \union {NoCheckpoint}, txid : Transfers \union {NoTransfer},
   status : {"AWAITING_TXID", "PENDING_REVIEW", "REVIEWED"}]
Payment == [wallet : Wallets, second : Nat, held : BOOLEAN]

\* Rows, configuration and payments have their types.
SubmissionTypeOK ==
  /\ now \in Nat /\ plan \in Nat /\ changes \in Nat /\ offered \subseteq Packages
  /\ rail \in [Rails -> {"ACTIVE", "INACTIVE"}]
  /\ account \in [Accounts -> {"ACTIVE", "INACTIVE", "ABSENT"}]
  /\ route \in [Packages -> Accounts \union {NoAccount}]
  /\ running \subseteq Users \X Packages
  /\ sessions \in Seq(Session)
  /\ deposits \in Seq(Deposit)
  /\ transfer \in [Transfers -> Payment \union {NoTransfer}]

LegacyDeposit(e) ==
  [user |-> e.user, plan |-> 1, package |-> e.package, account |-> e.account,
   checkpoint |-> NoCheckpoint, txid |-> NoTransfer, status |-> "AWAITING_TXID"]

SubmissionInit ==
  /\ now = 0
  /\ plan = 1 /\ offered = Packages
  /\ rail = [r \in Rails |-> "ACTIVE"]
  /\ account = [a \in Accounts |-> IF a \in Present THEN "ACTIVE" ELSE "ABSENT"]
  /\ route \in Routes
  /\ running = {}
  /\ sessions = <<>>
  /\ deposits = SetToSeq({LegacyDeposit(e) : e \in Earlier})
  /\ transfer = [x \in Transfers |-> NoTransfer]
  /\ changes = 0

-----------------------------------------------------------------------------
(* Reservations *)

\* Sessions that keep their unique keys once the expired ones are released.
Unexpired(s) == s.state = "ACTIVE" /\ s.expires > now

ReleaseExpired(ss) ==
  [i \in DOMAIN ss |->
     IF ss[i].state = "ACTIVE" /\ ss[i].expires <= now
     THEN [ss[i] EXCEPT !.state = "RELEASED"] ELSE ss[i]]

HasOpenDeposit(u) == \E i \in DOMAIN deposits : deposits[i].user = u /\ deposits[i].status \in Open

\* Mutant of ReservedByDeposit: only sessions are asked.
ReservedByNoDeposit(w) == FALSE

ReservedByDeposit(w) ==
  \E i \in DOMAIN deposits : /\ WalletOf(deposits[i].account) = w
                             /\ deposits[i].status \in Open

ReservedBySession(w) == \E i \in DOMAIN sessions : /\ Unexpired(sessions[i])
                                                   /\ WalletOf(sessions[i].account) = w

SessionsOf(u) == {i \in DOMAIN sessions : Unexpired(sessions[i]) /\ sessions[i].user = u}

\* The reservation of the session's wallet is the session's own.
HoldsWallet(i) ==
  \A j \in DOMAIN sessions :
    Unexpired(sessions[j]) /\ WalletOf(sessions[j].account) = WalletOf(sessions[i].account)
      => j = i

\* The account a deposit for p is paid to; otherwise the call is refused.
Payable(p) == /\ p \in offered
              /\ route[p] # NoAccount
              /\ account[route[p]] = "ACTIVE"
              /\ rail[RailOf(route[p])] = "ACTIVE"
              /\ RailOf(route[p]) = Currency[p]

\* Mutant of MatchesRoute: the account is not compared.
MatchesPackage(s, p) == s.plan = plan /\ s.package = p

\* The terms of session s are those the package has now.
MatchesRoute(s, p) == s.plan = plan /\ s.package = p /\ s.account = route[p]

-----------------------------------------------------------------------------
(* The user's calls *)

NewSession(u, p) ==
  [user |-> u, plan |-> plan, package |-> p, account |-> route[p],
   checkpoint |-> now, expires |-> now + Lifetime, state |-> "ACTIVE"]

GetPackageDepositContext(u, p) ==
  /\ Payable(p)
  /\ \/ HasOpenDeposit(u) /\ sessions' = ReleaseExpired(sessions)
     \/ /\ ~HasOpenDeposit(u)
        /\ \E i \in SessionsOf(u) :
             /\ MatchesRoute(sessions[i], p)
             /\ sessions' = ReleaseExpired(sessions)
     \/ /\ ~HasOpenDeposit(u) /\ SessionsOf(u) = {}
        /\ ~ReservedByDeposit(WalletOf(route[p]))
        /\ ~ReservedBySession(WalletOf(route[p]))
        /\ Len(sessions) < MaxSessions
        /\ sessions' = Append(ReleaseExpired(sessions), NewSession(u, p))
  /\ UNCHANGED <<now, catalogue, routing, running, deposits, transfer, changes>>

\* A user enters the id of any mined transaction or of a pending one of the
\* user's own; it is unique on the network.
Enterable(u, x) == /\ transfer[x] # NoTransfer \/ Sender[x] = u
                   /\ \A i \in DOMAIN deposits : deposits[i].txid # x

NewDeposit(u, p, checkpoint, x) ==
  [user |-> u, plan |-> plan, package |-> p, account |-> route[p],
   checkpoint |-> checkpoint, txid |-> x, status |-> "PENDING_REVIEW"]

SubmitDeposit(u, p, x) ==
  /\ Len(deposits) - Cardinality(Earlier) < MaxDeposits
  /\ ~HasOpenDeposit(u) /\ Payable(p) /\ <<u, p>> \notin running
  /\ ~ReservedByDeposit(WalletOf(route[p]))
  /\ Enterable(u, x)
  /\ \E i \in SessionsOf(u) :
       /\ MatchesRoute(sessions[i], p) /\ HoldsWallet(i)
       /\ deposits' = Append(deposits, NewDeposit(u, p, sessions[i].checkpoint, x))
       /\ sessions' = [ReleaseExpired(sessions) EXCEPT ![i].state = "CONSUMED"]
  /\ UNCHANGED <<now, catalogue, routing, running, transfer, changes>>

\* The deposits of the earlier release come without a session.
SubmitTxid(i, x) ==
  /\ deposits[i].status = "AWAITING_TXID" /\ Enterable(deposits[i].user, x)
  /\ deposits' = [deposits EXCEPT ![i].txid = x, ![i].status = "PENDING_REVIEW"]
  /\ UNCHANGED <<now, catalogue, routing, running, sessions, transfer, changes>>

\* The review of a deposit (DepositApproval), approved or rejected, ends its
\* reservation.
FinalizeDeposit(i) ==
  /\ deposits[i].status = "PENDING_REVIEW"
  /\ deposits' = [deposits EXCEPT ![i].status = "REVIEWED"]
  /\ UNCHANGED <<now, catalogue, routing, running, sessions, transfer, changes>>

-----------------------------------------------------------------------------
(* Administration *)

Change == changes < MaxChanges /\ changes' = changes + 1

\* The next plan version takes effect: its items have new ids.
PublishPlan(available) ==
  /\ Change
  /\ plan' = plan + 1 /\ offered' = available
  /\ UNCHANGED <<now, routing, running, sessions, deposits, transfer>>

CreateAccount(a, status) ==
  /\ Change
  /\ account[a] = "ABSENT"
  /\ status = "ACTIVE" => rail[RailOf(a)] = "ACTIVE"
  /\ account' = [account EXCEPT ![a] = status]
  /\ UNCHANGED <<now, catalogue, rail, route, running, sessions, deposits, transfer>>

CreatePackageAccount(p, a) ==
  /\ Change
  /\ route[p] = NoAccount /\ account[a] = "ABSENT"
  /\ rail[RailOf(a)] = "ACTIVE" /\ RailOf(a) = Currency[p]
  /\ account' = [account EXCEPT ![a] = "ACTIVE"]
  /\ route' = [route EXCEPT ![p] = a]
  /\ UNCHANGED <<now, catalogue, rail, running, sessions, deposits, transfer>>

ConfigurePackageRoute(p, a) ==
  /\ Change
  /\ \/ a = NoAccount
     \/ /\ a \in Accounts
        /\ account[a] = "ACTIVE" /\ rail[RailOf(a)] = "ACTIVE"
        /\ RailOf(a) = Currency[p]
  /\ route' = [route EXCEPT ![p] = a]
  /\ UNCHANGED <<now, catalogue, rail, account, running, sessions, deposits, transfer>>

UpdateAccount(a, status) ==
  /\ Change
  /\ account[a] # "ABSENT"
  /\ status = "ACTIVE" => rail[RailOf(a)] = "ACTIVE"
  /\ account' = [account EXCEPT ![a] = status]
  /\ UNCHANGED <<now, catalogue, rail, route, running, sessions, deposits, transfer>>

UpdateRail(r, status) ==
  /\ Change
  /\ rail' = [rail EXCEPT ![r] = status]
  /\ UNCHANGED <<now, catalogue, account, route, running, sessions, deposits, transfer>>

-----------------------------------------------------------------------------
(* Around the deposits *)

\* Packages start and end (Subscriptions).
PackageChanges(u, p) ==
  /\ Change
  /\ running' = IF <<u, p>> \in running THEN running \ {<<u, p>>} ELSE running \union {<<u, p>>}
  /\ UNCHANGED <<now, catalogue, routing, sessions, deposits, transfer>>

Holds(u, w) ==
  \/ \E i \in SessionsOf(u) : WalletOf(sessions[i].account) = w
  \/ \E i \in DOMAIN deposits : /\ deposits[i].user = u /\ deposits[i].status \in Open
                                /\ WalletOf(deposits[i].account) = w

\* A payment to wallet w is mined; whether its sender holds the wallet is noted
\* for the properties.
Mine(x, w) ==
  /\ transfer[x] = NoTransfer
  /\ transfer' = [transfer EXCEPT ![x] =
       [wallet |-> w, second |-> Second(now), held |-> Holds(Sender[x], w)]]
  /\ UNCHANGED <<now, catalogue, routing, running, sessions, deposits, changes>>

Tick ==
  /\ now < MaxTime /\ now' = now + 1
  /\ UNCHANGED <<catalogue, routing, running, sessions, deposits, transfer, changes>>

SubmissionNext ==
  \/ \E u \in Users, p \in Packages : GetPackageDepositContext(u, p)
  \/ \E u \in Users, p \in Packages, x \in Transfers : SubmitDeposit(u, p, x)
  \/ \E i \in DOMAIN deposits, x \in Transfers : SubmitTxid(i, x)
  \/ \E i \in DOMAIN deposits : FinalizeDeposit(i)
  \/ \E available \in SUBSET Packages : PublishPlan(available)
  \/ \E a \in Accounts, status \in {"ACTIVE", "INACTIVE"} : CreateAccount(a, status)
  \/ \E p \in Packages, a \in Accounts : CreatePackageAccount(p, a)
  \/ \E p \in Packages, a \in Accounts \union {NoAccount} : ConfigurePackageRoute(p, a)
  \/ \E a \in Accounts, status \in {"ACTIVE", "INACTIVE"} : UpdateAccount(a, status)
  \/ \E r \in Rails, status \in {"ACTIVE", "INACTIVE"} : UpdateRail(r, status)
  \/ \E u \in Users, p \in Packages : PackageChanges(u, p)
  \/ \E x \in Transfers, w \in Wallets : Mine(x, w)
  \/ Tick

SubmissionSpec == SubmissionInit /\ [][SubmissionNext]_submissionVars

-----------------------------------------------------------------------------
(* Properties *)

\* Mutant of NotBeforeCheckpoint: the time of the block is not read.
AtAnyTime(d) == TRUE

\* What the blockchain verification of deposit d asks of its transaction, apart
\* from amount and confirmations: the wallet, and a block not before the second
\* of the checkpoint.  Deposits of the earlier release have no checkpoint.
NotBeforeCheckpoint(d) ==
  d.checkpoint = NoCheckpoint \/ transfer[d.txid].second >= Second(d.checkpoint)
Mined(d) == d.txid # NoTransfer /\ transfer[d.txid] # NoTransfer
Verifies(d) == /\ transfer[d.txid].wallet = WalletOf(d.account)
               /\ NotBeforeCheckpoint(d)

\* A wallet is held by at most one session or open deposit, and a user holds at
\* most one wallet, however accounts on several rails share the wallet and
\* packages are routed anew; only the sessions among themselves are kept apart
\* by a unique key (getPackageDepositContext, submitDeposit).
WalletHasOneHolder ==
  LET held == {i \in DOMAIN sessions : Unexpired(sessions[i])}
      open == {i \in DOMAIN deposits : deposits[i].status \in Open}
  IN  /\ \A w \in Wallets :
           Cardinality({i \in held : WalletOf(sessions[i].account) = w})
             + Cardinality({i \in open : WalletOf(deposits[i].account) = w}) <= 1
      /\ \A u \in Users :
           Cardinality({i \in held : sessions[i].user = u})
             + Cardinality({i \in open : deposits[i].user = u}) <= 1

\* A payment mined while its payer holds the wallet never verifies the deposit
\* of somebody else, also when the session runs out unused and the wallet goes to
\* the next user: the checkpoint separates them, to the second in which the
\* wallet changes hands (isBlockAtOrAfterDepositCheckpoint).
PaymentsStayWithPayer ==
  \A i \in DOMAIN deposits :
    LET d == deposits[i]
    IN  Mined(d) /\ Verifies(d) /\ transfer[d.txid].held /\ Sender[d.txid] # d.user
          => transfer[d.txid].second = Second(d.checkpoint)

\* Every deposit takes up exactly one session, and is assigned to the account,
\* plan and package that the user was shown when it was opened, whatever was
\* routed or published since (submitDeposit).
Terms(r) == [user |-> r.user, plan |-> r.plan, package |-> r.package,
             account |-> r.account, checkpoint |-> r.checkpoint]
DepositsFollowSessions ==
  LET new == {i \in DOMAIN deposits : deposits[i].checkpoint # NoCheckpoint}
      used == {i \in DOMAIN sessions : sessions[i].state = "CONSUMED"}
  IN  \A t \in {Terms(deposits[i]) : i \in new} \union {Terms(sessions[i]) : i \in used} :
        Cardinality({i \in new : Terms(deposits[i]) = t})
          = Cardinality({i \in used : Terms(sessions[i]) = t})
=============================================================================
