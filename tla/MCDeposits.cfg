CONSTANTS
  ann = ann
  ben = ben
  usdt = usdt
  usdc = usdc
  wallet1 = wallet1
  wallet2 = wallet2
  tx1 = tx1
  tx2 = tx2
  silver = silver
  gold = gold
  NoAccount = NoAccount
  NoTransfer = NoTransfer
  Users <- MCUsers
  Packages <- MCPackages
  Currency <- MCCurrency
  Rails = {usdt, usdc}
  Wallets = {wallet1, wallet2}
  Transfers = {tx1, tx2}
  Sender <- MCSender
  Present <- MCPresent
  Routes <- MCRoutes
  Earlier <- MCEarlier
  Lifetime = 2
  PerSecond = 2
  MaxTime = 3
  MaxDeposits = 1
  MaxSessions = 2
  MaxChanges = 1
SPECIFICATION SubmissionSpec
CHECK_DEADLOCK FALSE
INVARIANTS
  WalletHasOneHolder
  PaymentsStayWithPayer
  DepositsFollowSessions
