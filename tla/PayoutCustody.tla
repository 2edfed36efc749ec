---------------------------- MODULE PayoutCustody ---------------------------
(***************************************************************************)
(* What the payout desk promises about money, without statuses, policies,  *)
(* review or accounts: the money of a payout is taken into custody at most *)
(* once, and what is in custody leaves it once, either back to the user or *)
(* out of the platform, in exactly the amount that was taken.              *)
(***************************************************************************)
EXTENDS Integers

CONSTANTS Items, Quantities

VARIABLES
  custody,     \* item -> where its money is
  quantity,    \* item -> the amount taken for it
  held,        \* total in custody
  paid         \* total paid out

custodyVars == <<custody, quantity, held, paid>>

CustodyInit ==
  /\ custody = [i \in Items |-> "USER"]
  /\ quantity = [i \in Items |-> 0]
  /\ held = 0
  /\ paid = 0

Take(i, n) ==
  /\ custody[i] = "USER"
  /\ custody' = [custody EXCEPT ![i] = "HELD"]
  /\ quantity' = [quantity EXCEPT ![i] = n]
  /\ held' = held + n
  /\ UNCHANGED paid

GiveBack(i) ==
  /\ custody[i] = "HELD"
  /\ custody' = [custody EXCEPT ![i] = "RETURNED"]
  /\ held' = held - quantity[i]
  /\ UNCHANGED <<quantity, paid>>

PayOut(i) ==
  /\ custody[i] = "HELD"
  /\ custody' = [custody EXCEPT ![i] = "PAID"]
  /\ held' = held - quantity[i]
  /\ paid' = paid + quantity[i]
  /\ UNCHANGED quantity

CustodyNext ==
  \E i \in Items : (\E n \in Quantities : Take(i, n)) \/ GiveBack(i) \/ PayOut(i)

CustodySpec == CustodyInit /\ [][CustodyNext]_custodyVars
=============================================================================
