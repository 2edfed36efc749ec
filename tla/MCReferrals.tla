---------------------------- MODULE MCReferrals -----------------------------
(***************************************************************************)
(* Small instance of the sponsor tree: four people, one of whom may be     *)
(* suspended, and six stamped writes.                                      *)
(***************************************************************************)
EXTENDS Referrals, TLC

CONSTANTS u1, u2, u3, u4

MCUsers == {u1, u2, u3, u4}
MCSuspendable == {u4}
MCSymmetry == Permutations({u1, u2, u3})
=============================================================================
