----------------------------- MODULE MCTrading -----------------------------
(***************************************************************************)
(* Small instance of trading: a V1 package of two days, perhaps begun by   *)
(* the legacy generator, and a V2 package of two days, with two slots a    *)
(* day, the first of them before the scheduled end of the final day.       *)
(***************************************************************************)
EXTENDS Trading, TLC

CONSTANTS package, newcomer

OnePackage == {package}
OneActivated == package :> 1

MCSlotAt == <<0, 2>>
MCResults == {-1, 2}
MCPlan == <<-1, 3>>
MCDailyNet == [d \in Nat |-> IF d = 1 THEN 1 ELSE 2]
MCCalendars == {0 .. 9, {0, 1, 3, 4, 5, 6, 7, 8, 9}}

\* The policy is in the package's zone, or leaves it on the last day.
MCAbroad == {[s \in Subs |-> {}], [s \in Subs |-> {FinalDay(s)}]}
AtHome == {[s \in Subs |-> {}]}
AllAbroad == {[s \in Subs |-> IF s = package THEN Days ELSE {}]}
EveryDay == {0 .. 9}

\* The newcomer's activity starts the day after its activation.
Crowd == {package, newcomer}
CrowdActivated == (package :> 1) @@ (newcomer :> 3)
=============================================================================
