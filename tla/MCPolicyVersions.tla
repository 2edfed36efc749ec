--------------------------- MODULE MCPolicyVersions ---------------------------
(***************************************************************************)
(* Small instances of the versioned configuration: one table of each kind  *)
(* of publication, and the two tables whose calendars belong together.     *)
(***************************************************************************)
EXTENDS PolicyVersions, TLC

CONSTANTS ann, ben

BothAdmins == {ann, ben}
MCFamilies ==
  {"packages", "commissions", "rewards", "awards", "payouts", "trading", "simulated"}

MCContents ==
  [f \in MCFamilies |->
    CASE f = "trading" -> {"V1", "V2"}
      [] f = "simulated" -> {"FIVE_SLOTS", "THREE_SLOTS"}
      [] OTHER -> {"terms", "new terms"}]

\* Three versions with chosen ranges, of which the draft is not edited.
RangeStudies ==
  [tables : {{f} : f \in {"packages", "commissions"}}, admins : {{ann}},
   dayLength : {1}, offset : {0}, maxTime : {4}, maxVersions : {3}, maxRevision : {1}]

\* Two administrators and the drafts of one table.
DraftStudies ==
  [tables : {{f} : f \in MCFamilies}, admins : {BothAdmins},
   dayLength : {1}, offset : {0}, maxTime : {2}, maxVersions : {2}, maxRevision : {2}]

\* The two tables whose calendars belong together, across the UTC lock.
CalendarStudies(versionsOfEach) ==
  [tables : {{"trading", "simulated"}}, admins : {{ann}},
   dayLength : {2}, offset : {1}, maxTime : {4}, maxVersions : {versionsOfEach}, maxRevision : {2}]

MCStudies == RangeStudies \union DraftStudies \union CalendarStudies(3)
AgreementStudies == CalendarStudies(2)
=============================================================================
