---------------------------- MODULE PolicyVersions ----------------------------
(***************************************************************************)
(* The versioned configuration of the backend: package plans, commission   *)
(* plans, reward, award, payout, trading and simulated-activity policies.  *)
(*                                                                         *)
(* Each of them is a table of versions.  A DRAFT is edited by any number   *)
(* of administrators from what their screens show, and is published with   *)
(* a range of time in which it is in effect; other code asks only for the  *)
(* version in effect at a time.  Every handler is one Serializable         *)
(* transaction that stamps what it writes, and the clock moves with it.    *)
(* Tables do not depend on each other, but that a trading policy is        *)
(* published against the simulated one; each behaviour is one study.        *)
(***************************************************************************)
EXTENDS Integers, Sequences

CONSTANTS
  Families,         \* the tables
  Contents,         \* family -> the contents a version may have
  Admins,           \* administrators with the right to edit and publish
  Studies           \* tables that are studied together, with the days and
                    \* the bounds of the study

Ranged == {"commissions", "rewards", "awards"}
LocalDay == {"trading", "simulated"}

ASSUME VersionsAssumption ==
  /\ Families \subseteq Ranged \union LocalDay \union {"packages", "payouts"}
  /\ \A f \in Families : Contents[f] # {}
  /\ \A x \in Studies :
       /\ x \in [tables : SUBSET Families, admins : SUBSET Admins,
                 dayLength : Nat \ {0}, offset : Nat,
                 maxTime : Nat, maxVersions : Nat, maxRevision : Nat]
       /\ x.offset < x.dayLength

VARIABLES
  study,            \* the tables and bounds of this behaviour
  now,              \* the clock
  zoneOffset,       \* platformTimezone of system_operations_config
  versions,         \* family -> its rows, by versionNumber
  screen            \* administrator -> the version last loaded

versionVars == <<study, now, zoneOffset, versions, screen>>

DayLength == study.dayLength
LocalOffset == study.offset    \* of the zone used before the UTC lock
MaxTime == study.maxTime
LastTime == MaxTime + 2 * DayLength
Forever == LastTime + 1    \* a null effectiveTo

(* "shown" records what the publishing administrator had been shown.        *)
Rows(f) ==
  [status : {"DRAFT", "PUBLISHED"}, revision : 1..(1 + study.maxRevision + MaxTime),
   content : Contents[f], shown : Contents[f],
   from : 0..Forever, to : 0..Forever, zone : {0, LocalOffset}]

VersionsTypeOK ==
  /\ study \in Studies
  /\ now \in 0..MaxTime
  /\ zoneOffset \in {0, LocalOffset}
  /\ DOMAIN versions = Families
  /\ \A f \in Families : versions[f] \in Seq(Rows(f))
  /\ DOMAIN screen = Admins
  /\ \A a \in Admins :
       screen[a].family \in Families => screen[a].content \in Contents[screen[a].family]

Draft(content) ==
  [status |-> "DRAFT", revision |-> 1, content |-> content, shown |-> content,
   from |-> 0, to |-> 0, zone |-> 0]

Seeded(f) == CHOOSE c \in Contents[f] : TRUE

NothingShown == [family |-> "none"]

(* Each table is seeded with a draft; that of the awards starts empty.      *)
VersionsInit ==
  /\ study \in Studies
  /\ now = 0
  /\ zoneOffset \in {0, LocalOffset}
  /\ versions = [f \in Families |->
       IF f \in study.tables \ {"awards"} THEN <<Draft(Seeded(f))>> ELSE <<>>]
  /\ screen = [a \in Admins |-> NothingShown]

Stamp == now < MaxTime /\ now' = now + 1

-----------------------------------------------------------------------------
(* Ranges.                                                                  *)

PublishedOf(f) == {v \in DOMAIN versions[f] : versions[f][v].status = "PUBLISHED"}

InEffect(f, at) ==
  {v \in PublishedOf(f) : versions[f][v].from <= at /\ at < versions[f][v].to}

Overlapping(f, from, to) ==
  {v \in PublishedOf(f) : versions[f][v].to > from /\ versions[f][v].from < to}

Open(f) == {v \in PublishedOf(f) : versions[f][v].to = Forever}

NextLocalMidnight(t, offset) == t + DayLength - ((t + offset) % DayLength)

LocalMidnightFrom(t, offset) ==
  IF (t + offset) % DayLength = 0 THEN t ELSE NextLocalMidnight(t, offset)

-----------------------------------------------------------------------------
(* Drafts.                                                                  *)

Drafts(f) == {v \in DOMAIN versions[f] : versions[f][v].status = "DRAFT"}

AddDraft(f, content) ==
  /\ f \in study.tables
  /\ Len(versions[f]) < study.maxVersions
  /\ versions' = [versions EXCEPT ![f] = Append(@, Draft(content))]
  /\ UNCHANGED <<study, now, zoneOffset, screen>>

(* One draft at a time, cloned from a published version.                    *)
Clone(f, source) ==
  /\ f \in study.tables
  /\ Drafts(f) = {}
  /\ source \in PublishedOf(f)
  /\ AddDraft(f, versions[f][source].content)

ClonePackagePlan(source) == Clone("packages", source)
CloneCommissionPlan(source) == Clone("commissions", source)
CloneRewardPolicy(source) == Clone("rewards", source)
CloneTradingPolicy(source) == Clone("trading", source)
CloneSimulatedPolicy(source) == Clone("simulated", source)

(* Awards have any number of drafts, made from any version or from nothing. *)
CreateAwardDraft(content) ==
  /\ "awards" \in study.tables
  /\ content \in Contents["awards"]
  /\ AddDraft("awards", content)

(* A payout draft always starts from the closed default.                    *)
CreatePayoutDraft ==
  /\ "payouts" \in study.tables
  /\ Drafts("payouts") = {}
  /\ AddDraft("payouts", Seeded("payouts"))

(* An administrator's page loads a version.                                 *)
Show(a, f, v) ==
  /\ f \in study.tables
  /\ v \in DOMAIN versions[f]
  /\ screen' = [screen EXCEPT ![a] =
       [family |-> f, version |-> v, revision |-> versions[f][v].revision,
        content |-> versions[f][v].content]]
  /\ UNCHANGED <<study, now, zoneOffset, versions>>

Shows(a, f) == f \in study.tables /\ screen[a].family = f

(* Mutant of Current: the revision is not compared.                         *)
CurrentWhatever(a, f) ==
  versions[f][screen[a].version].status = "DRAFT"

(* The draft is still at the revision the administrator was shown.          *)
Current(a, f) ==
  /\ versions[f][screen[a].version].status = "DRAFT"
  /\ versions[f][screen[a].version].revision = screen[a].revision

SaveDraft(a, f, content) ==
  /\ Shows(a, f)
  /\ content \in Contents[f]
  /\ Current(a, f)
  /\ screen[a].revision < study.maxRevision
  /\ versions' = [versions EXCEPT
       ![f][screen[a].version].content = content,
       ![f][screen[a].version].revision = @ + 1]
  /\ UNCHANGED <<study, now, zoneOffset, screen>>

SavePackageDraft(a, content) == SaveDraft(a, "packages", content)
SaveCommissionDraft(a, content) == SaveDraft(a, "commissions", content)
SaveRewardDraft(a, content) == SaveDraft(a, "rewards", content)
SaveAwardDraft(a, content) == SaveDraft(a, "awards", content)
SavePayoutDraft(a, content) == SaveDraft(a, "payouts", content)
SaveTradingDraft(a, content) == SaveDraft(a, "trading", content)
SaveSimulatedDraft(a, content) == SaveDraft(a, "simulated", content)

-----------------------------------------------------------------------------
(* Publication.                                                             *)

(* The draft on the administrator's screen becomes the version in effect    *)
(* from "from" to "to"; the predecessors in "closing" end at "end".         *)
PutInEffect(a, f, from, to, closing, end) ==
  /\ versions' = [versions EXCEPT ![f] = [v \in DOMAIN versions[f] |->
       IF v = screen[a].version
       THEN [versions[f][v] EXCEPT !.status = "PUBLISHED", !.revision = @ + 1,
                                   !.from = from, !.to = to, !.zone = zoneOffset,
                                   !.shown = screen[a].content]
       ELSE IF v \in closing THEN [versions[f][v] EXCEPT !.to = end, !.revision = @ + 1]
       ELSE versions[f][v]]]
  /\ UNCHANGED <<study, zoneOffset, screen>>

(* Mutant of Closable: any one overlapping version is cut off.              *)
ClosableAlways(f, from, overlaps) ==
  overlaps # {} => \E p \in overlaps : overlaps = {p}

(* An open predecessor that starts earlier may be closed; nothing else may  *)
(* overlap.                                                                 *)
Closable(f, from, overlaps) ==
  overlaps # {} =>
    \E p \in overlaps :
      /\ overlaps = {p}
      /\ versions[f][p].to = Forever
      /\ versions[f][p].from < from

PublishRange(a, f, from, to) ==
  LET overlaps == Overlapping(f, from, to)
  IN /\ Shows(a, f)
     /\ Current(a, f)
     /\ Stamp
     /\ from > now /\ from < to
     /\ Closable(f, from, overlaps)
     /\ PutInEffect(a, f, from, to, overlaps, from)

PublishCommissionPlan(a, from, to) == PublishRange(a, "commissions", from, to)
PublishRewardPolicy(a, from, to) == PublishRange(a, "rewards", from, to)
PublishAwardPolicy(a, from, to) == PublishRange(a, "awards", from, to)

(* Of package plans only one that is already in effect is closed.           *)
PublishPackagePlan(a, from, to) ==
  /\ PublishRange(a, "packages", from, to)
  /\ \A p \in Overlapping("packages", from, to) : versions["packages"][p].from <= now + 1

(* Mutant of ClosePackagePlan: the closure may lie in the past.             *)
CloseAnyTime(a, to) ==
  LET v == screen[a].version
      plan == versions["packages"][v]
  IN /\ Shows(a, "packages")
     /\ plan.status = "PUBLISHED"
     /\ plan.revision = screen[a].revision
     /\ Stamp
     /\ plan.from < to /\ to # Forever
     /\ Overlapping("packages", plan.from, to) \subseteq {v}
     /\ versions' = [versions EXCEPT !["packages"][v].to = to,
                                     !["packages"][v].revision = @ + 1]
     /\ UNCHANGED <<study, zoneOffset, screen>>

(* The end of a published plan may be moved as long as it has not come.     *)
ClosePackagePlan(a, to) ==
  LET v == screen[a].version
      plan == versions["packages"][v]
  IN /\ Shows(a, "packages")
     /\ plan.status = "PUBLISHED"
     /\ plan.revision = screen[a].revision
     /\ Stamp
     /\ plan.from < to /\ to # Forever
     /\ now + 1 < to
     /\ now + 1 < plan.to
     /\ Overlapping("packages", plan.from, to) \subseteq {v}
     /\ versions' = [versions EXCEPT !["packages"][v].to = to,
                                     !["packages"][v].revision = @ + 1]
     /\ UNCHANGED <<study, zoneOffset, screen>>

(* Payout policies take effect at once.                                     *)
PublishPayoutPolicy(a) ==
  /\ Shows(a, "payouts")
  /\ Current(a, "payouts")
  /\ \A p, q \in Open("payouts") : p = q
  /\ Stamp
  /\ PutInEffect(a, "payouts", now + 1, Forever, Open("payouts"), now + 1)

(* Trading and simulated activity change at midnight: the predecessor, once *)
(* it has started, ends with its own local day, and the successor starts    *)
(* with the first whole day of the platform's zone after that.              *)
PredecessorEnd(f) ==
  NextLocalMidnight(now + 1,
    IF Open(f) = {} THEN zoneOffset
    ELSE versions[f][CHOOSE p \in Open(f) : TRUE].zone)

DayBoundary(f) == LocalMidnightFrom(PredecessorEnd(f), zoneOffset)

(* Mutant of PublishAtMidnight: the predecessor stays open.                 *)
PublishKeepingOpen(a, f) ==
  /\ Shows(a, f)
  /\ Current(a, f)
  /\ \A p \in Open(f) : versions[f][p].from <= now + 1
  /\ InEffect(f, DayBoundary(f)) \subseteq Open(f)
  /\ Stamp
  /\ PutInEffect(a, f, DayBoundary(f), Forever, {}, PredecessorEnd(f))

PublishAtMidnight(a, f) ==
  /\ Shows(a, f)
  /\ Current(a, f)
  /\ \A p, q \in Open(f) : p = q
  /\ \A p \in Open(f) : versions[f][p].from <= now + 1
  /\ InEffect(f, DayBoundary(f)) \subseteq Open(f)
  /\ Stamp
  /\ PutInEffect(a, f, DayBoundary(f), Forever, Open(f), PredecessorEnd(f))

PublishSimulatedPolicy(a) == PublishAtMidnight(a, "simulated")

(* An enabled V2 policy needs the daily trades it will settle: five slots   *)
(* on the same calendar, from its first day on.                             *)
FiveSlotCalendar(at, offset) ==
  /\ "simulated" \in study.tables
  /\ \E s \in InEffect("simulated", at) :
       /\ InEffect("simulated", at) = {s}
       /\ versions["simulated"][s].content = "FIVE_SLOTS"
       /\ versions["simulated"][s].zone = offset

PublishTradingPolicy(a) ==
  /\ PublishAtMidnight(a, "trading")
  /\ versions["trading"][screen[a].version].content = "V2" =>
       FiveSlotCalendar(DayBoundary("trading"), zoneOffset)

-----------------------------------------------------------------------------
(* Time.                                                                    *)

Tick == Stamp /\ UNCHANGED <<study, zoneOffset, versions, screen>>

(* Migration 0038 moves the platform to UTC and leaves old snapshots alone. *)
LockPlatformTime ==
  /\ zoneOffset # 0
  /\ zoneOffset' = 0
  /\ UNCHANGED <<study, now, versions, screen>>

VersionsNext ==
  \/ \E source \in 1..study.maxVersions :
       \/ ClonePackagePlan(source) \/ CloneCommissionPlan(source)
       \/ CloneRewardPolicy(source)
       \/ CloneTradingPolicy(source) \/ CloneSimulatedPolicy(source)
  \/ \E content \in UNION {Contents[f] : f \in Families} : CreateAwardDraft(content)
  \/ CreatePayoutDraft
  \/ \E a \in study.admins, f \in Families, v \in 1..study.maxVersions : Show(a, f, v)
  \/ \E a \in study.admins, content \in UNION {Contents[f] : f \in Families} :
       \/ SavePackageDraft(a, content) \/ SaveCommissionDraft(a, content)
       \/ SaveRewardDraft(a, content) \/ SaveAwardDraft(a, content)
       \/ SavePayoutDraft(a, content) \/ SaveTradingDraft(a, content)
       \/ SaveSimulatedDraft(a, content)
  \/ \E a \in study.admins, from \in 1..LastTime, to \in 1..Forever :
       \/ PublishPackagePlan(a, from, to) \/ PublishCommissionPlan(a, from, to)
       \/ PublishRewardPolicy(a, from, to) \/ PublishAwardPolicy(a, from, to)
  \/ \E a \in study.admins, to \in 1..LastTime : ClosePackagePlan(a, to)
  \/ \E a \in study.admins :
       PublishPayoutPolicy(a) \/ PublishTradingPolicy(a) \/ PublishSimulatedPolicy(a)
  \/ Tick
  \/ LockPlatformTime

VersionsSpec == VersionsInit /\ [][VersionsNext]_versionVars

-----------------------------------------------------------------------------
(* Correctness.                                                             *)

(* Every published version gets its turn and no two of a table are ever in  *)
(* effect at one time, so that every reader of "the" effective version      *)
(* reads the same.                                                          *)
RangesDisjoint ==
  \A f \in Families : \A v \in PublishedOf(f) :
    /\ versions[f][v].from < versions[f][v].to
    /\ \A w \in PublishedOf(f) \ {v} :
         \/ versions[f][v].to <= versions[f][w].from
         \/ versions[f][w].to <= versions[f][v].from

(* What was in effect at a past time stays what was in effect then: nothing *)
(* is published, closed or edited backwards, so work done late for that     *)
(* time finds the same terms.                                               *)
PastIsSettled ==
  [][\A f \in Families, t \in 0..now :
       /\ InEffect(f, t)' = InEffect(f, t)
       /\ \A v \in InEffect(f, t) :
            versions'[f][v].content = versions[f][v].content]_versionVars

(* Nobody puts into effect what was not on the screen: a draft edited by    *)
(* someone else meanwhile is refused (expectedRevision).                    *)
PublishedAsShown ==
  \A f \in Families : \A v \in PublishedOf(f) :
    versions[f][v].content = versions[f][v].shown

(* Where publication does not choose an end, there is after the first       *)
(* publication always exactly one open version, the last one to start.      *)
AlwaysASuccessor ==
  \A f \in Families \ (Ranged \union {"packages"}) :
    PublishedOf(f) # {} =>
      \E last \in PublishedOf(f) :
        /\ Open(f) = {last}
        /\ \A v \in PublishedOf(f) : versions[f][v].from <= versions[f][last].from

(* What the documentation of daily claims says: while an enabled V2 policy  *)
(* is in effect, the effective policy of simulated activity has five slots  *)
(* on its calendar.                                                         *)
CalendarsAgree ==
  {"trading", "simulated"} \subseteq Families =>
    \A v \in InEffect("trading", now) :
      versions["trading"][v].content = "V2" =>
        FiveSlotCalendar(now, versions["trading"][v].zone)
=============================================================================
