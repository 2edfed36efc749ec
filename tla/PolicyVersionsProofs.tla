------------------------- MODULE PolicyVersionsProofs -------------------------
(***************************************************************************)
(* Proofs about the versioned configuration, for every set of tables,      *)
(* contents, administrators and studies.                                   *)
(*                                                                         *)
(* The actions come down to six kinds of steps: a draft is added or saved, *)
(* a version is published with a range of its own or until a successor     *)
(* comes, the end of a package plan is moved, and everything else writes   *)
(* no version.  Each lemma is about one kind.                              *)
(***************************************************************************)
EXTENDS PolicyVersions, SequenceTheorems, TLAPS

\* The tables whose versions end only when their successor begins.
Successive == Families \ (Ranged \union {"packages"})

\* Every write of a version raises its revision, and stamps unless it is the
\* saving of a draft.
RevisionsBounded ==
  \A f \in Families : \A v \in DOMAIN versions[f] :
    versions[f][v].revision <= 1 + study.maxRevision + now

\* What a screen shows is the row as it was at the revision shown: a row that
\* is still at that revision has the content shown.
ScreensBehind ==
  \A a \in Admins, f \in Families : screen[a].family = f =>
    /\ screen[a].version \in DOMAIN versions[f]
    /\ screen[a].revision \in Nat
    /\ screen[a].revision <= versions[f][screen[a].version].revision
    /\ versions[f][screen[a].version].revision = screen[a].revision
         => versions[f][screen[a].version].content = screen[a].content

\* A payout policy takes effect with its publication.
PayoutsAtOnce ==
  \A f \in Families : f = "payouts" =>
    \A v \in PublishedOf(f) : versions[f][v].from <= now

VersionsInv ==
  /\ VersionsTypeOK /\ RevisionsBounded /\ ScreensBehind /\ PayoutsAtOnce
  /\ RangesDisjoint /\ AlwaysASuccessor /\ PublishedAsShown

-----------------------------------------------------------------------------
(* Midnights.                                                               *)

\* The next midnight is after t and at most a day away.
LEMMA NextMidnight ==
  ASSUME DayLength \in Nat \ {0}, NEW t \in Nat, NEW offset \in Nat
  PROVE  /\ NextLocalMidnight(t, offset) \in Nat
         /\ NextLocalMidnight(t, offset) > t
         /\ NextLocalMidnight(t, offset) <= t + DayLength
<1> DEFINE rest == (t + offset) % DayLength
<1>1. rest \in 0..(DayLength - 1)
  OBVIOUS
<1> HIDE DEF rest
<1> QED BY <1>1 DEF NextLocalMidnight, rest

\* The first midnight from t on is t or the next one.
LEMMA MidnightFrom ==
  ASSUME DayLength \in Nat \ {0}, NEW t \in Nat, NEW offset \in Nat
  PROVE  /\ LocalMidnightFrom(t, offset) \in Nat
         /\ LocalMidnightFrom(t, offset) >= t
         /\ LocalMidnightFrom(t, offset) <= t + DayLength
BY NextMidnight DEF LocalMidnightFrom

\* The bounds of a study are numbers, and its tables are tables.
LEMMA StudyTyped ==
  ASSUME VersionsTypeOK
  PROVE  /\ study.tables \subseteq Families /\ study.admins \subseteq Admins
         /\ DayLength \in Nat \ {0} /\ LocalOffset \in Nat
         /\ MaxTime \in Nat /\ study.maxVersions \in Nat /\ study.maxRevision \in Nat
         /\ now \in Nat /\ zoneOffset \in Nat
         /\ LastTime \in Nat /\ MaxTime <= LastTime /\ Forever = LastTime + 1
<1>1. study \in Studies
  BY DEF VersionsTypeOK
<1>2. /\ study.tables \subseteq Families /\ study.admins \subseteq Admins
      /\ study.dayLength \in Nat \ {0} /\ study.offset \in Nat /\ study.maxTime \in Nat
      /\ study.maxVersions \in Nat /\ study.maxRevision \in Nat
  BY <1>1, VersionsAssumption
<1>3. DayLength \in Nat \ {0} /\ LocalOffset \in Nat /\ MaxTime \in Nat
  BY <1>2 DEF DayLength, LocalOffset, MaxTime
<1>4. LastTime \in Nat /\ MaxTime <= LastTime /\ Forever = LastTime + 1
  BY <1>3 DEF LastTime, Forever
<1>5. now \in Nat /\ zoneOffset \in Nat
  BY <1>3 DEF VersionsTypeOK
<1> QED BY <1>2, <1>3, <1>4, <1>5

\* A study does not change.
LEMMA StudyKept ==
  ASSUME study' = study
  PROVE  /\ DayLength' = DayLength /\ LocalOffset' = LocalOffset /\ MaxTime' = MaxTime
         /\ LastTime' = LastTime /\ Forever' = Forever
         /\ \A f \in Families : Rows(f)' = Rows(f)
BY DEF DayLength, LocalOffset, MaxTime, LastTime, Forever, Rows

\* The rows of a table are numbered from 1 and have their type.
LEMMA RowsTyped ==
  ASSUME VersionsTypeOK, NEW f \in Families
  PROVE  /\ Len(versions[f]) \in Nat /\ DOMAIN versions[f] = 1..Len(versions[f])
         /\ \A v \in DOMAIN versions[f] :
              /\ versions[f][v] \in Rows(f)
              /\ versions[f][v].status \in {"DRAFT", "PUBLISHED"}
              /\ versions[f][v].revision \in Nat
              /\ versions[f][v].content \in Contents[f]
              /\ versions[f][v].from \in Nat /\ versions[f][v].to \in Nat
              /\ versions[f][v].to <= Forever
              /\ versions[f][v].zone \in {0, LocalOffset}
<1>1. versions[f] \in Seq(Rows(f))
  BY DEF VersionsTypeOK
<1>2. Len(versions[f]) \in Nat /\ DOMAIN versions[f] = 1..Len(versions[f])
  BY <1>1, LenProperties
<1>3. \A v \in DOMAIN versions[f] : versions[f][v] \in Rows(f)
  BY <1>1, <1>2, ElementOfSeq
<1>4. Forever \in Nat /\ 1 + study.maxRevision + MaxTime \in Nat
  BY StudyTyped
<1> QED BY <1>2, <1>3, <1>4 DEF Rows

-----------------------------------------------------------------------------
(* The kinds of steps.                                                      *)

\* Nothing is written to a version.
QuietStep ==
  /\ UNCHANGED <<study, versions>>
  /\ now' \in {now, now + 1} /\ now' <= MaxTime
  /\ zoneOffset' \in {0, zoneOffset}
  /\ \/ UNCHANGED screen
     \/ \E a \in Admins, f \in Families : \E v : Show(a, f, v)

AddStep(f, content) == f \in Families /\ content \in Contents[f] /\ AddDraft(f, content)

SaveStep(a, f, content) == a \in Admins /\ f \in Families /\ SaveDraft(a, f, content)

RangeStep(a, f, from, to) ==
  /\ a \in Admins /\ f \in Families /\ f \notin Successive
  /\ from \in 1..LastTime /\ to \in 1..Forever
  /\ PublishRange(a, f, from, to)

SuccessorStep(a, f, from, end) ==
  /\ a \in Admins /\ f \in Successive
  /\ Shows(a, f) /\ Current(a, f) /\ Stamp
  /\ end \in Nat /\ from \in Nat /\ now < end /\ end <= from /\ from <= LastTime
  /\ f = "payouts" => from = now + 1
  /\ \A p \in Open(f) : versions[f][p].from < end
  /\ PutInEffect(a, f, from, Forever, Open(f), end)

CloseStep(a, to) ==
  a \in Admins /\ to \in 1..LastTime /\ "packages" \in Families /\ ClosePackagePlan(a, to)

\* Every action is of one of the six kinds.
LEMMA StepKinds ==
  ASSUME VersionsInv, VersionsNext
  PROVE  \/ QuietStep
         \/ \E f, content : AddStep(f, content)
         \/ \E a, f, content : SaveStep(a, f, content)
         \/ \E a, f, from, to : RangeStep(a, f, from, to)
         \/ \E a, f, from, end : SuccessorStep(a, f, from, end)
         \/ \E a, to : CloseStep(a, to)
<1> DEFINE Kinds == \/ QuietStep
                    \/ \E f, content : AddStep(f, content)
                    \/ \E a, f, content : SaveStep(a, f, content)
                    \/ \E a, f, from, to : RangeStep(a, f, from, to)
                    \/ \E a, f, from, end : SuccessorStep(a, f, from, end)
                    \/ \E a, to : CloseStep(a, to)
<1>1. /\ study.tables \subseteq Families /\ study.admins \subseteq Admins
      /\ now \in Nat /\ zoneOffset \in Nat /\ MaxTime \in Nat /\ now <= MaxTime
      /\ DayLength \in Nat \ {0} /\ LastTime = MaxTime + 2 * DayLength
  BY StudyTyped DEF VersionsInv, VersionsTypeOK, LastTime
<1>2. ASSUME NEW f \in Families, NEW source, Clone(f, source)
      PROVE  Kinds
  <2>1. versions[f][source].content \in Contents[f]
    BY <1>2, RowsTyped DEF Clone, PublishedOf, VersionsInv
  <2> QED BY <1>2, <2>1 DEF Clone, AddStep
<1>3. ASSUME NEW source,
             \/ ClonePackagePlan(source) \/ CloneCommissionPlan(source)
             \/ CloneRewardPolicy(source)
             \/ CloneTradingPolicy(source) \/ CloneSimulatedPolicy(source)
      PROVE  Kinds
  <2>1. PICK f : Clone(f, source)
    BY <1>3 DEF ClonePackagePlan, CloneCommissionPlan, CloneRewardPolicy,
       CloneTradingPolicy, CloneSimulatedPolicy
  <2>2. f \in Families
    BY <1>1, <2>1 DEF Clone
  <2> HIDE DEF Kinds
  <2> QED BY <1>2, <2>1, <2>2
<1>4. ASSUME NEW content, CreateAwardDraft(content) PROVE Kinds
  BY <1>1, <1>4 DEF CreateAwardDraft, AddStep
<1>5. ASSUME CreatePayoutDraft PROVE Kinds
  <2>1. "payouts" \in Families
    BY <1>1, <1>5 DEF CreatePayoutDraft
  <2>2. Seeded("payouts") \in Contents["payouts"]
    BY <2>1, VersionsAssumption DEF Seeded
  <2> QED BY <1>5, <2>1, <2>2 DEF CreatePayoutDraft, AddStep
<1>6. ASSUME NEW a \in study.admins, NEW f \in Families, NEW v, Show(a, f, v) PROVE Kinds
  BY <1>1, <1>6 DEF Show, QuietStep
<1>7. ASSUME NEW a \in study.admins, NEW content,
             \/ SavePackageDraft(a, content) \/ SaveCommissionDraft(a, content)
             \/ SaveRewardDraft(a, content) \/ SaveAwardDraft(a, content)
             \/ SavePayoutDraft(a, content) \/ SaveTradingDraft(a, content)
             \/ SaveSimulatedDraft(a, content)
      PROVE  Kinds
  <2>1. PICK f : SaveDraft(a, f, content)
    BY <1>7 DEF SavePackageDraft, SaveCommissionDraft, SaveRewardDraft, SaveAwardDraft,
       SavePayoutDraft, SaveTradingDraft, SaveSimulatedDraft
  <2>2. a \in Admins /\ f \in Families
    BY <1>1, <2>1 DEF SaveDraft, Shows
  <2> QED BY <2>1, <2>2 DEF SaveStep
<1>8. ASSUME NEW a \in study.admins, NEW from \in 1..LastTime, NEW to \in 1..Forever,
             \/ PublishPackagePlan(a, from, to) \/ PublishCommissionPlan(a, from, to)
             \/ PublishRewardPolicy(a, from, to) \/ PublishAwardPolicy(a, from, to)
      PROVE  Kinds
  <2>1. PICK f \in Ranged \union {"packages"} : PublishRange(a, f, from, to)
    BY <1>8 DEF PublishPackagePlan, PublishCommissionPlan, PublishRewardPolicy,
       PublishAwardPolicy, Ranged
  <2>2. a \in Admins /\ f \in Families /\ f \notin Successive
    BY <1>1, <2>1 DEF PublishRange, Shows, Successive
  <2> QED BY <2>1, <2>2 DEF RangeStep
<1>9. ASSUME NEW a \in study.admins, NEW to \in 1..LastTime, ClosePackagePlan(a, to)
      PROVE  Kinds
  BY <1>1, <1>9 DEF ClosePackagePlan, Shows, CloseStep
<1>10. ASSUME NEW a \in study.admins, PublishPayoutPolicy(a) PROVE Kinds
  <2>1. "payouts" \in Successive
    BY <1>1, <1>10 DEF PublishPayoutPolicy, Shows, Successive, Ranged
  <2>2. \A p \in Open("payouts") : versions["payouts"][p].from < now + 1
    <3>1. \A p \in Open("payouts") :
            /\ versions["payouts"][p].from <= now
            /\ versions["payouts"][p].from \in Nat
      BY <2>1, RowsTyped DEF VersionsInv, PayoutsAtOnce, Open, PublishedOf, Successive
    <3> QED BY <1>1, <3>1
  <2>3. now + 1 <= LastTime
    BY <1>1, <1>10 DEF PublishPayoutPolicy, Stamp
  <2>4. SuccessorStep(a, "payouts", now + 1, now + 1)
    BY <1>1, <1>10, <2>1, <2>2, <2>3 DEF PublishPayoutPolicy, SuccessorStep
  <2> QED BY <2>4
<1>11. ASSUME NEW a \in study.admins, NEW f \in LocalDay, PublishAtMidnight(a, f)
       PROVE  Kinds
  <2> DEFINE end == PredecessorEnd(f)
             from == DayBoundary(f)
  <2>1. f \in Successive /\ f # "payouts"
    BY <1>1, <1>11 DEF PublishAtMidnight, Shows, Successive, Ranged, LocalDay
  <2>2. Stamp
    BY <1>11 DEF PublishAtMidnight
  <2>3. /\ end \in Nat /\ end > now + 1
        /\ end <= now + 1 + DayLength
    <3> DEFINE zone == IF Open(f) = {} THEN zoneOffset
                       ELSE versions[f][CHOOSE p \in Open(f) : TRUE].zone
    <3>1. zone \in Nat
      <4>1. \A v \in DOMAIN versions[f] : versions[f][v].zone \in {0, LocalOffset}
        BY <2>1, RowsTyped DEF VersionsInv, Successive
      <4>2. LocalOffset \in Nat
        BY StudyTyped DEF VersionsInv
      <4> QED BY <1>1, <4>1, <4>2 DEF Open, PublishedOf
    <3>2. end = NextLocalMidnight(now + 1, zone)
      BY DEF PredecessorEnd
    <3> HIDE DEF zone
    <3> QED BY <1>1, <3>1, <3>2, NextMidnight
  <2>4. /\ from \in Nat /\ from >= end /\ from <= end + DayLength
    BY <1>1, <2>3, MidnightFrom DEF DayBoundary
  <2>5. \A p \in Open(f) : versions[f][p].from < end
    <3>1. \A p \in Open(f) :
            versions[f][p].from <= now + 1 /\ versions[f][p].from \in Nat
      BY <1>11, <2>1, RowsTyped DEF PublishAtMidnight, VersionsInv, Open, PublishedOf, Successive
    <3> HIDE DEF end
    <3> QED BY <1>1, <2>3, <3>1
  <2>6. from <= LastTime
    <3> HIDE DEF from, end
    <3> QED BY <1>1, <2>2, <2>3, <2>4 DEF Stamp
  <2>7. SuccessorStep(a, f, from, end)
    <3>1. PutInEffect(a, f, from, Forever, Open(f), end) /\ Shows(a, f) /\ Current(a, f)
      BY <1>11 DEF PublishAtMidnight
    <3> HIDE DEF from, end
    <3> QED BY <1>1, <2>1, <2>2, <2>3, <2>4, <2>5, <2>6, <3>1 DEF SuccessorStep
  <2> HIDE DEF from, end
  <2> QED BY <2>7
<1>12. ASSUME Tick PROVE Kinds
  BY <1>1, <1>12 DEF Tick, Stamp, QuietStep
<1>13. ASSUME LockPlatformTime PROVE Kinds
  BY <1>1, <1>13 DEF LockPlatformTime, QuietStep
<1>14. ASSUME NEW a \in study.admins, PublishTradingPolicy(a) \/ PublishSimulatedPolicy(a)
       PROVE  Kinds
  <2> HIDE DEF Kinds
  <2> QED BY <1>11, <1>14 DEF PublishTradingPolicy, PublishSimulatedPolicy, LocalDay
<1> HIDE DEF Kinds
<1>15. (\E source \in 1..study.maxVersions :
          \/ ClonePackagePlan(source) \/ CloneCommissionPlan(source)
          \/ CloneRewardPolicy(source)
          \/ CloneTradingPolicy(source) \/ CloneSimulatedPolicy(source)) => Kinds
  BY <1>3
<1>16. (\E content \in UNION {Contents[f] : f \in Families} : CreateAwardDraft(content)) => Kinds
  BY <1>4
<1>17. (\E a \in study.admins, f \in Families, v \in 1..study.maxVersions : Show(a, f, v)) => Kinds
  BY <1>6
<1>18. (\E a \in study.admins, content \in UNION {Contents[f] : f \in Families} :
          \/ SavePackageDraft(a, content) \/ SaveCommissionDraft(a, content)
          \/ SaveRewardDraft(a, content) \/ SaveAwardDraft(a, content)
          \/ SavePayoutDraft(a, content) \/ SaveTradingDraft(a, content)
          \/ SaveSimulatedDraft(a, content)) => Kinds
  BY <1>7
<1>19. (\E a \in study.admins, from \in 1..LastTime, to \in 1..Forever :
          \/ PublishPackagePlan(a, from, to) \/ PublishCommissionPlan(a, from, to)
          \/ PublishRewardPolicy(a, from, to) \/ PublishAwardPolicy(a, from, to)) => Kinds
  BY <1>8
<1>20. (\E a \in study.admins, to \in 1..LastTime : ClosePackagePlan(a, to)) => Kinds
  BY <1>9
<1>21. (\E a \in study.admins :
          PublishPayoutPolicy(a) \/ PublishTradingPolicy(a) \/ PublishSimulatedPolicy(a))
       => Kinds
  BY <1>10, <1>14
<1>22. Kinds
  BY <1>5, <1>12, <1>13, <1>15, <1>16, <1>17, <1>18, <1>19, <1>20, <1>21 DEF VersionsNext
<1> QED BY <1>22 DEF Kinds

-----------------------------------------------------------------------------
(* One table at a time.                                                     *)

\* What the invariant says of one table: of its rows, of the screens that show
\* it, of the ranges of its published versions, and of the last of them.
RowsOf(f) ==
  /\ versions[f] \in Seq(Rows(f))
  /\ \A v \in DOMAIN versions[f] : versions[f][v].revision <= 1 + study.maxRevision + now

ScreensOf(f) ==
  \A a \in Admins : screen[a].family = f =>
    /\ screen[a].version \in DOMAIN versions[f]
    /\ screen[a].revision \in Nat
    /\ screen[a].revision <= versions[f][screen[a].version].revision
    /\ versions[f][screen[a].version].revision = screen[a].revision
         => versions[f][screen[a].version].content = screen[a].content

RangesOf(f) ==
  \A v \in PublishedOf(f) :
    /\ f = "payouts" => versions[f][v].from <= now
    /\ versions[f][v].content = versions[f][v].shown
    /\ versions[f][v].from < versions[f][v].to
    /\ \A w \in PublishedOf(f) \ {v} :
         \/ versions[f][v].to <= versions[f][w].from
         \/ versions[f][w].to <= versions[f][v].from

LastOf(f) ==
  f \in Successive /\ PublishedOf(f) # {} =>
    \E last \in PublishedOf(f) :
      /\ Open(f) = {last}
      /\ \A v \in PublishedOf(f) : versions[f][v].from <= versions[f][last].from

TableInv(f) == RowsOf(f) /\ ScreensOf(f) /\ RangesOf(f) /\ LastOf(f)

\* The past of a table, up to now, as PastIsSettled has it.
TablePastKept(f) ==
  \A t \in 0..now :
    /\ InEffect(f, t)' = InEffect(f, t)
    /\ \A v \in InEffect(f, t) : versions'[f][v].content = versions[f][v].content

\* The invariant holds of every table.
LEMMA TableByTable ==
  ASSUME VersionsInv, NEW f \in Families
  PROVE  TableInv(f)
BY DEF VersionsInv, VersionsTypeOK, RevisionsBounded, ScreensBehind, PayoutsAtOnce,
   RangesDisjoint, AlwaysASuccessor, PublishedAsShown, TableInv, RowsOf, ScreensOf,
   RangesOf, LastOf, Successive

\* A step that writes one table keeps the invariant if it keeps it there.
LEMMA OneTable ==
  ASSUME VersionsInv, NEW f \in Families,
         UNCHANGED <<study, zoneOffset, screen>>,
         now' \in {now, now + 1}, now' <= MaxTime,
         DOMAIN versions' = Families,
         \A g \in Families \ {f} : versions'[g] = versions[g],
         TableInv(f)'
  PROVE  VersionsInv'
<1>1. /\ Forever' = Forever /\ LastTime' = LastTime /\ MaxTime' = MaxTime
      /\ LocalOffset' = LocalOffset
      /\ \A g \in Families : Rows(g)' = Rows(g)
  BY StudyKept
<1>2. now \in Nat /\ now' \in Nat /\ MaxTime \in Nat /\ study.maxRevision \in Nat /\ now <= now'
  BY StudyTyped DEF VersionsInv
<1>3. ASSUME NEW g \in Families \ {f} PROVE TableInv(g)'
  <2>1. TableInv(g)
    BY TableByTable
  <2>2. versions'[g] = versions[g]
    OBVIOUS
  <2>3. PublishedOf(g)' = PublishedOf(g) /\ Open(g)' = Open(g)
    BY <1>1, <2>2 DEF PublishedOf, Open
  <2>4. /\ \A v \in DOMAIN versions[g] : versions[g][v].revision \in Nat
        /\ \A v \in PublishedOf(g) : versions[g][v].from \in Nat
    BY RowsTyped DEF VersionsInv, PublishedOf
  <2>5. \A v \in DOMAIN versions[g] : versions[g][v].revision <= 1 + study.maxRevision + now'
    BY <1>2, <2>1, <2>4 DEF TableInv, RowsOf, RangesOf
  <2>6. g = "payouts" => \A v \in PublishedOf(g) : versions[g][v].from <= now'
    BY <1>2, <2>1, <2>4 DEF TableInv, RowsOf, RangesOf
  <2>7. Rows(g)' = Rows(g)
    BY <1>1
  <2> QED BY <2>1, <2>2, <2>3, <2>5, <2>6, <2>7
      DEF TableInv, RowsOf, ScreensOf, RangesOf, LastOf, Successive
<1>4. \A g \in Families : TableInv(g)'
  BY <1>3
<1>5. VersionsTypeOK'
  <2>1. \A g \in Families : versions'[g] \in Seq(Rows(g)')
    BY <1>4 DEF TableInv, RowsOf
  <2> QED BY <1>1, <1>2, <2>1 DEF VersionsInv, VersionsTypeOK
<1>6. RevisionsBounded' /\ ScreensBehind' /\ PayoutsAtOnce'
  BY <1>4 DEF RevisionsBounded, ScreensBehind, PayoutsAtOnce, TableInv, RowsOf, ScreensOf, RangesOf
<1>7. RangesDisjoint' /\ PublishedAsShown'
  BY <1>4 DEF RangesDisjoint, PublishedAsShown, TableInv, RangesOf
<1>8. AlwaysASuccessor'
  BY <1>4 DEF AlwaysASuccessor, TableInv, LastOf, Successive
<1> QED BY <1>5, <1>6, <1>7, <1>8 DEF VersionsInv

\* A row that is written has a higher revision than any screen shows, so what
\* the screens show of a table stays behind it.
LEMMA RowsWritten ==
  ASSUME VersionsInv, NEW f \in Families,
         UNCHANGED <<study, screen>>, now' \in {now, now + 1}, now' <= MaxTime,
         versions'[f] = [v \in DOMAIN versions[f] |-> versions'[f][v]],
         \A v \in DOMAIN versions[f] :
           \/ versions'[f][v] = versions[f][v]
           \/ /\ versions'[f][v] \in
                   [status : {"DRAFT", "PUBLISHED"}, revision : Nat,
                    content : Contents[f], shown : Contents[f],
                    from : 0..Forever, to : 0..Forever, zone : {0, LocalOffset}]
              /\ versions'[f][v].revision = versions[f][v].revision + 1
              /\ versions'[f][v].revision <= 1 + study.maxRevision + now'
  PROVE  DOMAIN versions'[f] = DOMAIN versions[f] /\ RowsOf(f)' /\ ScreensOf(f)'
<1>1. /\ now \in Nat /\ now' \in Nat /\ MaxTime \in Nat /\ study.maxRevision \in Nat
      /\ now <= now' /\ now' <= MaxTime
  BY StudyTyped DEF VersionsInv
<1>2. /\ Len(versions[f]) \in Nat /\ DOMAIN versions[f] = 1..Len(versions[f])
      /\ \A v \in DOMAIN versions[f] :
           versions[f][v] \in Rows(f) /\ versions[f][v].revision \in Nat
  BY RowsTyped DEF VersionsInv
<1>3. TableInv(f)
  BY TableByTable
<1>4. Rows(f)' = Rows(f)
  BY StudyKept
<1>5. ASSUME NEW v \in DOMAIN versions[f]
      PROVE  versions'[f][v] \in Rows(f) /\ versions'[f][v].revision <= 1 + study.maxRevision + now'
  <2>1. CASE versions'[f][v] = versions[f][v]
    <3>1. versions[f][v].revision <= 1 + study.maxRevision + now
      BY <1>3 DEF TableInv, RowsOf
    <3>2. versions[f][v].revision <= 1 + study.maxRevision + now'
      BY <1>1, <1>2, <3>1
    <3> QED BY <1>2, <2>1, <3>2
  <2>2. CASE versions'[f][v] # versions[f][v]
    <3>1. versions'[f][v].revision \in 1..(1 + study.maxRevision + MaxTime)
      <4>1. /\ versions'[f][v].revision = versions[f][v].revision + 1
            /\ versions'[f][v].revision <= 1 + study.maxRevision + now'
            /\ versions[f][v].revision \in Nat
        BY <1>2, <2>2
      <4> QED BY <1>1, <4>1
    <3> QED BY <2>2, <3>1 DEF Rows
  <2> QED BY <2>1, <2>2
<1>6. DOMAIN versions'[f] = DOMAIN versions[f]
  OBVIOUS
<1>7. versions'[f] \in Seq(Rows(f))
  <2>1. versions'[f] \in [1..Len(versions[f]) -> Rows(f)]
    BY <1>2, <1>5
  <2> QED BY <1>2, <2>1, SeqDef
<1>8. ASSUME NEW a \in Admins, screen[a].family = f
      PROVE  /\ screen[a].version \in DOMAIN versions[f]
             /\ screen[a].revision \in Nat
             /\ screen[a].revision <= versions'[f][screen[a].version].revision
             /\ versions'[f][screen[a].version].revision = screen[a].revision
                  => versions'[f][screen[a].version].content = screen[a].content
  <2> DEFINE v == screen[a].version
  <2>1. /\ v \in DOMAIN versions[f] /\ screen[a].revision \in Nat
        /\ screen[a].revision <= versions[f][v].revision
        /\ versions[f][v].revision = screen[a].revision
             => versions[f][v].content = screen[a].content
    BY <1>3, <1>8 DEF TableInv, ScreensOf
  <2>2. versions[f][v].revision \in Nat
    BY <1>2, <2>1
  <2>3. \/ versions'[f][v] = versions[f][v]
        \/ versions'[f][v].revision = versions[f][v].revision + 1
    BY <2>1
  <2> HIDE DEF v
  <2>4. /\ screen[a].revision <= versions'[f][v].revision
        /\ versions'[f][v].revision = screen[a].revision
             => versions'[f][v].content = screen[a].content
    BY <2>1, <2>2, <2>3
  <2> QED BY <2>1, <2>4 DEF v
<1> QED BY <1>4, <1>5, <1>6, <1>7, <1>8 DEF RowsOf, ScreensOf

\* Ranges and past are kept where no published version is written.
LEMMA RangesUntouched ==
  ASSUME NEW f, RangesOf(f), LastOf(f), Forever' = Forever, now' = now,
         PublishedOf(f)' = PublishedOf(f),
         \A v \in PublishedOf(f) : versions'[f][v] = versions[f][v]
  PROVE  RangesOf(f)' /\ LastOf(f)' /\ TablePastKept(f)
<1>1. RangesOf(f)'
  BY DEF RangesOf
<1>2. Open(f)' = Open(f)
  BY DEF Open
<1>3. LastOf(f)'
  BY <1>2 DEF LastOf, Successive
<1>4. TablePastKept(f)
  BY DEF TablePastKept, InEffect
<1> QED BY <1>1, <1>3, <1>4

-----------------------------------------------------------------------------
(* Each kind of step keeps the invariant, and what was in effect.           *)

LEMMA QuietKeeps ==
  ASSUME VersionsInv, QuietStep
  PROVE  VersionsInv' /\ \A f \in Families : TablePastKept(f)
<1>1. /\ Forever' = Forever /\ LastTime' = LastTime /\ MaxTime' = MaxTime
      /\ LocalOffset' = LocalOffset
      /\ \A g \in Families : Rows(g)' = Rows(g)
  BY StudyKept DEF QuietStep
<1>2. now \in Nat /\ now' \in Nat /\ MaxTime \in Nat /\ study.maxRevision \in Nat /\ now <= now'
  BY StudyTyped DEF VersionsInv, QuietStep
<1>3. \A g : PublishedOf(g)' = PublishedOf(g) /\ Open(g)' = Open(g)
  BY <1>1 DEF PublishedOf, Open, QuietStep
<1>4. ASSUME NEW g \in Families
      PROVE  /\ \A v \in DOMAIN versions[g] : versions[g][v].revision \in Nat
             /\ \A v \in DOMAIN versions[g] : versions[g][v].from \in Nat
  BY RowsTyped DEF VersionsInv
<1>5. RevisionsBounded'
  BY <1>2, <1>4 DEF RevisionsBounded, VersionsInv, QuietStep
<1>6. PayoutsAtOnce'
  BY <1>2, <1>3, <1>4 DEF PayoutsAtOnce, VersionsInv, QuietStep, PublishedOf
<1>7. /\ ScreensBehind'
      /\ DOMAIN screen' = Admins
      /\ \A a \in Admins :
           screen'[a].family \in Families => screen'[a].content \in Contents[screen'[a].family]
  <2>1. CASE UNCHANGED screen
    BY <2>1 DEF VersionsInv, VersionsTypeOK, ScreensBehind, QuietStep
  <2>2. ASSUME NEW a \in Admins, NEW f \in Families, NEW v, Show(a, f, v)
        PROVE  <1>7!1 /\ <1>7!2 /\ <1>7!3
    <3>1. /\ versions[f][v].revision \in Nat /\ versions[f][v].content \in Contents[f]
          /\ v \in DOMAIN versions[f]
      BY <2>2, RowsTyped DEF Show, VersionsInv
    <3>2. /\ DOMAIN screen' = Admins
          /\ screen'[a] = [family |-> f, version |-> v, revision |-> versions[f][v].revision,
                           content |-> versions[f][v].content]
          /\ \A b \in Admins \ {a} : screen'[b] = screen[b]
      BY <2>2 DEF Show, VersionsInv, VersionsTypeOK
    <3>3. ScreensBehind /\ versions' = versions
      BY DEF VersionsInv, QuietStep
    <3>4. ScreensBehind'
      BY <3>1, <3>2, <3>3 DEF ScreensBehind
    <3>5. \A b \in Admins :
            screen'[b].family \in Families => screen'[b].content \in Contents[screen'[b].family]
      BY <3>1, <3>2 DEF VersionsInv, VersionsTypeOK
    <3> QED BY <3>2, <3>4, <3>5
  <2> QED BY <2>1, <2>2 DEF QuietStep
<1>8. VersionsTypeOK'
  BY <1>1, <1>2, <1>7 DEF VersionsTypeOK, VersionsInv, QuietStep
<1>9. RangesDisjoint' /\ PublishedAsShown' /\ AlwaysASuccessor'
  BY <1>3 DEF RangesDisjoint, PublishedAsShown, AlwaysASuccessor, VersionsInv, QuietStep
<1>10. \A f \in Families : TablePastKept(f)
  BY <1>3 DEF TablePastKept, InEffect, QuietStep
<1> QED BY <1>5, <1>6, <1>7, <1>8, <1>9, <1>10 DEF VersionsInv

\* A new draft is shown to nobody and in effect never.
LEMMA AddKeeps ==
  ASSUME VersionsInv, NEW f, NEW content, AddStep(f, content)
  PROVE  VersionsInv' /\ \A g \in Families : TablePastKept(g)
<1> DEFINE rows == versions[f]
           n == Len(rows)
<1>1. /\ f \in Families /\ content \in Contents[f]
      /\ UNCHANGED <<study, now, zoneOffset, screen>>
      /\ DOMAIN versions = Families
      /\ versions' = [versions EXCEPT ![f] = Append(rows, Draft(content))]
  BY DEF AddStep, AddDraft, VersionsInv, VersionsTypeOK
<1>2. /\ versions'[f] = Append(rows, Draft(content))
      /\ DOMAIN versions' = Families
      /\ \A g \in Families \ {f} : versions'[g] = versions[g]
  BY <1>1
<1>3. rows \in Seq(Rows(f)) /\ n \in Nat /\ DOMAIN rows = 1..n
  BY <1>1, RowsTyped DEF VersionsInv, VersionsTypeOK
<1>4. /\ now \in Nat /\ MaxTime \in Nat /\ now <= MaxTime /\ study.maxRevision \in Nat
      /\ Forever \in Nat /\ LocalOffset \in Nat
  BY StudyTyped DEF VersionsInv, VersionsTypeOK
<1>5. Draft(content) \in Rows(f)
  BY <1>1, <1>4 DEF Draft, Rows
<1>6. /\ Forever' = Forever /\ Rows(f)' = Rows(f)
  BY <1>1, StudyKept
<1>7. /\ versions'[f] \in Seq(Rows(f))
      /\ DOMAIN versions'[f] = 1..(n + 1)
      /\ \A v \in 1..n : versions'[f][v] = versions[f][v]
      /\ versions'[f][n + 1] = Draft(content)
  BY <1>2, <1>3, <1>5, AppendProperties
<1> HIDE DEF rows, n
<1>8. PublishedOf(f)' = PublishedOf(f)
  <2>1. ASSUME NEW v \in 1..(n + 1)
        PROVE  v \in PublishedOf(f)' <=> v \in PublishedOf(f)
    <3>1. CASE v \in 1..n
      BY <1>3, <1>7, <3>1 DEF PublishedOf, rows
    <3>2. CASE v = n + 1
      BY <1>3, <1>7, <3>2 DEF PublishedOf, rows, Draft
    <3> QED BY <1>3, <3>1, <3>2
  <2>2. PublishedOf(f) \subseteq 1..(n + 1) /\ PublishedOf(f)' \subseteq 1..(n + 1)
    BY <1>3, <1>7 DEF PublishedOf, rows
  <2> QED BY <2>1, <2>2
<1>9. \A v \in PublishedOf(f) : versions'[f][v] = versions[f][v]
  BY <1>3, <1>7 DEF PublishedOf, rows
<1>10. TableInv(f)
  BY <1>1, TableByTable
<1>11. RowsOf(f)' /\ ScreensOf(f)'
  <2>1. \A v \in DOMAIN versions'[f] :
          versions'[f][v].revision <= 1 + study.maxRevision + now
    <3>1. \A v \in 1..n : versions'[f][v].revision <= 1 + study.maxRevision + now
      BY <1>3, <1>7, <1>10 DEF TableInv, RowsOf, rows
    <3>2. versions'[f][n + 1].revision <= 1 + study.maxRevision + now
      BY <1>4, <1>7 DEF Draft
    <3> QED BY <1>3, <1>7, <3>1, <3>2
  <2>2. ScreensOf(f)'
    BY <1>1, <1>3, <1>7, <1>10 DEF TableInv, ScreensOf, rows
  <2> QED BY <1>1, <1>6, <1>7, <2>1, <2>2 DEF RowsOf
<1>12. RangesOf(f)' /\ LastOf(f)' /\ TablePastKept(f)
  BY <1>1, <1>6, <1>8, <1>9, <1>10, RangesUntouched DEF TableInv
<1>13. VersionsInv'
  BY <1>1, <1>2, <1>4, <1>11, <1>12, OneTable DEF TableInv
<1>14. \A g \in Families : TablePastKept(g)
  <2>1. TablePastKept(f)
    BY <1>12
  <2>2. \A g \in Families \ {f} : TablePastKept(g)
    BY <1>2 DEF TablePastKept, InEffect, PublishedOf
  <2> QED BY <2>1, <2>2
<1> QED BY <1>13, <1>14

\* Only a draft is saved.
LEMMA SaveKeeps ==
  ASSUME VersionsInv, NEW a, NEW f, NEW content, SaveStep(a, f, content)
  PROVE  VersionsInv' /\ \A g \in Families : TablePastKept(g)
<1> DEFINE k == screen[a].version
<1>1. /\ a \in Admins /\ f \in Families /\ content \in Contents[f]
      /\ UNCHANGED <<study, now, zoneOffset, screen>>
      /\ screen[a].family = f /\ Current(a, f) /\ screen[a].revision < study.maxRevision
      /\ DOMAIN versions = Families
      /\ versions' = [versions EXCEPT ![f][k].content = content, ![f][k].revision = @ + 1]
  BY DEF SaveStep, SaveDraft, Shows, VersionsInv, VersionsTypeOK
<1>2. TableInv(f)
  BY <1>1, TableByTable
<1>3. /\ k \in DOMAIN versions[f] /\ versions[f][k].status = "DRAFT"
      /\ versions[f][k].revision \in Nat /\ versions[f][k].revision < study.maxRevision
  BY <1>1, <1>2 DEF Current, TableInv, ScreensOf
<1>4. /\ now \in Nat /\ MaxTime \in Nat /\ now <= MaxTime /\ study.maxRevision \in Nat
  BY StudyTyped DEF VersionsInv, VersionsTypeOK
<1> HIDE DEF k
<1>5. /\ DOMAIN versions' = Families
      /\ \A g \in Families \ {f} : versions'[g] = versions[g]
      /\ versions'[f] = [versions[f] EXCEPT ![k] =
           [versions[f][k] EXCEPT !.content = content, !.revision = @ + 1]]
  BY <1>1, <1>3
<1>6. /\ versions'[f] = [v \in DOMAIN versions[f] |-> versions'[f][v]]
      /\ \A v \in DOMAIN versions[f] \ {k} : versions'[f][v] = versions[f][v]
      /\ versions'[f][k] = [versions[f][k] EXCEPT !.content = content, !.revision = @ + 1]
  BY <1>3, <1>5
<1>7. /\ versions[f][k] \in Rows(f)
  BY <1>1, <1>3, RowsTyped DEF VersionsInv
<1>8. /\ versions'[f][k] \in
           [status : {"DRAFT", "PUBLISHED"}, revision : Nat,
            content : Contents[f], shown : Contents[f],
            from : 0..Forever, to : 0..Forever, zone : {0, LocalOffset}]
      /\ versions'[f][k].status = "DRAFT"
      /\ versions'[f][k].revision = versions[f][k].revision + 1
  BY <1>1, <1>3, <1>6, <1>7 DEF Rows
<1>9. versions'[f][k].revision <= 1 + study.maxRevision + now'
  BY <1>1, <1>3, <1>4, <1>8
<1>10. \A v \in DOMAIN versions[f] :
         \/ versions'[f][v] = versions[f][v]
         \/ /\ versions'[f][v] \in
                 [status : {"DRAFT", "PUBLISHED"}, revision : Nat,
                  content : Contents[f], shown : Contents[f],
                  from : 0..Forever, to : 0..Forever, zone : {0, LocalOffset}]
            /\ versions'[f][v].revision = versions[f][v].revision + 1
            /\ versions'[f][v].revision <= 1 + study.maxRevision + now'
  BY <1>6, <1>8, <1>9
<1>11. DOMAIN versions'[f] = DOMAIN versions[f] /\ RowsOf(f)' /\ ScreensOf(f)'
  BY <1>1, <1>4, <1>6, <1>10, RowsWritten
<1>12. /\ PublishedOf(f)' = PublishedOf(f)
       /\ \A v \in PublishedOf(f) : versions'[f][v] = versions[f][v]
  <2>1. \A v \in DOMAIN versions[f] : versions'[f][v].status = versions[f][v].status
    BY <1>3, <1>6, <1>8
  <2>2. k \notin PublishedOf(f)
    BY <1>3 DEF PublishedOf
  <2> QED BY <1>6, <1>11, <2>1, <2>2 DEF PublishedOf
<1>13. Forever' = Forever
  BY <1>1, StudyKept
<1>14. RangesOf(f)' /\ LastOf(f)' /\ TablePastKept(f)
  <2>1. RangesOf(f) /\ LastOf(f)
    BY <1>2 DEF TableInv
  <2>2. now' = now
    BY <1>1
  <2> QED BY <1>12, <1>13, <2>1, <2>2, RangesUntouched
<1>15. VersionsInv'
  BY <1>1, <1>4, <1>5, <1>11, <1>14, OneTable DEF TableInv
<1>16. \A g \in Families : TablePastKept(g)
  <2>1. TablePastKept(f)
    BY <1>14
  <2>2. \A g \in Families \ {f} : TablePastKept(g)
    BY <1>5 DEF TablePastKept, InEffect, PublishedOf
  <2> QED BY <2>1, <2>2
<1> QED BY <1>15, <1>16

\* What a publication writes: the draft of the screen, with the content that
\* is shown there, and the ends of the versions that are closed.
LEMMA PutRows ==
  ASSUME VersionsInv, NEW a \in Admins, NEW f \in Families,
         Shows(a, f), Current(a, f), Stamp,
         NEW from \in 0..Forever, NEW to \in 0..Forever, NEW end \in 0..Forever,
         NEW closing \in SUBSET PublishedOf(f),
         PutInEffect(a, f, from, to, closing, end)
  PROVE  /\ screen[a].version \notin PublishedOf(f)
         /\ UNCHANGED <<study, zoneOffset, screen>>
         /\ now' = now + 1 /\ now' <= MaxTime
         /\ DOMAIN versions' = Families
         /\ \A g \in Families \ {f} : versions'[g] = versions[g]
         /\ PublishedOf(f)' = PublishedOf(f) \union {screen[a].version}
         /\ versions'[f][screen[a].version].from = from
         /\ versions'[f][screen[a].version].to = to
         /\ versions'[f][screen[a].version].content = versions'[f][screen[a].version].shown
         /\ \A v \in PublishedOf(f) :
              /\ versions'[f][v].from = versions[f][v].from
              /\ versions'[f][v].content = versions[f][v].content
              /\ versions'[f][v].shown = versions[f][v].shown
              /\ versions'[f][v].to = IF v \in closing THEN end ELSE versions[f][v].to
         /\ RowsOf(f)' /\ ScreensOf(f)'
<1> DEFINE k == screen[a].version
<1>1. /\ UNCHANGED <<study, zoneOffset, screen>>
      /\ DOMAIN versions = Families
      /\ zoneOffset \in {0, LocalOffset} /\ screen[a].family = f
      /\ screen[a].content \in Contents[f]
  BY DEF PutInEffect, Shows, VersionsInv, VersionsTypeOK
<1>2. TableInv(f)
  BY TableByTable
<1>3. /\ k \in DOMAIN versions[f] /\ versions[f][k].status = "DRAFT"
      /\ versions[f][k].content = screen[a].content
  BY <1>1, <1>2 DEF Current, TableInv, ScreensOf
<1>4. /\ now \in Nat /\ MaxTime \in Nat /\ now < MaxTime /\ study.maxRevision \in Nat
      /\ now' = now + 1 /\ now' <= MaxTime /\ now' \in Nat
  BY StudyTyped DEF VersionsInv, Stamp
<1>5. /\ DOMAIN versions' = Families
      /\ \A g \in Families \ {f} : versions'[g] = versions[g]
      /\ versions'[f] = [v \in DOMAIN versions[f] |->
           IF v = k
           THEN [versions[f][v] EXCEPT !.status = "PUBLISHED", !.revision = @ + 1,
                                       !.from = from, !.to = to, !.zone = zoneOffset,
                                       !.shown = screen[a].content]
           ELSE IF v \in closing THEN [versions[f][v] EXCEPT !.to = end, !.revision = @ + 1]
           ELSE versions[f][v]]
  <2> DEFINE written == [v \in DOMAIN versions[f] |->
           IF v = screen[a].version
           THEN [versions[f][v] EXCEPT !.status = "PUBLISHED", !.revision = @ + 1,
                                       !.from = from, !.to = to, !.zone = zoneOffset,
                                       !.shown = screen[a].content]
           ELSE IF v \in closing THEN [versions[f][v] EXCEPT !.to = end, !.revision = @ + 1]
           ELSE versions[f][v]]
  <2>1. versions' = [versions EXCEPT ![f] = written]
    BY DEF PutInEffect
  <2> HIDE DEF written
  <2>2. /\ DOMAIN versions' = Families
        /\ \A g \in Families \ {f} : versions'[g] = versions[g]
        /\ versions'[f] = written
    BY <1>1, <2>1
  <2> QED BY <2>2 DEF written
<1> HIDE DEF k
<1>6. /\ k \notin PublishedOf(f) /\ PublishedOf(f) \subseteq DOMAIN versions[f]
      /\ closing \subseteq DOMAIN versions[f] /\ k \notin closing
  BY <1>3 DEF PublishedOf
<1>7. \A v \in DOMAIN versions[f] : versions[f][v] \in Rows(f) /\ versions[f][v].revision \in Nat
  BY RowsTyped DEF VersionsInv
<1>8. \A v \in DOMAIN versions[f] : versions[f][v].revision + 1 <= 1 + study.maxRevision + now'
  <2>1. \A v \in DOMAIN versions[f] : versions[f][v].revision <= 1 + study.maxRevision + now
    BY <1>2 DEF TableInv, RowsOf
  <2> QED BY <1>4, <1>7, <2>1
<1>9. /\ versions'[f] = [v \in DOMAIN versions[f] |-> versions'[f][v]]
      /\ versions'[f][k] = [versions[f][k] EXCEPT
           !.status = "PUBLISHED", !.revision = @ + 1, !.from = from, !.to = to,
           !.zone = zoneOffset, !.shown = screen[a].content]
      /\ \A v \in closing :
           versions'[f][v] = [versions[f][v] EXCEPT !.to = end, !.revision = @ + 1]
      /\ \A v \in DOMAIN versions[f] :
           v # k /\ v \notin closing => versions'[f][v] = versions[f][v]
  BY <1>3, <1>5, <1>6
<1>10. /\ versions'[f][k] \in
            [status : {"DRAFT", "PUBLISHED"}, revision : Nat,
             content : Contents[f], shown : Contents[f],
             from : 0..Forever, to : 0..Forever, zone : {0, LocalOffset}]
       /\ versions'[f][k].revision = versions[f][k].revision + 1
       /\ versions'[f][k].status = "PUBLISHED"
       /\ versions'[f][k].content = screen[a].content
       /\ versions'[f][k].shown = screen[a].content
       /\ versions'[f][k].from = from /\ versions'[f][k].to = to
  <2> DEFINE old == versions[f][k]
  <2>1. /\ old \in [status : {"DRAFT", "PUBLISHED"},
                    revision : 1..(1 + study.maxRevision + MaxTime),
                    content : Contents[f], shown : Contents[f],
                    from : 0..Forever, to : 0..Forever, zone : {0, LocalOffset}]
        /\ old.revision \in Nat
    BY <1>3, <1>7 DEF Rows
  <2>2. versions'[f][k] = [old EXCEPT
          !.status = "PUBLISHED", !.revision = old.revision + 1, !.from = from, !.to = to,
          !.zone = zoneOffset, !.shown = screen[a].content]
    BY <1>9
  <2>3. old.content = screen[a].content
    BY <1>3
  <2> HIDE DEF old
  <2>4. versions'[f][k] = [status |-> "PUBLISHED", revision |-> old.revision + 1,
                           content |-> old.content, shown |-> screen[a].content,
                           from |-> from, to |-> to, zone |-> zoneOffset]
    BY <2>1, <2>2
  <2>5. old.content \in Contents[f] /\ old.revision + 1 \in Nat
    BY <2>1
  <2> QED BY <1>1, <2>3, <2>4, <2>5 DEF old
<1>11. ASSUME NEW v \in closing
       PROVE  /\ versions'[f][v] \in
                   [status : {"DRAFT", "PUBLISHED"}, revision : Nat,
                    content : Contents[f], shown : Contents[f],
                    from : 0..Forever, to : 0..Forever, zone : {0, LocalOffset}]
              /\ versions'[f][v].revision = versions[f][v].revision + 1
              /\ versions'[f][v].status = versions[f][v].status
              /\ versions'[f][v].content = versions[f][v].content
              /\ versions'[f][v].shown = versions[f][v].shown
              /\ versions'[f][v].from = versions[f][v].from /\ versions'[f][v].to = end
  <2>1. /\ versions[f][v] \in Rows(f) /\ versions[f][v].revision \in Nat
        /\ versions'[f][v] = [versions[f][v] EXCEPT !.to = end, !.revision = @ + 1]
    BY <1>6, <1>7, <1>9
  <2> DEFINE old == versions[f][v]
  <2>2. old \in [status : {"DRAFT", "PUBLISHED"},
                 revision : 1..(1 + study.maxRevision + MaxTime),
                 content : Contents[f], shown : Contents[f],
                 from : 0..Forever, to : 0..Forever, zone : {0, LocalOffset}]
    BY <2>1 DEF Rows
  <2>3. old.revision \in Nat /\ versions'[f][v] = [old EXCEPT !.to = end, !.revision = @ + 1]
    BY <2>1
  <2> HIDE DEF old
  <2>4. versions'[f][v] = [status |-> old.status, revision |-> old.revision + 1,
                           content |-> old.content, shown |-> old.shown,
                           from |-> old.from, to |-> end, zone |-> old.zone]
    BY <2>2, <2>3
  <2>5. /\ old.status \in {"DRAFT", "PUBLISHED"} /\ old.revision + 1 \in Nat
        /\ old.content \in Contents[f] /\ old.shown \in Contents[f]
        /\ old.from \in 0..Forever /\ old.zone \in {0, LocalOffset}
    BY <2>2, <2>3
  <2> QED BY <2>4, <2>5 DEF old
<1>12. \A v \in DOMAIN versions[f] :
         \/ versions'[f][v] = versions[f][v]
         \/ /\ versions'[f][v] \in
                 [status : {"DRAFT", "PUBLISHED"}, revision : Nat,
                  content : Contents[f], shown : Contents[f],
                  from : 0..Forever, to : 0..Forever, zone : {0, LocalOffset}]
            /\ versions'[f][v].revision = versions[f][v].revision + 1
            /\ versions'[f][v].revision <= 1 + study.maxRevision + now'
  <2> SUFFICES ASSUME NEW v \in DOMAIN versions[f],
                      versions'[f][v] # versions[f][v]
               PROVE  /\ versions'[f][v] \in
                           [status : {"DRAFT", "PUBLISHED"}, revision : Nat,
                            content : Contents[f], shown : Contents[f],
                            from : 0..Forever, to : 0..Forever, zone : {0, LocalOffset}]
                      /\ versions'[f][v].revision = versions[f][v].revision + 1
                      /\ versions[f][v].revision + 1 <= 1 + study.maxRevision + now'
    OBVIOUS
  <2>1. CASE v = k
    BY <1>8, <1>10, <2>1
  <2>2. CASE v \in closing
    BY <1>8, <1>11, <2>2
  <2> QED BY <1>9, <2>1, <2>2
<1>13. DOMAIN versions'[f] = DOMAIN versions[f] /\ RowsOf(f)' /\ ScreensOf(f)'
  BY <1>1, <1>4, <1>9, <1>12, RowsWritten
<1>14. ASSUME NEW v \in PublishedOf(f)
       PROVE  /\ versions'[f][v].status = versions[f][v].status
              /\ versions'[f][v].from = versions[f][v].from
              /\ versions'[f][v].content = versions[f][v].content
              /\ versions'[f][v].shown = versions[f][v].shown
              /\ versions'[f][v].to = IF v \in closing THEN end ELSE versions[f][v].to
  <2>1. CASE v \in closing
    BY <1>11, <2>1
  <2>2. CASE v \notin closing
    BY <1>6, <1>9, <2>2
  <2> QED BY <2>1, <2>2
<1>15. PublishedOf(f)' = PublishedOf(f) \union {k}
  <2>1. \A v \in DOMAIN versions[f] \ {k} : versions'[f][v].status = versions[f][v].status
    BY <1>9, <1>11
  <2> QED BY <1>3, <1>10, <1>13, <2>1 DEF PublishedOf
<1> QED BY <1>1, <1>4, <1>5, <1>6, <1>10, <1>13, <1>14, <1>15 DEF k

\* A version is published for a range of its own; an open predecessor that is
\* in the way ends where the range begins.
LEMMA RangeKeeps ==
  ASSUME VersionsInv, NEW a, NEW f, NEW from, NEW to, RangeStep(a, f, from, to)
  PROVE  VersionsInv' /\ \A g \in Families : TablePastKept(g)
<1> DEFINE k == screen[a].version
           overlaps == Overlapping(f, from, to)
<1>1. /\ a \in Admins /\ f \in Families /\ f \notin Successive
      /\ from \in Nat /\ to \in Nat /\ from > now /\ from < to
      /\ from \in 0..Forever /\ to \in 0..Forever
      /\ now \in Nat /\ Forever \in Nat
  BY StudyTyped DEF RangeStep, PublishRange, VersionsInv
<1>2. /\ Shows(a, f) /\ Current(a, f) /\ Stamp /\ Closable(f, from, overlaps)
      /\ PutInEffect(a, f, from, to, overlaps, from)
      /\ overlaps \in SUBSET PublishedOf(f)
  BY DEF RangeStep, PublishRange, Overlapping
<1>3. TableInv(f)
  BY <1>1, TableByTable
<1> HIDE DEF overlaps
<1>4. /\ k \notin PublishedOf(f)
      /\ UNCHANGED <<study, zoneOffset, screen>>
      /\ now' = now + 1 /\ now' <= MaxTime
      /\ DOMAIN versions' = Families
      /\ \A g \in Families \ {f} : versions'[g] = versions[g]
      /\ PublishedOf(f)' = PublishedOf(f) \union {k}
      /\ versions'[f][k].from = from /\ versions'[f][k].to = to
      /\ versions'[f][k].content = versions'[f][k].shown
      /\ \A v \in PublishedOf(f) :
           /\ versions'[f][v].from = versions[f][v].from
           /\ versions'[f][v].content = versions[f][v].content
           /\ versions'[f][v].shown = versions[f][v].shown
           /\ versions'[f][v].to = IF v \in overlaps THEN from ELSE versions[f][v].to
      /\ RowsOf(f)' /\ ScreensOf(f)'
  BY <1>1, <1>2, PutRows
<1> HIDE DEF k
<1>5. \A v \in PublishedOf(f) :
        /\ versions[f][v].from \in Nat /\ versions[f][v].to \in Nat
        /\ versions[f][v].to <= Forever
  BY <1>1, RowsTyped DEF VersionsInv, PublishedOf
<1>6. \A v \in overlaps : versions[f][v].to = Forever /\ versions[f][v].from < from
  BY <1>2 DEF Closable
<1>7. \A v \in PublishedOf(f) \ overlaps :
        versions[f][v].to <= from \/ to <= versions[f][v].from
  BY <1>1, <1>5 DEF overlaps, Overlapping
<1>8. f # "payouts"
  BY <1>1 DEF Successive, Ranged
<1>9. ASSUME NEW v \in PublishedOf(f)
      PROVE  /\ versions'[f][v].to <= versions[f][v].to /\ versions'[f][v].to \in Nat
             /\ versions'[f][v].from < versions'[f][v].to
             /\ versions'[f][v].to <= from \/ to <= versions'[f][v].from
             /\ versions'[f][v].content = versions'[f][v].shown
             /\ \A t \in 0..now : t < versions'[f][v].to <=> t < versions[f][v].to
  <2>1. CASE v \in overlaps
    BY <1>1, <1>4, <1>5, <1>6, <1>3, <2>1 DEF TableInv, RangesOf
  <2>2. CASE v \notin overlaps
    BY <1>1, <1>4, <1>5, <1>7, <1>3, <2>2 DEF TableInv, RangesOf
  <2> QED BY <2>1, <2>2
<1>10. RangesOf(f)'
  <2>1. ASSUME NEW v \in PublishedOf(f) PROVE
          \A w \in PublishedOf(f) \ {v} :
            \/ versions'[f][v].to <= versions'[f][w].from
            \/ versions'[f][w].to <= versions'[f][v].from
    <3>1. \A w \in PublishedOf(f) \ {v} :
            \/ versions[f][v].to <= versions[f][w].from
            \/ versions[f][w].to <= versions[f][v].from
      BY <1>3 DEF TableInv, RangesOf
    <3> QED BY <1>4, <1>5, <1>9, <3>1
  <2> QED BY <1>1, <1>4, <1>8, <1>9, <2>1 DEF RangesOf
<1>11. LastOf(f)'
  BY <1>1 DEF LastOf, Successive
<1>12. VersionsInv'
  BY <1>1, <1>4, <1>10, <1>11, OneTable DEF TableInv
<1>13. TablePastKept(f)
  <2>1. ASSUME NEW t \in 0..now PROVE InEffect(f, t)' = InEffect(f, t)
    <3>1. k \notin InEffect(f, t)'
      BY <1>1, <1>4 DEF InEffect
    <3>2. \A v \in PublishedOf(f) : v \in InEffect(f, t)' <=> v \in InEffect(f, t)
      BY <1>4, <1>9 DEF InEffect
    <3>3. InEffect(f, t)' \subseteq PublishedOf(f) \union {k} /\ InEffect(f, t) \subseteq PublishedOf(f)
      BY <1>4 DEF InEffect
    <3> QED BY <3>1, <3>2, <3>3
  <2>2. \A t : InEffect(f, t) \subseteq PublishedOf(f)
    BY DEF InEffect
  <2> QED BY <1>4, <2>1, <2>2 DEF TablePastKept
<1>14. \A g \in Families \ {f} : TablePastKept(g)
  BY <1>4 DEF TablePastKept, InEffect, PublishedOf
<1> QED BY <1>12, <1>13, <1>14

\* A version is published until a successor comes: the open one before it, the
\* last to start of all, ends before it starts.
LEMMA SuccessorKeeps ==
  ASSUME VersionsInv, NEW a, NEW f, NEW from, NEW end, SuccessorStep(a, f, from, end)
  PROVE  VersionsInv' /\ \A g \in Families : TablePastKept(g)
<1> DEFINE k == screen[a].version
<1>1. /\ a \in Admins /\ f \in Families /\ f \in Successive
      /\ from \in Nat /\ end \in Nat /\ now < end /\ end <= from /\ from < Forever
      /\ from \in 0..Forever /\ end \in 0..Forever /\ Forever \in 0..Forever
      /\ now \in Nat /\ Forever \in Nat
      /\ f = "payouts" => from = now + 1
      /\ \A p \in Open(f) : versions[f][p].from < end
  BY StudyTyped DEF SuccessorStep, Successive, VersionsInv
<1>2. /\ Shows(a, f) /\ Current(a, f) /\ Stamp
      /\ PutInEffect(a, f, from, Forever, Open(f), end)
      /\ Open(f) \in SUBSET PublishedOf(f)
  BY DEF SuccessorStep, Open
<1>3. TableInv(f)
  BY <1>1, TableByTable
<1>4. /\ k \notin PublishedOf(f)
      /\ UNCHANGED <<study, zoneOffset, screen>>
      /\ now' = now + 1 /\ now' <= MaxTime
      /\ DOMAIN versions' = Families
      /\ \A g \in Families \ {f} : versions'[g] = versions[g]
      /\ PublishedOf(f)' = PublishedOf(f) \union {k}
      /\ versions'[f][k].from = from /\ versions'[f][k].to = Forever
      /\ versions'[f][k].content = versions'[f][k].shown
      /\ \A v \in PublishedOf(f) :
           /\ versions'[f][v].from = versions[f][v].from
           /\ versions'[f][v].content = versions[f][v].content
           /\ versions'[f][v].shown = versions[f][v].shown
           /\ versions'[f][v].to = IF v \in Open(f) THEN end ELSE versions[f][v].to
      /\ RowsOf(f)' /\ ScreensOf(f)'
  BY <1>1, <1>2, PutRows
<1> HIDE DEF k
<1>5. \A v \in PublishedOf(f) :
        /\ versions[f][v].from \in Nat /\ versions[f][v].to \in Nat
        /\ versions[f][v].to <= Forever /\ versions[f][v].from < versions[f][v].to
        /\ versions[f][v].content = versions[f][v].shown
        /\ f = "payouts" => versions[f][v].from <= now
  BY <1>1, <1>3, RowsTyped DEF VersionsInv, PublishedOf, TableInv, RangesOf
<1>6. ASSUME NEW v \in PublishedOf(f)
      PROVE  /\ versions'[f][v].to <= versions[f][v].to /\ versions'[f][v].to \in Nat
             /\ versions'[f][v].from < versions'[f][v].to
             /\ versions'[f][v].to <= from
             /\ versions'[f][v].content = versions'[f][v].shown
             /\ \A t \in 0..now : t < versions'[f][v].to <=> t < versions[f][v].to
  <2>1. CASE v \in Open(f)
    <3>1. versions[f][v].to = Forever
      BY <2>1 DEF Open
    <3> QED BY <1>1, <1>4, <1>5, <2>1, <3>1
  <2>2. CASE v \notin Open(f)
    <3>1. PICK last \in PublishedOf(f) : Open(f) = {last}
      BY <1>1, <1>3 DEF TableInv, LastOf
    <3>2. versions[f][last].to = Forever /\ v # last /\ versions[f][last].from < end
      BY <1>1, <2>2, <3>1 DEF Open
    <3>3. \/ versions[f][v].to <= versions[f][last].from
          \/ versions[f][last].to <= versions[f][v].from
      BY <1>3, <3>1, <3>2 DEF TableInv, RangesOf
    <3>4. versions[f][v].to <= versions[f][last].from
      BY <1>1, <1>5, <3>1, <3>2, <3>3
    <3>5. versions'[f][v].to = versions[f][v].to
      BY <1>4, <2>2
    <3> QED BY <1>1, <1>4, <1>5, <3>1, <3>2, <3>4, <3>5
  <2> QED BY <2>1, <2>2
<1>7. RangesOf(f)'
  <2>1. ASSUME NEW v \in PublishedOf(f) PROVE
          \A w \in PublishedOf(f) \ {v} :
            \/ versions'[f][v].to <= versions'[f][w].from
            \/ versions'[f][w].to <= versions'[f][v].from
    <3>1. \A w \in PublishedOf(f) \ {v} :
            \/ versions[f][v].to <= versions[f][w].from
            \/ versions[f][w].to <= versions[f][v].from
      BY <1>3 DEF TableInv, RangesOf
    <3> QED BY <1>4, <1>5, <1>6, <3>1
  <2>2. \A v \in PublishedOf(f)' : f = "payouts" => versions'[f][v].from <= now'
    BY <1>1, <1>4, <1>5
  <2>3. ASSUME NEW v \in PublishedOf(f)', NEW w \in PublishedOf(f)' \ {v}
        PROVE  \/ versions'[f][v].to <= versions'[f][w].from
               \/ versions'[f][w].to <= versions'[f][v].from
    BY <1>4, <1>6, <2>1
  <2> QED BY <1>1, <1>4, <1>6, <2>2, <2>3 DEF RangesOf
<1>8. Forever' = Forever
  BY <1>4, StudyKept
<1>9. LastOf(f)'
  <2>1. \A v \in PublishedOf(f) :
          versions'[f][v].to # Forever /\ versions'[f][v].from <= from
    BY <1>1, <1>4, <1>5, <1>6
  <2>2. Open(f)' = {k}
    BY <1>4, <1>8, <2>1 DEF Open
  <2>3. \A v \in PublishedOf(f)' : versions'[f][v].from <= versions'[f][k].from
    BY <1>1, <1>4, <2>1
  <2> QED BY <1>4, <2>2, <2>3 DEF LastOf
<1>10. VersionsInv'
  BY <1>1, <1>4, <1>7, <1>9, OneTable DEF TableInv
<1>11. TablePastKept(f)
  <2>1. ASSUME NEW t \in 0..now PROVE InEffect(f, t)' = InEffect(f, t)
    <3>1. k \notin InEffect(f, t)'
      BY <1>1, <1>4 DEF InEffect
    <3>2. \A v \in PublishedOf(f) : v \in InEffect(f, t)' <=> v \in InEffect(f, t)
      BY <1>4, <1>6 DEF InEffect
    <3>3. InEffect(f, t)' \subseteq PublishedOf(f) \union {k} /\ InEffect(f, t) \subseteq PublishedOf(f)
      BY <1>4 DEF InEffect
    <3> QED BY <3>1, <3>2, <3>3
  <2>2. \A t : InEffect(f, t) \subseteq PublishedOf(f)
    BY DEF InEffect
  <2> QED BY <1>4, <2>1, <2>2 DEF TablePastKept
<1>12. \A g \in Families \ {f} : TablePastKept(g)
  BY <1>4 DEF TablePastKept, InEffect, PublishedOf
<1> QED BY <1>10, <1>11, <1>12

\* The end of a package plan is moved within the time that is free, and from
\* one future end to another.
LEMMA CloseKeeps ==
  ASSUME VersionsInv, NEW a, NEW to, CloseStep(a, to)
  PROVE  VersionsInv' /\ \A g \in Families : TablePastKept(g)
<1> DEFINE k == screen[a].version
           f == "packages"
<1>1. /\ a \in Admins /\ f \in Families /\ to \in Nat /\ to \in 0..Forever
      /\ now \in Nat /\ MaxTime \in Nat /\ now < MaxTime /\ now' = now + 1 /\ now' <= MaxTime
      /\ study.maxRevision \in Nat
      /\ UNCHANGED <<study, zoneOffset, screen>>
      /\ screen[a].family = f /\ DOMAIN versions = Families
      /\ versions[f][k].status = "PUBLISHED"
      /\ versions[f][k].from < to /\ now + 1 < to /\ now + 1 < versions[f][k].to
      /\ Overlapping(f, versions[f][k].from, to) \subseteq {k}
      /\ versions' = [versions EXCEPT ![f][k].to = to, ![f][k].revision = @ + 1]
  BY StudyTyped DEF CloseStep, ClosePackagePlan, Shows, Stamp, VersionsInv, VersionsTypeOK
<1> HIDE DEF f
<1>2. TableInv(f)
  BY <1>1, TableByTable
<1>3. k \in DOMAIN versions[f]
  BY <1>1, <1>2 DEF TableInv, ScreensOf
<1> HIDE DEF k
<1>4. k \in PublishedOf(f) /\ PublishedOf(f) \subseteq DOMAIN versions[f]
  BY <1>1, <1>3 DEF PublishedOf
<1>5. \A v \in DOMAIN versions[f] :
        /\ versions[f][v] \in Rows(f) /\ versions[f][v].revision \in Nat
        /\ versions[f][v].from \in Nat /\ versions[f][v].to \in Nat
  BY <1>1, RowsTyped DEF VersionsInv
<1>6. /\ DOMAIN versions' = Families
      /\ \A g \in Families \ {f} : versions'[g] = versions[g]
      /\ versions'[f] = [versions[f] EXCEPT ![k] =
           [versions[f][k] EXCEPT !.to = to, !.revision = @ + 1]]
  BY <1>1, <1>3
<1>7. /\ versions'[f] = [v \in DOMAIN versions[f] |-> versions'[f][v]]
      /\ \A v \in DOMAIN versions[f] \ {k} : versions'[f][v] = versions[f][v]
      /\ versions'[f][k] = [versions[f][k] EXCEPT !.to = to, !.revision = @ + 1]
  BY <1>3, <1>6
<1>8. /\ versions'[f][k] \in
           [status : {"DRAFT", "PUBLISHED"}, revision : Nat,
            content : Contents[f], shown : Contents[f],
            from : 0..Forever, to : 0..Forever, zone : {0, LocalOffset}]
      /\ versions'[f][k].status = "PUBLISHED"
      /\ versions'[f][k].revision = versions[f][k].revision + 1
      /\ versions'[f][k].content = versions[f][k].content
      /\ versions'[f][k].shown = versions[f][k].shown
      /\ versions'[f][k].from = versions[f][k].from
      /\ versions'[f][k].to = to
  <2> DEFINE old == versions[f][k]
  <2>1. /\ old \in [status : {"DRAFT", "PUBLISHED"},
                    revision : 1..(1 + study.maxRevision + MaxTime),
                    content : Contents[f], shown : Contents[f],
                    from : 0..Forever, to : 0..Forever, zone : {0, LocalOffset}]
        /\ old.revision \in Nat /\ old.status = "PUBLISHED"
    BY <1>1, <1>3, <1>5 DEF Rows
  <2>2. versions'[f][k] = [old EXCEPT !.to = to, !.revision = @ + 1]
    BY <1>7
  <2> HIDE DEF old
  <2>3. versions'[f][k] = [status |-> old.status, revision |-> old.revision + 1,
                           content |-> old.content, shown |-> old.shown,
                           from |-> old.from, to |-> to, zone |-> old.zone]
    BY <2>1, <2>2
  <2>4. /\ old.revision + 1 \in Nat
        /\ old.content \in Contents[f] /\ old.shown \in Contents[f]
        /\ old.from \in 0..Forever /\ old.zone \in {0, LocalOffset}
    BY <2>1
  <2> QED BY <1>1, <2>1, <2>3, <2>4 DEF old
<1>9. versions'[f][k].revision <= 1 + study.maxRevision + now'
  <2>1. versions[f][k].revision <= 1 + study.maxRevision + now
    BY <1>2, <1>3 DEF TableInv, RowsOf
  <2> QED BY <1>1, <1>3, <1>5, <1>8, <2>1
<1>10. \A v \in DOMAIN versions[f] :
         \/ versions'[f][v] = versions[f][v]
         \/ /\ versions'[f][v] \in
                 [status : {"DRAFT", "PUBLISHED"}, revision : Nat,
                  content : Contents[f], shown : Contents[f],
                  from : 0..Forever, to : 0..Forever, zone : {0, LocalOffset}]
            /\ versions'[f][v].revision = versions[f][v].revision + 1
            /\ versions'[f][v].revision <= 1 + study.maxRevision + now'
  BY <1>7, <1>8, <1>9
<1>11. DOMAIN versions'[f] = DOMAIN versions[f] /\ RowsOf(f)' /\ ScreensOf(f)'
  BY <1>1, <1>7, <1>10, RowsWritten
<1>12. PublishedOf(f)' = PublishedOf(f)
  <2>1. \A v \in DOMAIN versions[f] : versions'[f][v].status = versions[f][v].status
    BY <1>1, <1>7, <1>8
  <2> QED BY <1>11, <2>1 DEF PublishedOf
<1>13. RangesOf(f) /\ f # "payouts" /\ f \notin Successive
  BY <1>2 DEF TableInv, Successive, f
<1>14. \A v \in PublishedOf(f) \ {k} :
         versions[f][v].to <= versions[f][k].from \/ to <= versions[f][v].from
  BY <1>1, <1>4, <1>5 DEF Overlapping
<1>15. RangesOf(f)'
  <2>1. \A v \in PublishedOf(f) :
          /\ versions'[f][v].content = versions'[f][v].shown
          /\ versions'[f][v].from < versions'[f][v].to
    BY <1>1, <1>4, <1>7, <1>8, <1>13 DEF RangesOf
  <2>2. ASSUME NEW v \in PublishedOf(f), NEW w \in PublishedOf(f) \ {v}
        PROVE  \/ versions'[f][v].to <= versions'[f][w].from
               \/ versions'[f][w].to <= versions'[f][v].from
    <3>1. CASE v = k
      BY <1>4, <1>7, <1>8, <1>14, <3>1
    <3>2. CASE w = k
      BY <1>4, <1>7, <1>8, <1>14, <3>2
    <3>3. CASE v # k /\ w # k
      BY <1>4, <1>7, <1>13, <3>3 DEF RangesOf
    <3> QED BY <3>1, <3>2, <3>3
  <2> QED BY <1>12, <1>13, <2>1, <2>2 DEF RangesOf
<1>16. LastOf(f)'
  BY <1>13 DEF LastOf, Successive
<1>17. VersionsInv'
  BY <1>1, <1>6, <1>11, <1>15, <1>16, OneTable DEF TableInv
<1>18. TablePastKept(f)
  <2>1. \A v \in PublishedOf(f) :
          /\ versions'[f][v].content = versions[f][v].content
          /\ versions'[f][v].from = versions[f][v].from
          /\ \A t \in 0..now : t < versions'[f][v].to <=> t < versions[f][v].to
    BY <1>1, <1>4, <1>5, <1>7, <1>8
  <2>2. \A t \in 0..now : InEffect(f, t)' = InEffect(f, t)
    BY <1>12, <2>1 DEF InEffect
  <2>3. \A t : InEffect(f, t) \subseteq PublishedOf(f)
    BY DEF InEffect
  <2> QED BY <2>1, <2>2, <2>3 DEF TablePastKept
<1>19. \A g \in Families \ {f} : TablePastKept(g)
  BY <1>6 DEF TablePastKept, InEffect, PublishedOf
<1> QED BY <1>17, <1>18, <1>19

-----------------------------------------------------------------------------
(* The theorems.                                                            *)

LEMMA VersionsInitInv ==
  ASSUME VersionsInit
  PROVE  VersionsInv
<1>1. study \in Studies /\ now = 0 /\ zoneOffset \in {0, LocalOffset}
  BY DEF VersionsInit
<1>2. MaxTime \in Nat /\ study.maxRevision \in Nat /\ Forever \in Nat
  <2>1. study.maxTime \in Nat /\ study.maxRevision \in Nat /\ study.dayLength \in Nat
    BY <1>1, VersionsAssumption
  <2> QED BY <2>1 DEF MaxTime, Forever, LastTime, DayLength
<1>3. DOMAIN screen = Admins /\ \A a \in Admins : screen[a].family \notin Families
  BY VersionsAssumption DEF VersionsInit, NothingShown, Ranged, LocalDay
<1>4. ASSUME NEW f \in Families
      PROVE  /\ versions[f] \in Seq(Rows(f)) /\ PublishedOf(f) = {}
             /\ \A v \in DOMAIN versions[f] : versions[f][v].revision = 1
  <2>1. CASE versions[f] = << >>
    BY <2>1 DEF PublishedOf
  <2>2. CASE versions[f] = <<Draft(Seeded(f))>>
    <3>1. Seeded(f) \in Contents[f]
      BY VersionsAssumption DEF Seeded
    <3>2. Draft(Seeded(f)) \in Rows(f)
      BY <1>2, <3>1 DEF Draft, Rows
    <3>3. DOMAIN versions[f] = {1} /\ versions[f][1] = Draft(Seeded(f))
      BY <2>2
    <3> QED BY <2>2, <3>2, <3>3 DEF PublishedOf, Draft
  <2> QED BY <2>1, <2>2 DEF VersionsInit
<1>5. VersionsTypeOK
  BY <1>1, <1>2, <1>3, <1>4 DEF VersionsTypeOK, VersionsInit
<1>6. RevisionsBounded /\ ScreensBehind /\ PayoutsAtOnce
  BY <1>1, <1>2, <1>3, <1>4 DEF RevisionsBounded, ScreensBehind, PayoutsAtOnce
<1>7. RangesDisjoint /\ AlwaysASuccessor /\ PublishedAsShown
  BY <1>4 DEF RangesDisjoint, AlwaysASuccessor, PublishedAsShown
<1> QED BY <1>5, <1>6, <1>7 DEF VersionsInv

\* Every step keeps the invariant and the past of every table.
LEMMA VersionsStep ==
  ASSUME VersionsInv, [VersionsNext]_versionVars
  PROVE  VersionsInv' /\ \A f \in Families : TablePastKept(f)
<1>1. CASE VersionsNext
  BY <1>1, StepKinds, QuietKeeps, AddKeeps, SaveKeeps, RangeKeeps, SuccessorKeeps, CloseKeeps
<1>2. CASE UNCHANGED versionVars
  <2>1. QuietStep
    BY <1>2, StudyTyped DEF QuietStep, versionVars, VersionsInv, VersionsTypeOK
  <2> QED BY <2>1, QuietKeeps
<1> QED BY <1>1, <1>2

\* The inductive invariant of the versioned configuration.
THEOREM VersionsAreKept == VersionsSpec => []VersionsInv
<1>1. VersionsInit => VersionsInv
  BY VersionsInitInv
<1>2. VersionsInv /\ [VersionsNext]_versionVars => VersionsInv'
  BY VersionsStep
<1> QED BY <1>1, <1>2, PTL DEF VersionsSpec

\* Rows, screens and the clock have their types: no range leaves the time of
\* the study and no save raises a revision past its bound.
THEOREM VersionsTyped == VersionsSpec => []VersionsTypeOK
<1>1. VersionsInv => VersionsTypeOK
  BY DEF VersionsInv
<1> QED BY <1>1, VersionsAreKept, PTL

\* In no table are two published versions ever in effect at one time, whoever
\* publishes, closes and edits in whatever order.
THEOREM VersionsDisjoint == VersionsSpec => []RangesDisjoint
<1>1. VersionsInv => RangesDisjoint
  BY DEF VersionsInv
<1> QED BY <1>1, VersionsAreKept, PTL

\* Payout, trading and simulated-activity policies have, from the first
\* publication on, exactly one open version, the last one to start.
THEOREM VersionsSucceeded == VersionsSpec => []AlwaysASuccessor
<1>1. VersionsInv => AlwaysASuccessor
  BY DEF VersionsInv
<1> QED BY <1>1, VersionsAreKept, PTL

\* The content put into effect is the content the publishing administrator had
\* on the screen: comparing the revision is enough.
THEOREM VersionsAsShown == VersionsSpec => []PublishedAsShown
<1>1. VersionsInv => PublishedAsShown
  BY DEF VersionsInv
<1> QED BY <1>1, VersionsAreKept, PTL

\* No step changes which version was in effect at a time that has come, nor
\* what that version says.
THEOREM VersionsPast == VersionsSpec => PastIsSettled
<1>1. VersionsInv /\ [VersionsNext]_versionVars
        => [\A f \in Families, t \in 0..now :
              /\ InEffect(f, t)' = InEffect(f, t)
              /\ \A v \in InEffect(f, t) :
                   versions'[f][v].content = versions[f][v].content]_versionVars
  BY VersionsStep DEF TablePastKept
<1> QED BY <1>1, VersionsAreKept, PTL DEF VersionsSpec, PastIsSettled
=============================================================================
