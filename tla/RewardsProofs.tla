---------------------------- MODULE RewardsProofs -----------------------------
(***************************************************************************)
(* Proofs about the daily rewards, for every number of packages and        *)
(* whatever their amounts: the types, that a package is paid for           *)
(* consecutive days once each, and that cap and term are kept.             *)
(*                                                                         *)
(* The invariant has one part per package.  It rests on what holds of the  *)
(* row while rewards may still be posted: its next day lies in the term    *)
(* and the cap is not yet consumed.                                        *)
(***************************************************************************)
EXTENDS Rewards, Totals, SequenceTheorems

\* The tables without the runners, and the runners.
TablesTyped ==
  /\ now \in Nat /\ crashes \in Nat /\ earnings \in Nat
  /\ policies \subseteq PolicyRange
  /\ package \in [Subs -> {"NONE", "ACTIVE", "COMPLETED"}]
  /\ state \in [Subs -> StateRow \cup {NoRow}]
  /\ events \in Seq(EventRow)

\* A run goes by an instant that has been.
RunsTyped ==
  /\ runner \in [Runners -> Run]
  /\ \A r \in Runners : runner[r].asOf <= now

\* The next day is after the activation and after the start of the policy;
\* while the row is active it lies in the term and the cap has room.
InTerm(s) ==
  /\ package[s] # "NONE"
  /\ state[s].nextDay > ActivationDay(s) /\ state[s].nextDay > Day(state[s].from)
  /\ state[s].status = "ACTIVE" => DayNumber(s) <= GoalDays /\ Headroom(s) > 0

\* The parts of the two properties that are about one package.
DaysPaid(s) ==
  /\ Cardinality(EventsOf(s)) = state[s].settled
  /\ {events[i].day : i \in EventsOf(s)} = LastDay(s) - state[s].settled + 1 .. LastDay(s)
  /\ \A i, j \in EventsOf(s) : i < j => events[i].day < events[j].day

Consumed(s) ==
  /\ Price[s] + PaidTo(s) <= CapLimit[s]
  /\ state[s].capConsumed = Price[s] + PaidTo(s)

DaysInTerm(s) ==
  \A i \in EventsOf(s) :
    /\ events[i].day \in ActivationDay(s) + 1 .. ActivationDay(s) + GoalDays
    /\ events[i].day > Day(state[s].from) /\ events[i].day <= Day(now)

EndsTogether(s) == state[s].status = "COMPLETED" => package[s] = "COMPLETED"

\* What holds of a package: without a row it has no reward.
PackageOK(s) ==
  IF HasRow(s) THEN InTerm(s) /\ DaysPaid(s) /\ Consumed(s) /\ DaysInTerm(s) /\ EndsTogether(s)
               ELSE EventsOf(s) = {}

Balanced == earnings = SumFunction(Amounts)

\* The inductive invariant.
TablesInv == TablesTyped /\ Balanced /\ \A s \in Subs : PackageOK(s)
RewardInv == TablesInv /\ RunsTyped

-----------------------------------------------------------------------------
(* Days and rows.                                                           *)

\* The instant a day begins.
LEMMA DayProduct ==
  ASSUME NEW d \in Nat
  PROVE  d * DayLength \in Nat
<1>1. DayLength \in Nat
  BY RewardsAssumption
<1> QED BY <1>1, Z3

\* Days follow instants, and a day that has begun is not after today.
LEMMA DayOf ==
  ASSUME NEW t \in Nat
  PROVE  /\ Day(t) \in Nat
         /\ \A d \in Nat : d * DayLength <= t => d <= Day(t)
         /\ Day(t) * DayLength <= t
<1>1. DayLength \in Nat /\ DayLength > 0
  BY RewardsAssumption
<1> DEFINE a == t \div DayLength
<1>2. a \in Int /\ DayLength * a <= t /\ t < DayLength * a + DayLength
  BY <1>1, Z3
<1> HIDE DEF a
<1>3. ASSUME NEW p \in Int, NEW q \in Int, p >= q + 1
      PROVE  DayLength * p >= DayLength * q + DayLength
  BY <1>1, <1>3, Z3
<1>4. a >= 0
  <2>1. ASSUME NEW p \in Int, p < 0 PROVE DayLength * p + DayLength <= 0
    BY <1>1, <2>1, Z3
  <2>2. DayLength * a \in Int
    BY <1>1, <1>2
  <2> QED BY <1>1, <1>2, <2>1, <2>2
<1>5. \A p \in Int : p * DayLength = DayLength * p /\ DayLength * p \in Int
  BY <1>1, Z3
<1>6. ASSUME NEW d \in Nat, d * DayLength <= t
      PROVE  d <= a
  <2> SUFFICES ASSUME d >= a + 1 PROVE FALSE
    BY <1>2
  <2>1. DayLength * d >= DayLength * a + DayLength
    BY <1>2, <1>3
  <2> QED BY <1>1, <1>2, <1>5, <1>6, <2>1
<1>7. a * DayLength <= t
  BY <1>2, <1>5
<1> QED BY <1>2, <1>4, <1>6, <1>7 DEF a, Day

LEMMA DaysOrdered ==
  ASSUME NEW t \in Nat, NEW n \in Nat, t <= n
  PROVE  Day(t) <= Day(n)
<1>1. Day(t) \in Nat /\ Day(t) * DayLength <= t
  BY DayOf
<1>2. Day(t) * DayLength \in Nat
  BY <1>1, RewardsAssumption
<1>3. Day(t) * DayLength <= n
  BY <1>1, <1>2
<1> QED BY <1>1, <1>3, DayOf

\* A row, or none.
LEMMA RowTyped ==
  ASSUME TablesTyped, NEW s \in Subs
  PROVE  /\ state[s] \in StateRow \cup {NoRow}
         /\ HasRow(s) <=> state[s] \in StateRow
         /\ ~HasRow(s) <=> state[s] = NoRow
BY DEF TablesTyped, HasRow, StateRow, NoRow

\* Events are numbered from 1, and a package's events are finitely many.
LEMMA EventsTyped ==
  ASSUME TablesTyped
  PROVE  /\ Len(events) \in Nat /\ DOMAIN events = 1 .. Len(events)
         /\ IsFiniteSet(DOMAIN events)
         /\ \A i \in DOMAIN events : events[i] \in EventRow
         /\ Amounts \in [DOMAIN events -> Nat]
         /\ \A s : /\ EventsOf(s) \subseteq DOMAIN events
                   /\ IsFiniteSet(EventsOf(s)) /\ Cardinality(EventsOf(s)) \in Nat
<1>1. Len(events) \in Nat /\ DOMAIN events = 1 .. Len(events)
  BY DEF TablesTyped
<1>2. \A i \in DOMAIN events : events[i] \in EventRow
  BY DEF TablesTyped
<1>3. IsFiniteSet(DOMAIN events)
  BY <1>1, FS_Interval
<1>4. Amounts \in [DOMAIN events -> Nat]
  BY <1>2 DEF Amounts, EventRow
<1>5. ASSUME NEW s
      PROVE  /\ EventsOf(s) \subseteq DOMAIN events
             /\ IsFiniteSet(EventsOf(s)) /\ Cardinality(EventsOf(s)) \in Nat
  <2>1. EventsOf(s) \subseteq DOMAIN events
    BY DEF EventsOf
  <2>2. IsFiniteSet(EventsOf(s))
    BY <1>3, <2>1, FS_Subset
  <2> QED BY <2>1, <2>2, FS_CardinalityType
<1> QED BY <1>1, <1>2, <1>3, <1>4, <1>5

\* What has been paid is a natural number, and nothing without an event.
LEMMA PaidTyped ==
  ASSUME TablesTyped, NEW s
  PROVE  /\ PaidTo(s) \in Nat
         /\ EventsOf(s) = {} => PaidTo(s) = 0 /\ Cardinality(EventsOf(s)) = 0
<1>1. /\ IsFiniteSet(EventsOf(s)) /\ EventsOf(s) \subseteq DOMAIN events
      /\ Amounts \in [DOMAIN events -> Nat]
  BY EventsTyped
<1>2. \A i \in EventsOf(s) : Amounts[i] \in Nat
  BY <1>1
<1>3. PaidTo(s) \in Nat
  BY <1>1, <1>2, SumNat DEF PaidTo
<1>4. EventsOf(s) = {} => PaidTo(s) = 0
  BY SumEmpty DEF PaidTo
<1> QED BY <1>3, <1>4, FS_EmptySet

-----------------------------------------------------------------------------
(* Steps that keep the rows and the events.                                 *)

\* Packages may start and end, time may pass.
KeepsRows ==
  /\ UNCHANGED <<state, events, earnings>>
  /\ now' \in Nat /\ now' >= now /\ crashes' \in Nat /\ policies' \subseteq PolicyRange
  /\ package' \in [Subs -> {"NONE", "ACTIVE", "COMPLETED"}]
  /\ \A s \in Subs : /\ package[s] # "NONE" => package'[s] # "NONE"
                     /\ package[s] = "COMPLETED" => package'[s] = "COMPLETED"

LEMMA RowsKept ==
  ASSUME TablesInv, KeepsRows
  PROVE  TablesInv'
<1>1. TablesTyped'
  BY DEF TablesInv, TablesTyped, KeepsRows
<1>2. Balanced'
  BY DEF TablesInv, Balanced, Amounts, KeepsRows
<1>3. ASSUME NEW s \in Subs
      PROVE  PackageOK(s)'
  <2>1. PackageOK(s) /\ TablesTyped
    BY DEF TablesInv
  <2>2. /\ HasRow(s)' <=> HasRow(s)
        /\ EventsOf(s)' = EventsOf(s)
        /\ LastDay(s)' = LastDay(s)
        /\ Amounts' = Amounts
    BY DEF KeepsRows, HasRow, EventsOf, LastDay, Amounts
  <2>3. PaidTo(s)' = PaidTo(s)
    BY <2>2 DEF PaidTo
  <2>4. HasRow(s) => DaysPaid(s)' /\ Consumed(s)'
    BY <2>1, <2>2, <2>3 DEF PackageOK, DaysPaid, Consumed, KeepsRows
  <2>5. HasRow(s) => InTerm(s)' /\ EndsTogether(s)'
    BY <2>1 DEF PackageOK, InTerm, EndsTogether, KeepsRows, DayNumber, Headroom
  <2>6. HasRow(s) => DaysInTerm(s)'
    <3>1. now \in Nat /\ now' \in Nat /\ now <= now'
      BY <2>1 DEF TablesTyped, KeepsRows
    <3>2. Day(now) \in Nat /\ Day(now') \in Nat /\ Day(now) <= Day(now')
      BY <3>1, DayOf, DaysOrdered
    <3>3. \A i \in EventsOf(s) : events[i].day \in Nat
      BY <2>1, EventsTyped DEF EventRow
    <3>4. Day(now)' = Day(now')
      BY DEF Day
    <3>5. ASSUME HasRow(s), NEW i \in EventsOf(s)
          PROVE  /\ events[i].day \in ActivationDay(s) + 1 .. ActivationDay(s) + GoalDays
                 /\ events[i].day > Day(state[s].from) /\ events[i].day <= Day(now')
      <4>1. /\ events[i].day \in ActivationDay(s) + 1 .. ActivationDay(s) + GoalDays
            /\ events[i].day > Day(state[s].from) /\ events[i].day <= Day(now)
        BY <2>1, <3>5 DEF PackageOK, DaysInTerm
      <4> QED BY <3>2, <3>3, <4>1
    <3> QED BY <2>2, <3>4, <3>5 DEF DaysInTerm, KeepsRows
  <2> QED BY <2>1, <2>2, <2>4, <2>5, <2>6 DEF PackageOK
<1> QED BY <1>1, <1>2, <1>3 DEF TablesInv

-----------------------------------------------------------------------------
(* A new row.                                                               *)

\* What the constants are for one package.
LEMMA PackageTerms ==
  ASSUME NEW s \in Subs
  PROVE  /\ ActivatedAt[s] \in Nat /\ Price[s] \in Nat /\ CapLimit[s] \in Nat
         /\ CapLimit[s] >= Price[s] /\ GoalDays \in Nat
         /\ ActivationDay(s) \in Nat
         /\ \A d \in 1 .. GoalDays : Calculated[s][d] \in Nat /\ Calculated[s][d] > 0
<1>1. /\ ActivatedAt[s] \in Nat /\ Price[s] \in Nat /\ CapLimit[s] \in Nat
      /\ CapLimit[s] >= Price[s] /\ GoalDays \in Nat
      /\ \A d \in 1 .. GoalDays : Calculated[s][d] \in Nat /\ Calculated[s][d] > 0
  BY RewardsAssumption
<1> QED BY <1>1, DayOf DEF ActivationDay

\* A new row starts in the term, with the principal consumed and nothing paid.
LEMMA NewRow ==
  ASSUME NEW s \in Subs, NEW p \in PolicyRange
  PROVE  LET row == InitialRow(s, p)
         IN /\ row \in StateRow
            /\ row.nextDay > ActivationDay(s) /\ row.nextDay > Day(row.from)
            /\ row.capConsumed = Price[s] /\ row.settled = 0
            /\ row.status = "ACTIVE" => /\ row.nextDay - ActivationDay(s) <= GoalDays
                                        /\ row.capConsumed < CapLimit[s]
<1> DEFINE start == Most(ActivatedAt[s], p.from)
           day == FirstRewardDay(s, p)
<1>1. /\ ActivatedAt[s] \in Nat /\ Price[s] \in Nat /\ CapLimit[s] \in Nat
      /\ CapLimit[s] >= Price[s] /\ GoalDays \in Nat /\ ActivationDay(s) \in Nat
  BY PackageTerms
<1>2. p.from \in Nat
  BY DEF PolicyRange
<1>3. start \in Nat /\ start >= ActivatedAt[s] /\ start >= p.from
  BY <1>1, <1>2 DEF Most
<1>4. /\ Day(start) \in Nat /\ Day(p.from) \in Nat
      /\ Day(start) >= ActivationDay(s) /\ Day(start) >= Day(p.from)
  <2> HIDE DEF start
  <2>1. Day(ActivatedAt[s]) <= Day(start) /\ Day(p.from) <= Day(start)
    BY <1>1, <1>2, <1>3, DaysOrdered
  <2> QED BY <1>1, <1>2, <1>3, <2>1, DayOf DEF ActivationDay
<1>5. day = Day(start) + 1
  BY DEF FirstRewardDay
<1>6. Least(Price[s], CapLimit[s]) = Price[s]
  BY <1>1 DEF Least
<1> HIDE DEF start, day
<1>7. InitialRow(s, p) =
        [status |-> IF s \notin Executable THEN "BLOCKED"
                    ELSE IF Price[s] >= CapLimit[s] \/ day - ActivationDay(s) > GoalDays
                           THEN "COMPLETED" ELSE "ACTIVE",
         nextDay |-> day, capConsumed |-> Price[s], settled |-> 0, from |-> p.from]
  BY <1>6 DEF InitialRow, day
<1>8. day \in Nat /\ day > ActivationDay(s) /\ day > Day(p.from)
  BY <1>1, <1>4, <1>5
<1> QED BY <1>1, <1>2, <1>7, <1>8 DEF StateRow

\* The other packages are as before when events, time and their rows are.
LEMMA OthersAsBefore ==
  ASSUME TablesInv, NEW t \in Subs,
         state'[t] = state[t], package'[t] = package[t], now' = now,
         EventsOf(t)' = EventsOf(t), PaidTo(t)' = PaidTo(t),
         \A i \in EventsOf(t) : events'[i] = events[i]
  PROVE  PackageOK(t)'
<1>1. PackageOK(t)
  BY DEF TablesInv
<1>2. HasRow(t)' <=> HasRow(t)
  BY DEF HasRow
<1>3. HasRow(t) => InTerm(t)' /\ EndsTogether(t)'
  BY <1>1 DEF PackageOK, InTerm, EndsTogether, DayNumber, Headroom
<1>4. HasRow(t) => Consumed(t)'
  BY <1>1 DEF PackageOK, Consumed
<1>5. HasRow(t) => DaysInTerm(t)'
  BY <1>1 DEF PackageOK, DaysInTerm
<1>6. HasRow(t) => DaysPaid(t)'
  <2>1. LastDay(t)' = LastDay(t)
    BY DEF LastDay
  <2>2. {events'[i].day : i \in EventsOf(t)} = {events[i].day : i \in EventsOf(t)}
    OBVIOUS
  <2>3. \A i, j \in EventsOf(t) :
          (events'[i].day < events'[j].day) = (events[i].day < events[j].day)
    OBVIOUS
  <2> QED BY <1>1, <2>1, <2>2, <2>3 DEF PackageOK, DaysPaid
<1> QED BY <1>1, <1>2, <1>3, <1>4, <1>5, <1>6 DEF PackageOK

LEMMA EnsureKept ==
  ASSUME TablesInv, NEW s \in Subs, NEW asOf \in Nat, Ensure(s, asOf)
  PROVE  TablesInv'
<1>1. TablesTyped /\ Balanced /\ \A t \in Subs : PackageOK(t)
  BY DEF TablesInv
<1>2. UNCHANGED <<now, policies, events, earnings, crashes>>
  BY DEF Ensure
<1>3. CASE HasRow(s) \/ package[s] # "ACTIVE" \/ PoliciesFor(s, asOf) = {}
  <2>1. state' = state /\ package' = package
    BY <1>1, <1>3 DEF Ensure, Ensured, TablesTyped
  <2>2. KeepsRows
    BY <1>1, <1>2, <2>1 DEF KeepsRows, TablesTyped
  <2> QED BY <2>2, RowsKept
<1>4. CASE ~HasRow(s) /\ package[s] = "ACTIVE" /\ PoliciesFor(s, asOf) # {}
  <2> DEFINE p == CHOOSE p \in PoliciesFor(s, asOf) : TRUE
             row == InitialRow(s, p)
  <2>1. p \in PoliciesFor(s, asOf)
    BY <1>4
  <2>2. p \in PolicyRange
    <3> HIDE DEF p
    <3>1. p \in policies
      BY <2>1 DEF PoliciesFor
    <3> QED BY <1>1, <3>1 DEF TablesTyped
  <2>3. /\ state' = [state EXCEPT ![s] = row]
        /\ package' = [package EXCEPT ![s] = IF row.status = "COMPLETED" THEN "COMPLETED"
                                                                        ELSE package[s]]
    BY <1>4 DEF Ensure, Ensured
  <2> HIDE DEF p
  <2>4. /\ row \in StateRow
        /\ row.nextDay > ActivationDay(s) /\ row.nextDay > Day(row.from)
        /\ row.capConsumed = Price[s] /\ row.settled = 0
        /\ row.status = "ACTIVE" => /\ row.nextDay - ActivationDay(s) <= GoalDays
                                    /\ row.capConsumed < CapLimit[s]
    BY <2>2, NewRow
  <2> HIDE DEF row
  <2>5. /\ state'[s] = row /\ package'[s] # "NONE"
        /\ row.status = "COMPLETED" => package'[s] = "COMPLETED"
        /\ \A t \in Subs : t # s => state'[t] = state[t] /\ package'[t] = package[t]
    BY <1>1, <1>4, <2>3 DEF TablesTyped
  <2>6. TablesTyped'
    <3>1. state' \in [Subs -> StateRow \cup {NoRow}]
      BY <1>1, <2>3, <2>4 DEF TablesTyped
    <3>2. package' \in [Subs -> {"NONE", "ACTIVE", "COMPLETED"}]
      BY <1>1, <1>4, <2>3 DEF TablesTyped
    <3> QED BY <1>1, <1>2, <3>1, <3>2 DEF TablesTyped
  <2>7. Balanced'
    BY <1>1, <1>2 DEF Balanced, Amounts
  <2>8. \A t : EventsOf(t)' = EventsOf(t) /\ PaidTo(t)' = PaidTo(t)
    BY <1>2 DEF EventsOf, PaidTo, Amounts
  <2>9. ASSUME NEW t \in Subs, t # s
        PROVE  PackageOK(t)'
    BY <1>2, <2>5, <2>8, <2>9, OthersAsBefore
  <2>10. PackageOK(s)'
    <3>1. EventsOf(s) = {} /\ PaidTo(s) = 0 /\ Cardinality(EventsOf(s)) = 0
      BY <1>1, <1>4, PaidTyped DEF PackageOK
    <3>2. EventsOf(s)' = {} /\ PaidTo(s)' = 0
      BY <2>8, <3>1
    <3>3. HasRow(s)'
      BY <2>4, <2>5 DEF HasRow, StateRow
    <3>4. /\ Price[s] \in Nat /\ CapLimit[s] \in Nat /\ CapLimit[s] >= Price[s]
          /\ ActivationDay(s) \in Nat /\ GoalDays \in Nat
      BY PackageTerms
    <3>5. row.nextDay \in Nat /\ row.settled = 0 /\ row.capConsumed = Price[s]
      BY <2>4 DEF StateRow
    <3>6. InTerm(s)'
      BY <2>4, <2>5, <3>4, <3>5 DEF InTerm, DayNumber, Headroom
    <3>7. EndsTogether(s)'
      BY <2>5 DEF EndsTogether
    <3>8. Consumed(s)'
      BY <2>5, <3>2, <3>4, <3>5 DEF Consumed
    <3>9. DaysInTerm(s)'
      BY <3>2 DEF DaysInTerm
    <3>10. DaysPaid(s)'
      <4>1. LastDay(s)' \in Int
        BY <2>5, <3>5 DEF LastDay
      <4>2. LastDay(s)' - 0 + 1 .. LastDay(s)' = {}
        BY <4>1
      <4>3. Cardinality(EventsOf(s)') = 0
        BY <2>8, <3>1
      <4> QED BY <2>5, <3>2, <3>5, <4>2, <4>3 DEF DaysPaid
    <3> QED BY <3>3, <3>6, <3>7, <3>8, <3>9, <3>10 DEF PackageOK
  <2> QED BY <2>6, <2>7, <2>9, <2>10 DEF TablesInv
<1> QED BY <1>3, <1>4

-----------------------------------------------------------------------------
(* One reward.                                                              *)

\* An event more: it is its package's, whose sum and count it raises.
LEMMA EventPosted ==
  ASSUME TablesTyped, NEW e \in EventRow, events' = Append(events, e)
  PROVE  LET n == Len(events) + 1
         IN /\ events' \in Seq(EventRow) /\ events'[n] = e /\ n \notin DOMAIN events
            /\ DOMAIN events' = DOMAIN events \cup {n}
            /\ \A i \in DOMAIN events : events'[i] = events[i] /\ i < n
            /\ SumFunction(Amounts)' = SumFunction(Amounts) + e.amount
            /\ EventsOf(e.sub)' = EventsOf(e.sub) \cup {n}
            /\ Cardinality(EventsOf(e.sub))' = Cardinality(EventsOf(e.sub)) + 1
            /\ PaidTo(e.sub)' = PaidTo(e.sub) + e.amount
            /\ \A t \in Subs : t # e.sub =>
                 EventsOf(t)' = EventsOf(t) /\ PaidTo(t)' = PaidTo(t)
<1> DEFINE n == Len(events) + 1
           s == e.sub
<1>1. /\ Len(events) \in Nat /\ DOMAIN events = 1 .. Len(events)
      /\ IsFiniteSet(DOMAIN events) /\ Amounts \in [DOMAIN events -> Nat]
      /\ \A t : EventsOf(t) \subseteq DOMAIN events /\ IsFiniteSet(EventsOf(t))
  BY EventsTyped
<1>2. /\ events' \in Seq(EventRow) /\ Len(events') = n
      /\ \A i \in 1 .. Len(events) : events'[i] = events[i]
      /\ events'[n] = e
  BY AppendProperties DEF TablesTyped
<1>3. DOMAIN events' = 1 .. n
  BY <1>2
<1>4. /\ n \notin DOMAIN events /\ DOMAIN events' = DOMAIN events \cup {n}
      /\ \A i \in DOMAIN events : events'[i] = events[i] /\ i < n
  BY <1>1, <1>2, <1>3
<1> HIDE DEF n
<1>5. /\ EventsOf(s)' = EventsOf(s) \cup {n} /\ n \notin EventsOf(s)
      /\ \A t : t # s => EventsOf(t)' = EventsOf(t)
  BY <1>2, <1>4 DEF EventsOf
<1> HIDE DEF s
<1> DEFINE new == [i \in DOMAIN events' |-> events'[i].amount]
<1>6. Amounts' = new /\ e.amount \in Nat
  BY DEF Amounts, EventRow
<1>7. /\ \A i \in DOMAIN events : new[i] = Amounts[i] /\ Amounts[i] \in Nat
      /\ new[n] = e.amount /\ DOMAIN new = DOMAIN events \cup {n}
      /\ DOMAIN Amounts = DOMAIN events
  BY <1>1, <1>2, <1>4 DEF Amounts
<1> HIDE DEF new
<1>8. ASSUME NEW S \in SUBSET DOMAIN events
      PROVE  /\ SumFunctionOnSet(new, S) = SumFunctionOnSet(Amounts, S)
             /\ SumFunctionOnSet(new, S \cup {n}) = SumFunctionOnSet(Amounts, S) + e.amount
  <2>1. IsFiniteSet(S) /\ n \notin S
    BY <1>1, <1>4, FS_Subset
  <2>2. \A i \in S : new[i] = Amounts[i] /\ Amounts[i] \in Nat
    BY <1>7
  <2>3. SumFunctionOnSet(new, S) = SumFunctionOnSet(Amounts, S)
    BY <2>1, <2>2, SumSame
  <2>4. \A i \in S \cup {n} : new[i] \in Int
    BY <1>6, <1>7, <2>2
  <2>5. SumFunctionOnSet(new, S \cup {n}) = new[n] + SumFunctionOnSet(new, S)
    BY <2>1, <2>4, SumAdd
  <2>6. SumFunctionOnSet(Amounts, S) \in Nat
    BY <2>1, <2>2, SumNat
  <2> QED BY <1>6, <1>7, <2>3, <2>5, <2>6
<1>9. SumFunction(Amounts)' = SumFunction(Amounts) + e.amount
  <2>1. SumFunction(new) = SumFunction(Amounts) + e.amount
    BY <1>7, <1>8 DEF SumFunction
  <2> QED BY <1>6, <2>1
<1>10. PaidTo(s)' = PaidTo(s) + e.amount
  <2>1. SumFunctionOnSet(new, EventsOf(s) \cup {n})
          = SumFunctionOnSet(Amounts, EventsOf(s)) + e.amount
    BY <1>1, <1>8
  <2> QED BY <1>5, <1>6, <2>1 DEF PaidTo
<1>11. ASSUME NEW t \in Subs, t # s
       PROVE  PaidTo(t)' = PaidTo(t)
  <2>1. SumFunctionOnSet(new, EventsOf(t)) = SumFunctionOnSet(Amounts, EventsOf(t))
    BY <1>1, <1>8
  <2> QED BY <1>5, <1>6, <1>11, <2>1 DEF PaidTo
<1>12. Cardinality(EventsOf(s))' = Cardinality(EventsOf(s)) + 1
  <2>1. IsFiniteSet(EventsOf(s))
    BY <1>1
  <2>2. Cardinality(EventsOf(s) \cup {n}) = Cardinality(EventsOf(s)) + 1
    BY <1>5, <2>1, FS_AddElement
  <2> QED BY <1>5, <2>2
<1> QED BY <1>2, <1>4, <1>5, <1>9, <1>10, <1>11, <1>12 DEF n, s

\* The days of a package grow by the next one.
LEMMA DaysGrow ==
  ASSUME NEW d \in Nat, NEW k \in Nat
  PROVE  (d - 1 - k + 1 .. d - 1) \cup {d} = d - (k + 1) + 1 .. d
OBVIOUS

LEMMA RewardKept ==
  ASSUME TablesInv, NEW s \in Subs, NEW asOf \in Nat, asOf <= now, Due(s, asOf), PostReward(s)
  PROVE  TablesInv'
<1> DEFINE row == state[s]
           posted == Posted(s)
           last == posted = Headroom(s) \/ DayNumber(s) >= GoalDays
           e == [sub |-> s, day |-> row.nextDay, amount |-> posted]
           n == Len(events) + 1
<1>1. TablesTyped /\ Balanced /\ \A t \in Subs : PackageOK(t)
  BY DEF TablesInv
<1>2. row \in StateRow /\ row.status = "ACTIVE" /\ HasRow(s)
  BY <1>1, RowTyped DEF Due
<1>3. InTerm(s) /\ DaysPaid(s) /\ Consumed(s) /\ DaysInTerm(s)
  BY <1>1, <1>2 DEF PackageOK
<1>4. /\ row.nextDay \in Nat /\ row.capConsumed \in Nat /\ row.settled \in Nat
      /\ row.from \in Nat
  BY <1>2 DEF StateRow
<1>5. /\ Price[s] \in Nat /\ CapLimit[s] \in Nat /\ GoalDays \in Nat
      /\ ActivationDay(s) \in Nat
  BY PackageTerms
<1>6. /\ row.nextDay > ActivationDay(s) /\ row.nextDay > Day(row.from)
      /\ row.nextDay <= ActivationDay(s) + GoalDays
      /\ Headroom(s) \in Nat /\ Headroom(s) > 0
  BY <1>2, <1>3, <1>4, <1>5 DEF InTerm, DayNumber, Headroom
<1>7. DayNumber(s) \in 1 .. GoalDays
  BY <1>4, <1>5, <1>6 DEF DayNumber
<1>8. posted \in Nat /\ posted <= Headroom(s)
  BY <1>6, <1>7, PackageTerms DEF Posted, Least
<1>9. row.nextDay <= Day(now)
  <2>1. row.nextDay * DayLength \in Nat
    BY <1>4, DayProduct
  <2>2. row.nextDay * DayLength <= asOf
    BY DEF Due, DueAt
  <2>3. row.nextDay * DayLength <= now /\ now \in Nat
    BY <1>1, <2>1, <2>2 DEF TablesTyped
  <2> QED BY <1>4, <2>3, DayOf
<1>10. e \in EventRow
  BY <1>4, <1>8 DEF EventRow
<1>11. /\ events' = Append(events, e) /\ earnings' = earnings + posted
       /\ state' = [state EXCEPT ![s].capConsumed = @ + posted,
                                 ![s].settled = @ + 1,
                                 ![s].nextDay = IF last THEN @ ELSE @ + 1,
                                 ![s].status = IF last THEN "COMPLETED" ELSE @]
       /\ package' = IF last THEN [package EXCEPT ![s] = "COMPLETED"] ELSE package
       /\ UNCHANGED <<now, policies, crashes>>
  BY DEF PostReward
<1> HIDE DEF last, posted
<1>12. /\ state'[s] = [status |-> IF last THEN "COMPLETED" ELSE row.status,
                       nextDay |-> IF last THEN row.nextDay ELSE row.nextDay + 1,
                       capConsumed |-> row.capConsumed + posted,
                       settled |-> row.settled + 1, from |-> row.from]
       /\ \A t \in Subs : t # s => state'[t] = state[t]
       /\ DOMAIN state' = Subs
  BY <1>1, <1>2, <1>11 DEF TablesTyped, StateRow
<1>13. /\ package' \in [Subs -> {"NONE", "ACTIVE", "COMPLETED"}]
       /\ package'[s] = IF last THEN "COMPLETED" ELSE package[s]
       /\ \A t \in Subs : t # s => package'[t] = package[t]
  BY <1>1, <1>11 DEF TablesTyped
<1>14. /\ events' \in Seq(EventRow) /\ events'[n] = e
       /\ \A i \in DOMAIN events : events'[i] = events[i] /\ i < n
       /\ SumFunction(Amounts)' = SumFunction(Amounts) + posted
       /\ EventsOf(s)' = EventsOf(s) \cup {n} /\ n \notin EventsOf(s)
       /\ Cardinality(EventsOf(s))' = Cardinality(EventsOf(s)) + 1
       /\ PaidTo(s)' = PaidTo(s) + posted
       /\ \A t \in Subs : t # s => EventsOf(t)' = EventsOf(t) /\ PaidTo(t)' = PaidTo(t)
  <2>1. e.sub = s /\ e.amount = posted
    OBVIOUS
  <2>2. EventsOf(s) \subseteq DOMAIN events
    BY DEF EventsOf
  <2> HIDE DEF e
  <2> QED BY <1>1, <1>10, <1>11, <2>1, <2>2, EventPosted
<1>15. \A i \in EventsOf(s) : i \in DOMAIN events /\ i \in Nat /\ events[i].day \in Nat
  BY <1>1, EventsTyped DEF EventRow
<1>16. TablesTyped'
  <2>1. state'[s] \in StateRow
    BY <1>2, <1>4, <1>8, <1>12 DEF StateRow
  <2>2. state' \in [Subs -> StateRow \cup {NoRow}]
    <3>1. \A t \in Subs : state'[t] \in StateRow \cup {NoRow}
      BY <1>1, <1>12, <2>1 DEF TablesTyped
    <3>2. state' = [t \in Subs |-> state'[t]]
      BY <1>1, <1>11 DEF TablesTyped
    <3> QED BY <3>1, <3>2
  <2>3. earnings' \in Nat
    BY <1>1, <1>8, <1>11 DEF TablesTyped
  <2> QED BY <1>1, <1>11, <1>13, <1>14, <2>2, <2>3 DEF TablesTyped
<1>17. Balanced'
  BY <1>1, <1>11, <1>14 DEF Balanced
<1>18. ASSUME NEW t \in Subs, t # s
       PROVE  PackageOK(t)'
  <2>1. EventsOf(t) \subseteq DOMAIN events
    BY DEF EventsOf
  <2>2. /\ state'[t] = state[t] /\ package'[t] = package[t] /\ now' = now
        /\ EventsOf(t)' = EventsOf(t) /\ PaidTo(t)' = PaidTo(t)
        /\ \A i \in EventsOf(t) : events'[i] = events[i]
    BY <1>11, <1>12, <1>13, <1>14, <1>18, <2>1
  <2> QED BY <2>2, OthersAsBefore
<1>19. PackageOK(s)'
  <2>1. /\ state'[s].status = IF last THEN "COMPLETED" ELSE "ACTIVE"
        /\ state'[s].nextDay = IF last THEN row.nextDay ELSE row.nextDay + 1
        /\ state'[s].capConsumed = row.capConsumed + posted
        /\ state'[s].settled = row.settled + 1 /\ state'[s].from = row.from
    BY <1>2, <1>12
  <2>2. HasRow(s)'
    BY <2>1 DEF HasRow
  <2>3. InTerm(s)'
    <3>1. Day(row.from) \in Nat
      BY <1>4, DayOf
    <3>2. package'[s] # "NONE"
      BY <1>3, <1>13 DEF InTerm
    <3>3. ~last => posted < Headroom(s) /\ DayNumber(s) < GoalDays
      BY <1>5, <1>6, <1>7, <1>8 DEF last
    <3>4. ~last => DayNumber(s)' <= GoalDays /\ Headroom(s)' > 0
      BY <1>4, <1>5, <1>8, <2>1, <3>3 DEF DayNumber, Headroom
    <3> QED BY <1>4, <1>5, <1>6, <2>1, <3>1, <3>2, <3>4 DEF InTerm
  <2>4. EndsTogether(s)'
    BY <1>13, <2>1 DEF EndsTogether
  <2>5. Consumed(s)'
    <3>1. PaidTo(s) \in Nat
      BY <1>1, PaidTyped
    <3>2. Headroom(s) = CapLimit[s] - row.capConsumed
      BY DEF Headroom
    <3>3. row.capConsumed = Price[s] + PaidTo(s)
      BY <1>3 DEF Consumed
    <3>4. Price[s] + (PaidTo(s) + posted) <= CapLimit[s]
      BY <1>4, <1>5, <1>8, <3>1, <3>2, <3>3
    <3>5. row.capConsumed + posted = Price[s] + (PaidTo(s) + posted)
      BY <1>4, <1>5, <1>8, <3>1, <3>3
    <3>6. PaidTo(s)' = PaidTo(s) + posted /\ state'[s].capConsumed = row.capConsumed + posted
      BY <1>14, <2>1
    <3> HIDE DEF row
    <3> QED BY <3>4, <3>5, <3>6 DEF Consumed
  <2>6. DaysInTerm(s)'
    <3> SUFFICES ASSUME NEW i \in EventsOf(s)'
                 PROVE  /\ events'[i].day \in ActivationDay(s) + 1 .. ActivationDay(s) + GoalDays
                        /\ events'[i].day > Day(row.from) /\ events'[i].day <= Day(now)
      BY <1>11, <2>1 DEF DaysInTerm
    <3>1. CASE i = n
      <4>1. events'[i].day = row.nextDay
        BY <1>14, <3>1
      <4> QED BY <1>4, <1>5, <1>6, <1>9, <4>1
    <3>2. CASE i \in EventsOf(s)
      BY <1>3, <1>14, <1>15, <3>2 DEF DaysInTerm
    <3> QED BY <1>14, <3>1, <3>2
  <2>7. DaysPaid(s)'
    <3>1. LastDay(s) = row.nextDay - 1 /\ LastDay(s)' = row.nextDay
      BY <1>2, <1>4, <2>1 DEF LastDay
    <3>2. /\ Cardinality(EventsOf(s)) = row.settled
          /\ {events[i].day : i \in EventsOf(s)}
               = row.nextDay - 1 - row.settled + 1 .. row.nextDay - 1
          /\ \A i, j \in EventsOf(s) : i < j => events[i].day < events[j].day
      BY <1>3, <3>1 DEF DaysPaid
    <3>3. \A i \in EventsOf(s) : events'[i].day = events[i].day /\ i < n
      BY <1>14, <1>15
    <3>4. events'[n].day = row.nextDay
      BY <1>14
    <3> HIDE DEF n, e
    <3>5. {events'[i].day : i \in EventsOf(s) \cup {n}}
            = {events[i].day : i \in EventsOf(s)} \cup {row.nextDay}
      BY <3>3, <3>4
    <3>6. {events'[i].day : i \in EventsOf(s)'}
            = row.nextDay - (row.settled + 1) + 1 .. row.nextDay
      BY <1>4, <1>14, <3>2, <3>5, DaysGrow
    <3>7. \A i \in EventsOf(s) : events[i].day < row.nextDay
      <4> SUFFICES ASSUME NEW i \in EventsOf(s) PROVE events[i].day < row.nextDay
        OBVIOUS
      <4>1. events[i].day \in row.nextDay - 1 - row.settled + 1 .. row.nextDay - 1
        BY <3>2
      <4> QED BY <1>4, <1>15, <4>1
    <3>8. ASSUME NEW i \in EventsOf(s)', NEW j \in EventsOf(s)', i < j
          PROVE  events'[i].day < events'[j].day
      <4>1. n \in Nat
        BY <1>1, EventsTyped DEF n
      <4>2. i \in EventsOf(s)
        BY <1>14, <1>15, <3>3, <3>8, <4>1
      <4>3. CASE j = n
        BY <3>3, <3>4, <3>7, <4>2, <4>3
      <4>4. CASE j \in EventsOf(s)
        BY <3>2, <3>3, <3>8, <4>2, <4>4
      <4> QED BY <1>14, <4>3, <4>4
    <3> QED BY <1>14, <2>1, <3>1, <3>2, <3>6, <3>8 DEF DaysPaid
  <2> QED BY <2>2, <2>3, <2>4, <2>5, <2>6, <2>7 DEF PackageOK
<1> QED BY <1>16, <1>17, <1>18, <1>19 DEF TablesInv

-----------------------------------------------------------------------------
(* The runners.                                                             *)

\* What a batch reads is a list of packages.
LEMMA ListsTyped ==
  ASSUME NEW todo, \/ todo \in Uninitialized
                   \/ \E asOf : todo \in DueRows(asOf)
  PROVE  todo \in Seq(Subs)
<1>1. ASSUME NEW S \in SUBSET Subs
      PROVE  Least(BatchLimit, Cardinality(S)) \in Nat
  <2>1. IsFiniteSet(S)
    BY RewardsAssumption, FS_Subset
  <2>2. Cardinality(S) \in Nat /\ BatchLimit \in Nat
    BY <2>1, FS_CardinalityType, RewardsAssumption
  <2> QED BY <2>2 DEF Least
<1>2. ASSUME NEW k \in Nat, NEW S \in SUBSET Subs, NEW q \in [1 .. k -> S]
      PROVE  q \in Seq(Subs)
  OBVIOUS
<1>3. CASE todo \in Uninitialized
  <2> DEFINE S == {s \in Subs : package[s] = "ACTIVE" /\ ~HasRow(s)}
  <2>1. todo \in [1 .. Least(BatchLimit, Cardinality(S)) -> S]
    BY <1>3 DEF Uninitialized, Firsts
  <2>2. S \in SUBSET Subs
    OBVIOUS
  <2> HIDE DEF S
  <2> QED BY <1>1, <1>2, <2>1, <2>2
<1>4. ASSUME NEW asOf, todo \in DueRows(asOf)
      PROVE  todo \in Seq(Subs)
  <2> DEFINE S == {s \in Subs : Due(s, asOf)}
  <2>1. todo \in [1 .. Least(BatchLimit, Cardinality(S)) -> S]
    BY <1>4 DEF DueRows, Firsts
  <2>2. S \in SUBSET Subs
    OBVIOUS
  <2> HIDE DEF S
  <2> QED BY <1>1, <1>2, <2>1, <2>2
<1> QED BY <1>3, <1>4

\* One runner goes on with a run that has its type.
LEMMA RunChanged ==
  ASSUME RunsTyped, now \in Nat, now' \in Nat, now' >= now, NEW r \in Runners, NEW run \in Run,
         run.asOf <= now', runner' = [runner EXCEPT ![r] = run]
  PROVE  RunsTyped'
<1>1. \A q \in Runners : runner[q].asOf \in Nat /\ runner[q].asOf <= now
  BY DEF RunsTyped, Run
<1>2. \A q \in Runners : runner'[q] = IF q = r THEN run ELSE runner[q]
  BY DEF RunsTyped
<1>3. run.asOf \in Nat
  BY DEF Run
<1>4. \A q \in Runners : runner'[q].asOf <= now'
  BY <1>1, <1>2, <1>3
<1>5. runner' \in [Runners -> Run]
  BY DEF RunsTyped
<1> QED BY <1>4, <1>5 DEF RunsTyped

\* The runs that start, and the runs that go on or end.
LEMMA RunsOf ==
  ASSUME RunsTyped, now \in Nat, NEW r \in Runners
  PROVE  /\ Idle \in Run /\ Idle.asOf <= now
         /\ \A s \in Subs : Reconciling(s) \in Run /\ Reconciling(s).asOf = now
         /\ runner[r] \in Run /\ runner[r].asOf \in Nat /\ runner[r].asOf <= now
         /\ runner[r].todo # <<>> =>
              /\ Head(runner[r].todo) \in Subs
              /\ Tail(runner[r].todo) \in Seq(Subs)
<1>1. \A s \in Subs : <<s>> \in Seq(Subs)
  OBVIOUS
<1>2. <<>> \in Seq(Subs)
  OBVIOUS
<1>3. runner[r] \in Run
  BY DEF RunsTyped
<1>4. runner[r].todo # <<>> => /\ Head(runner[r].todo) \in Subs
                               /\ Tail(runner[r].todo) \in Seq(Subs)
  <2>1. runner[r].todo \in Seq(Subs)
    BY <1>3 DEF Run
  <2> QED BY <2>1, HeadTailProperties
<1>5. Idle \in Run /\ Idle.asOf = 0
  BY <1>2 DEF Idle, Run
<1>6. \A s \in Subs : Reconciling(s) \in Run /\ Reconciling(s).asOf = now
  BY <1>1 DEF Reconciling, Run
<1>7. runner[r].asOf \in Nat /\ runner[r].asOf <= now
  BY <1>3 DEF RunsTyped, Run
<1> QED BY <1>3, <1>4, <1>5, <1>6, <1>7

\* What a step of a runner makes of its own run.
GoesOnWith(r, phase, todo, posted) ==
  runner' = [runner EXCEPT ![r] = [phase |-> phase, asOf |-> runner[r].asOf,
                                   todo |-> todo, posted |-> posted]]

LEMMA GoneOn ==
  ASSUME RunsTyped, now \in Nat, UNCHANGED now, NEW r \in Runners,
         NEW phase \in {"IDLE", "INITIALIZE", "DUE"}, NEW todo \in Seq(Subs),
         NEW posted \in Nat \cup {-1}, GoesOnWith(r, phase, todo, posted)
  PROVE  RunsTyped'
<1> DEFINE run == [phase |-> phase, asOf |-> runner[r].asOf, todo |-> todo, posted |-> posted]
<1>1. runner[r].asOf \in Nat /\ runner[r].asOf <= now
  BY RunsOf
<1>2. run \in Run /\ run.asOf = runner[r].asOf
  BY <1>1 DEF Run
<1>3. runner' = [runner EXCEPT ![r] = run]
  BY DEF GoesOnWith
<1> HIDE DEF run
<1>4. now' \in Nat /\ now' >= now /\ run.asOf <= now'
  BY <1>1, <1>2
<1> QED BY <1>2, <1>3, <1>4, RunChanged

\* A runner moves on to the next package, or posts one more reward.
LEMMA MovedOn ==
  ASSUME RunsTyped, now \in Nat, UNCHANGED now, NEW r \in Runners, runner[r].todo # <<>>,
         \/ runner' = NextPackage(r)
         \/ runner' = [runner EXCEPT ![r].todo = Tail(@)]
         \/ \E k \in Nat : runner' = [runner EXCEPT ![r].posted = k]
  PROVE  RunsTyped'
<1>1. /\ runner[r] \in Run /\ Tail(runner[r].todo) \in Seq(Subs)
      /\ runner \in [Runners -> Run]
  BY RunsOf DEF RunsTyped
<1>2. /\ runner[r].phase \in {"IDLE", "INITIALIZE", "DUE"} /\ runner[r].todo \in Seq(Subs)
      /\ runner[r].posted \in Nat \cup {-1}
  BY <1>1 DEF Run
<1> DEFINE rest == Tail(runner[r].todo)
<1>3. CASE runner' = NextPackage(r)
  <2>1. runner' = [runner EXCEPT ![r].todo = rest, ![r].posted = -1]
    BY <1>3 DEF NextPackage
  <2> HIDE DEF rest
  <2> DEFINE y == runner'[r]
  <2>2. y \in Run /\ rest \in Seq(Subs)
    BY <1>1, <2>1 DEF Run, rest
  <2>3. y.phase = runner[r].phase /\ y.asOf = runner[r].asOf /\ y.todo = rest /\ y.posted = -1
    BY <1>1, <2>1 DEF Run
  <2>4. runner' = [runner EXCEPT ![r] = y]
    BY <1>1, <2>1
  <2> HIDE DEF y
  <2>5. y = [phase |-> y.phase, asOf |-> y.asOf, todo |-> y.todo, posted |-> y.posted]
    BY <2>2 DEF Run
  <2>6. runner' = [runner EXCEPT ![r] = [phase |-> runner[r].phase, asOf |-> runner[r].asOf,
                                         todo |-> rest, posted |-> -1]]
    BY <2>3, <2>4, <2>5
  <2>7. GoesOnWith(r, runner[r].phase, Tail(runner[r].todo), -1)
    BY <2>6 DEF GoesOnWith, rest
  <2> QED BY <1>1, <1>2, <2>7, GoneOn
<1>4. CASE runner' = [runner EXCEPT ![r].todo = Tail(@)]
  <2>1. runner' = [runner EXCEPT ![r].todo = rest]
    BY <1>4
  <2> HIDE DEF rest
  <2>2. runner' = [runner EXCEPT ![r] = [phase |-> runner[r].phase, asOf |-> runner[r].asOf,
                                         todo |-> rest, posted |-> runner[r].posted]]
    BY <1>1, <2>1 DEF Run
  <2>3. GoesOnWith(r, runner[r].phase, Tail(runner[r].todo), runner[r].posted)
    BY <2>2 DEF GoesOnWith, rest
  <2> QED BY <1>1, <1>2, <2>3, GoneOn
<1>5. ASSUME NEW k \in Nat, runner' = [runner EXCEPT ![r].posted = k]
      PROVE  RunsTyped'
  <2>1. GoesOnWith(r, runner[r].phase, runner[r].todo, k)
    BY <1>1, <1>5 DEF GoesOnWith, Run
  <2> QED BY <1>2, <2>1, GoneOn
<1> QED BY <1>3, <1>4, <1>5

-----------------------------------------------------------------------------
(* The steps.                                                               *)

LEMMA RewardTypes == RewardInv => RewardTypeOK
BY DEF RewardInv, TablesInv, TablesTyped, RunsTyped, RewardTypeOK

LEMMA RewardStarts == RewardInit => RewardInv
<1> SUFFICES ASSUME RewardInit PROVE RewardInv
  OBVIOUS
<1> USE DEF RewardInit
<1>1. TablesTyped
  BY DEF TablesTyped
<1>2. Balanced
  <2>1. Amounts = [i \in {} |-> 0] /\ IsFiniteSet({})
    BY FS_EmptySet DEF Amounts
  <2>2. SumFunction(Amounts) = 0
    BY <2>1, TotalZero
  <2> QED BY <2>2 DEF Balanced
<1>3. \A s \in Subs : PackageOK(s)
  BY DEF PackageOK, HasRow, NoRow, EventsOf
<1>4. RunsTyped
  BY DEF RunsTyped, Run, Idle
<1> QED BY <1>1, <1>2, <1>3, <1>4 DEF RewardInv, TablesInv

\* A step of a runner.
LEMMA RunnerKept ==
  ASSUME RewardInv, NEW r \in Runners, RunnerStep(r)
  PROVE  RewardInv'
<1>1. TablesInv /\ TablesTyped /\ RunsTyped /\ now \in Nat
  BY DEF RewardInv, TablesInv, TablesTyped
<1>2. runner[r].asOf \in Nat /\ runner[r].asOf <= now
  BY <1>1, RunsOf
<1>3. runner[r].todo # <<>> => Head(runner[r].todo) \in Subs
  BY <1>1, RunsOf
<1>4. ASSUME UNCHANGED <<now, policies, package, state, events, earnings, crashes>>
      PROVE  TablesInv'
  <2>1. KeepsRows
    BY <1>1, <1>4 DEF KeepsRows, TablesTyped
  <2> QED BY <1>1, <2>1, RowsKept
<1>5. CASE InitializeNext(r)
  <2>1. TablesInv'
    BY <1>1, <1>2, <1>3, <1>5, EnsureKept DEF InitializeNext
  <2>2. RunsTyped'
    BY <1>1, <1>5, MovedOn DEF InitializeNext, Ensure
  <2> QED BY <2>1, <2>2 DEF RewardInv
<1>6. CASE SelectDue(r)
  <2>1. TablesInv'
    BY <1>4, <1>6 DEF SelectDue
  <2>2. PICK todo \in DueRows(runner[r].asOf) :
          runner' = [runner EXCEPT ![r].phase = "DUE", ![r].todo = todo, ![r].posted = -1]
    BY <1>6 DEF SelectDue
  <2>3. todo \in Seq(Subs)
    BY ListsTyped
  <2>4. runner \in [Runners -> Run] /\ runner[r] \in Run
    BY <1>1 DEF RunsTyped
  <2>5. runner' = [runner EXCEPT ![r] = [phase |-> "DUE", asOf |-> runner[r].asOf,
                                         todo |-> todo, posted |-> -1]]
    <3> DEFINE run == [phase |-> "DUE", asOf |-> runner[r].asOf, todo |-> todo, posted |-> -1]
    <3>1. /\ runner'[r] = run /\ DOMAIN runner' = Runners
          /\ runner' = [q \in DOMAIN runner' |-> runner'[q]]
          /\ \A q \in Runners : q # r => runner'[q] = runner[q]
      BY <2>2, <2>4 DEF Run
    <3> HIDE DEF run
    <3>2. [runner EXCEPT ![r] = run]
            = [q \in Runners |-> IF q = r THEN run ELSE runner[q]]
      BY <2>4
    <3>3. runner' = [q \in Runners |-> IF q = r THEN run ELSE runner[q]]
      BY <3>1
    <3> QED BY <3>2, <3>3 DEF run
  <2>6. GoesOnWith(r, "DUE", todo, -1) /\ now' = now
    BY <1>6, <2>5 DEF GoesOnWith, SelectDue
  <2>7. RunsTyped'
    BY <1>1, <2>3, <2>6, GoneOn
  <2> QED BY <2>1, <2>7 DEF RewardInv
<1>7. CASE EnsureDue(r)
  <2>1. TablesInv'
    BY <1>1, <1>2, <1>3, <1>7, EnsureKept DEF EnsureDue
  <2>2. /\ runner[r].todo # <<>> /\ now' = now
        /\ runner' = NextPackage(r) \/ runner' = [runner EXCEPT ![r].posted = 0]
    BY <1>7 DEF EnsureDue, Ensure
  <2>3. RunsTyped'
    BY <1>1, <2>2, MovedOn
  <2> QED BY <2>1, <2>3 DEF RewardInv
<1>8. CASE PostNext(r)
  <2> DEFINE s == Head(runner[r].todo)
             asOf == runner[r].asOf
  <2>1. /\ runner[r].todo # <<>> /\ runner[r].posted >= 0
        /\ ProcessOneDueReward(s, asOf)
        /\ runner' = NextPackage(r) \/ runner' = [runner EXCEPT ![r].posted = @ + 1]
    BY <1>8 DEF PostNext
  <2>2. s \in Subs
    BY <1>3, <2>1
  <2> HIDE DEF s
  <2>3. ASSUME ~Due(s, asOf) PROVE TablesInv'
    <3>1. UNCHANGED <<now, policies, package, state, events, earnings, crashes>>
      BY <2>1, <2>3 DEF ProcessOneDueReward
    <3> QED BY <1>4, <3>1
  <2>4. ASSUME Due(s, asOf) PROVE TablesInv'
    <3>1. DayNumber(s) <= GoalDays /\ Headroom(s) > 0
      <4>1. HasRow(s) /\ state[s].status = "ACTIVE" /\ PackageOK(s)
        BY <1>1, <2>2, <2>4 DEF TablesInv, Due
      <4> QED BY <4>1 DEF PackageOK, InTerm
    <3>2. DayNumber(s) \in Int /\ Headroom(s) \in Int /\ GoalDays \in Int
      <4>1. state[s] \in StateRow
        BY <1>1, <2>2, <2>4, RowTyped DEF Due
      <4> QED BY <2>2, <4>1, PackageTerms DEF StateRow, DayNumber, Headroom
    <3>3. ~(DayNumber(s) > GoalDays \/ Headroom(s) <= 0)
      BY <3>1, <3>2
    <3>4. PostReward(s)
      BY <2>1, <2>4, <3>3 DEF ProcessOneDueReward
    <3> QED BY <1>1, <1>2, <2>2, <2>4, <3>4, RewardKept
  <2>5. TablesInv'
    <3> HIDE DEF asOf
    <3> QED BY <2>3, <2>4
  <2>6. now' = now
    BY <2>1 DEF ProcessOneDueReward, Complete, PostReward
  <2>7. \/ runner' = NextPackage(r)
        \/ \E k \in Nat : runner' = [runner EXCEPT ![r].posted = k]
    <3>1. runner[r].posted + 1 \in Nat
      BY <1>1, <2>1 DEF RunsTyped, Run
    <3> QED BY <2>1, <3>1
  <2>8. RunsTyped'
    BY <1>1, <2>1, <2>6, <2>7, MovedOn
  <2> QED BY <2>5, <2>8 DEF RewardInv
<1>9. CASE FinishRun(r)
  <2>1. TablesInv'
    BY <1>4, <1>9 DEF FinishRun
  <2>2. Idle \in Run /\ Idle.asOf <= now
    BY <1>1, RunsOf
  <2>3. runner' = [runner EXCEPT ![r] = Idle] /\ now' = now
    BY <1>9 DEF FinishRun
  <2>4. now' \in Nat /\ now' >= now /\ Idle.asOf <= now'
    BY <1>1, <2>2, <2>3
  <2>5. RunsTyped'
    BY <1>1, <2>2, <2>3, <2>4, RunChanged
  <2> QED BY <2>1, <2>5 DEF RewardInv
<1> QED BY <1>5, <1>6, <1>7, <1>8, <1>9 DEF RunnerStep

\* Every step.
LEMMA RewardStep == RewardInv /\ [RewardNext]_rewardVars => RewardInv'
<1> SUFFICES ASSUME RewardInv, [RewardNext]_rewardVars PROVE RewardInv'
  OBVIOUS
<1>1. TablesInv /\ TablesTyped /\ RunsTyped /\ now \in Nat /\ crashes \in Nat
  BY DEF RewardInv, TablesInv, TablesTyped
<1>2. ASSUME KeepsRows, UNCHANGED runner
      PROVE  RewardInv'
  <2>1. \A r \in Runners : runner[r].asOf \in Nat /\ runner[r].asOf <= now
    BY <1>1, RunsOf
  <2>2. now' \in Nat /\ now' >= now
    BY <1>2 DEF KeepsRows
  <2>3. RunsTyped'
    BY <1>1, <1>2, <2>1, <2>2 DEF RunsTyped
  <2> QED BY <1>1, <1>2, <2>3, RowsKept DEF RewardInv
<1>3. ASSUME KeepsRows, UNCHANGED now, NEW r \in Runners, NEW run \in Run, run.asOf <= now,
             runner' = [runner EXCEPT ![r] = run]
      PROVE  RewardInv'
  <2>1. now' \in Nat /\ now' >= now /\ run.asOf <= now'
    BY <1>1, <1>3
  <2>2. RunsTyped'
    BY <1>1, <1>3, <2>1, RunChanged
  <2> QED BY <1>1, <1>3, <2>2, RowsKept DEF RewardInv
<1>4. ASSUME NEW window \in Windows, PublishPolicy(window)
      PROVE  RewardInv'
  <2>1. window \in PolicyRange
    BY RewardsAssumption DEF PolicyRange
  <2>2. \A p \in policies : [p EXCEPT !.to = window.from] \in PolicyRange
    BY <1>1, <2>1 DEF TablesTyped, PolicyRange
  <2>3. policies' \subseteq PolicyRange
    BY <1>1, <1>4, <2>1, <2>2 DEF TablesTyped, PublishPolicy
  <2>4. KeepsRows /\ UNCHANGED runner
    BY <1>1, <1>4, <2>3 DEF KeepsRows, TablesTyped, PublishPolicy
  <2> QED BY <1>2, <2>4
<1>5. ASSUME NEW s \in Subs, Activate(s)
      PROVE  RewardInv'
  <2>1. KeepsRows /\ UNCHANGED now
    BY <1>1, <1>5 DEF KeepsRows, TablesTyped, Activate
  <2>2. Reconciling(s) \in Run /\ Reconciling(s).asOf <= now /\ "REQUEST" \in Runners
    <3>1. "REQUEST" \in Runners
      BY DEF Runners
    <3>2. Reconciling(s) \in Run /\ Reconciling(s).asOf = now
      BY <1>1, <3>1, RunsOf
    <3> QED BY <1>1, <3>1, <3>2
  <2>3. UNCHANGED runner \/ runner' = [runner EXCEPT !["REQUEST"] = Reconciling(s)]
    BY <1>5 DEF Activate
  <2>4. CASE UNCHANGED runner
    BY <1>2, <2>1, <2>4
  <2>5. CASE runner' = [runner EXCEPT !["REQUEST"] = Reconciling(s)]
    BY <1>1, <1>3, <2>1, <2>2, <2>5
  <2> QED BY <2>3, <2>4, <2>5
<1>6. ASSUME NEW s \in Subs, CompleteTrading(s)
      PROVE  RewardInv'
  <2>1. KeepsRows /\ UNCHANGED runner
    BY <1>1, <1>6 DEF KeepsRows, TablesTyped, CompleteTrading
  <2> QED BY <1>2, <2>1
<1>7. ASSUME NEW s \in Subs, ReconcileSubscription(s)
      PROVE  RewardInv'
  <2>1. KeepsRows /\ UNCHANGED now
    BY <1>1, <1>7 DEF KeepsRows, TablesTyped, ReconcileSubscription
  <2>2. Reconciling(s) \in Run /\ Reconciling(s).asOf <= now /\ "REQUEST" \in Runners
    <3>1. "REQUEST" \in Runners
      BY DEF Runners
    <3>2. Reconciling(s) \in Run /\ Reconciling(s).asOf = now
      BY <1>1, <3>1, RunsOf
    <3> QED BY <1>1, <3>1, <3>2
  <2>3. runner' = [runner EXCEPT !["REQUEST"] = Reconciling(s)]
    BY <1>7 DEF ReconcileSubscription
  <2> QED BY <1>1, <1>3, <2>1, <2>2, <2>3
<1>8. ASSUME NEW r \in Runners, StartBatch(r)
      PROVE  RewardInv'
  <2>1. KeepsRows /\ UNCHANGED now
    BY <1>1, <1>8 DEF KeepsRows, TablesTyped, StartBatch
  <2>2. PICK todo \in Uninitialized : runner' = [runner EXCEPT ![r] =
          [phase |-> "INITIALIZE", asOf |-> now, todo |-> todo, posted |-> 0]]
    BY <1>8 DEF StartBatch
  <2>3. todo \in Seq(Subs)
    BY ListsTyped
  <2> DEFINE run == [phase |-> "INITIALIZE", asOf |-> now, todo |-> todo, posted |-> 0]
  <2>4. run \in Run /\ run.asOf <= now /\ runner' = [runner EXCEPT ![r] = run]
    BY <1>1, <2>2, <2>3 DEF Run
  <2> HIDE DEF run
  <2> QED BY <1>3, <2>1, <2>4
<1>9. ASSUME NEW r \in Runners, RunnerStep(r)
      PROVE  RewardInv'
  BY <1>9, RunnerKept
<1>10. CASE Crash
  <2>1. KeepsRows /\ now' = now
    BY <1>1, <1>10 DEF KeepsRows, TablesTyped, Crash
  <2>2. Idle \in Run /\ Idle.asOf <= now
    <3>1. "WORKER" \in Runners
      BY DEF Runners
    <3> QED BY <1>1, <3>1, RunsOf
  <2>3. RunsTyped'
    BY <1>10, <2>1, <2>2 DEF RunsTyped, Crash
  <2> QED BY <1>1, <2>1, <2>3, RowsKept DEF RewardInv
<1>11. CASE Tick
  <2>1. KeepsRows /\ UNCHANGED runner
    BY <1>1, <1>11 DEF KeepsRows, TablesTyped, Tick
  <2> QED BY <1>2, <2>1
<1>12. CASE UNCHANGED rewardVars
  <2>1. KeepsRows /\ UNCHANGED runner
    BY <1>1, <1>12 DEF KeepsRows, TablesTyped, rewardVars
  <2> QED BY <1>2, <2>1
<1> QED BY <1>4, <1>5, <1>6, <1>7, <1>8, <1>9, <1>10, <1>11, <1>12 DEF RewardNext

-----------------------------------------------------------------------------
(* The theorems.                                                            *)

\* The invariant holds of every behaviour: rows and runners are typed, wallets
\* hold the sum of the rewards, and each package is paid as its row says
\* (processOneDueReward, ensureState).
THEOREM RewardsAreKept == RewardSpec => []RewardInv
BY RewardStarts, RewardStep, PTL DEF RewardSpec

\* Rows, events and runs have their types.
THEOREM RewardsTyped == RewardSpec => []RewardTypeOK
BY RewardsAreKept, RewardTypes, PTL

\* However the worker and the requests overlap and stop, each day is paid once
\* and in its order, and the wallets hold the sum (the unique key of
\* package_reward_events and the row lock of processOneDueReward).
THEOREM RewardsEachDayOnce == RewardSpec => []EachDayOnce
<1>1. ASSUME RewardInv PROVE EachDayOnce
  <2>1. Balanced /\ \A s \in Subs : HasRow(s) => DaysPaid(s)
    BY <1>1 DEF RewardInv, TablesInv, PackageOK
  <2> QED BY <2>1 DEF EachDayOnce, Balanced, DaysPaid
<1> QED BY <1>1, RewardsAreKept, PTL

\* Rewards and principal never exceed the cap, days lie in the policy and in
\* the term, and the row ends with the package (buildInitialState,
\* processOneDueReward).
THEOREM RewardsWithinCapAndTerm == RewardSpec => []CapAndTermAreKept
<1>1. ASSUME RewardInv PROVE CapAndTermAreKept
  <2>1. \A s \in Subs : HasRow(s) => Consumed(s) /\ DaysInTerm(s) /\ EndsTogether(s)
    BY <1>1 DEF RewardInv, TablesInv, PackageOK
  <2> QED BY <2>1 DEF CapAndTermAreKept, Consumed, DaysInTerm, EndsTogether
<1> QED BY <1>1, RewardsAreKept, PTL

=============================================================================
