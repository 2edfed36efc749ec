---------------------------- MODULE TradingProofs -----------------------------
(***************************************************************************)
(* Proofs about trading, for every set of packages, every calendar, every  *)
(* set of results and every number of days and slots.                      *)
(*                                                                         *)
(* A reconciliation is one step of the specification and, inside, a loop   *)
(* over days with a loop over slots.  Going says what holds of it after    *)
(* each slot and each day; the loops, which are recursive functions, keep  *)
(* it up to the first slot or day at which they would not, and there is    *)
(* none (SmallestNumber).                                                  *)
(***************************************************************************)
EXTENDS Trading, Totals, SequenceTheorems

-----------------------------------------------------------------------------
(* The invariant.                                                           *)

Trades == [result : Int, user : Int, linked : BOOLEAN]
ClaimRows == [status : {"NONE", "PENDING", "CLAIMED"}, gross : Int, user : Int]
Rows ==
  [model : {"V1", "V2"}, status : {"ACTIVE", "COMPLETED"}, next : Days,
   progress : Int, high : Int, credited : Nat, recognized : Nat,
   trades : [Days -> Seq(Trades)], claims : [Days -> ClaimRows]]
Accounts == [expense : Nat, earnings : Nat, profit : Nat]
Events == [result : Int, planned : BOOLEAN]
Passes == [phase : {"IDLE", "BATCH", "RECOVERY"}, asOf : Nat, todo : Seq(Subs)]

\* Days before the next one are settled, days after it are untouched, and the
\* row is completed with the last slot of the final day.
DaysInOrder(s, row) ==
  /\ row.next \in FirstDay(s) .. FinalDay(s)
  /\ \A d \in Days :
       /\ Len(row.trades[d]) <= Slots
       /\ d \in FirstDay(s) .. row.next - 1 => Len(row.trades[d]) = Slots
       /\ d \notin FirstDay(s) .. row.next => row.trades[d] = <<>>
  /\ row.status = "COMPLETED" <=>
       row.next = FinalDay(s) /\ Len(row.trades[row.next]) = Slots

\* The trades of a day come from one generator, and a linked one stands for
\* the canonical trade of its slot.
SourcesMatch(s, row) ==
  \A d \in Days : \A k \in DOMAIN row.trades[d] :
    /\ \A j \in DOMAIN row.trades[d] : row.trades[d][j].linked = row.trades[d][k].linked
    /\ row.trades[d][k].linked =>
         /\ k \in DOMAIN canonical[s][d]
         /\ row.trades[d][k].result = canonical[s][d][k].result
    /\ row.model = "V2" => row.trades[d][k].linked /\ row.trades[d][k].user = 0

\* A V1 package has no claims; a claim of a V2 package is the sum of its day.
ClaimsMatch(s, row) ==
  \A d \in Days :
    LET claim == row.claims[d]
    IN /\ row.model = "V1" => claim.status = "NONE"
       /\ claim.status # "NONE" =>
            /\ Len(row.trades[d]) = Slots
            /\ claim.gross = Total(row.trades[d])
            /\ claim.user \in 1 .. claim.gross
       /\ row.model = "V2" /\ d \in FirstDay(s) .. row.next - 1 => claim.status # "NONE"

SumsMatch(row) == row.credited = CreditedByTrades(row) + ClaimedOf(row)

\* A V1 package has been paid for the days before the next one to the unit;
\* what it settled today is between the targets of yesterday and of today.
EarnedSoFar(s, row) ==
  LET settled == row.credited + row.recognized
      low == GrossFor(NetThrough(s, row.next - 1))
      target == GrossFor(NetThrough(s, row.next))
      done == Len(row.trades[row.next])
  IN /\ row.credited = NetThrough(s, row.next - 1) + UserTotal(row.trades[row.next])
     /\ row.credited = Share(settled)
     /\ settled \in low .. target
     /\ row.progress <= settled
     /\ row.high \in Most(0, row.progress) .. target
     /\ done < Slots => row.progress < target
     /\ done = 0 => settled = low
     /\ done = Slots => settled = target

RowOK(s, row) ==
  /\ row \in Rows
  /\ DaysInOrder(s, row)
  /\ SourcesMatch(s, row)
  /\ ClaimsMatch(s, row)
  /\ SumsMatch(row)
  /\ row.model = "V1" => EarnedSoFar(s, row)

\* What holds of a row that is committed: its next day is open, unless it is
\* completed, and every day it has finished has its claim.
Closed(row) ==
  /\ row.status = "ACTIVE" => Len(row.trades[row.next]) < Slots
  /\ row.model = "V2" /\ Len(row.trades[row.next]) = Slots =>
       row.claims[row.next].status # "NONE"

\* The canonical trades of a day are of slots, of trading days without a gap,
\* and the planned ones are those of the plan.
CanonicalOK(s) ==
  \A d \in Days :
    /\ \E ks \in SUBSET (1 .. Slots) : canonical[s][d] \in [ks -> Events]
    /\ \A k \in DOMAIN canonical[s][d] :
         /\ canonical[s][d][k].planned => canonical[s][d][k].result = Plan[k]
         /\ d \in FirstDay(s) .. FinalDay(s) => 1 .. k \subseteq DOMAIN canonical[s][d]

Outside ==
  /\ model \in [Subs -> Models] /\ enabledDays \in Calendars /\ abroad \in Abroad
  /\ now \in Nat /\ Day(now) \in Days
  /\ generator \in Passes /\ Day(generator.asOf) \in Days

BooksMatch ==
  /\ books \in Accounts
  /\ books.expense = books.earnings + books.profit
  /\ books.earnings = SumFunction(CreditedTo)

TradingInv ==
  /\ Outside
  /\ DOMAIN canonical = Subs /\ \A s \in Subs : DOMAIN canonical[s] = Days /\ CanonicalOK(s)
  /\ trading \in [Subs -> Rows \cup {NotInitialized}]
  /\ \A s \in Subs : Initialized(s) => RowOK(s, trading[s]) /\ Closed(trading[s])
  /\ BooksMatch
-----------------------------------------------------------------------------
(* Amounts.                                                                 *)

LEMMA DivBounds ==
  ASSUME NEW a \in Nat, NEW b \in Nat, b > 0
  PROVE  a \div b \in Nat /\ b * (a \div b) <= a /\ a < b * (a \div b) + b
OBVIOUS

LEMMA DivUnique ==
  ASSUME NEW a \in Nat, NEW b \in Nat, b > 0, NEW q \in Int, b * q <= a, a < b * q + b
  PROVE  a \div b = q
OBVIOUS

LEMMA DivGrows ==
  ASSUME NEW a \in Nat, NEW c \in Nat, NEW b \in Nat, b > 0, a <= c
  PROVE  a \div b <= c \div b
OBVIOUS

LEMMA ShareRate == UserShare \in Nat /\ UserShare > 0 /\ UserShare <= 100
BY TradingAssumption DEF TradingAssumption

\* A share is a part of the gross, and of more gross both parts are no less.
LEMMA ShareParts ==
  ASSUME NEW g \in Nat
  PROVE  Share(g) \in Nat /\ Share(g) <= g
<1>1. UserShare \in Nat /\ UserShare <= 100
  BY ShareRate
<1>2. g * UserShare \in Nat /\ g * UserShare <= 100 * g
  BY <1>1
<1> DEFINE a == 2 * (g * UserShare) + 100
<1>3. a \in Nat /\ a <= 200 * g + 100
  BY <1>2
<1>4. Share(g) = a \div 200
  BY DEF Share, HalfUp
<1>5. a \div 200 \in Nat /\ 200 * (a \div 200) <= a
  BY <1>3, DivBounds
<1> QED BY <1>3, <1>4, <1>5

LEMMA SharesGrow ==
  ASSUME NEW g \in Nat, NEW h \in Nat, g <= h
  PROVE  Share(g) <= Share(h) /\ g - Share(g) <= h - Share(h)
<1>1. UserShare \in Nat /\ UserShare <= 100
  BY ShareRate
<1>2. /\ g * UserShare \in Nat /\ h * UserShare \in Nat
      /\ g * UserShare <= h * UserShare
      /\ h * UserShare - g * UserShare <= 100 * (h - g)
  <2>1. PICK e \in Nat : h = g + e
    OBVIOUS
  <2>2. h * UserShare = g * UserShare + e * UserShare
    BY <1>1, <2>1
  <2>3. e * UserShare \in Nat /\ e * UserShare <= 100 * e
    BY <1>1
  <2> QED BY <1>1, <2>1, <2>2, <2>3
<1> DEFINE a == 2 * (g * UserShare) + 100
           b == 2 * (h * UserShare) + 100
<1>3. a \in Nat /\ b \in Nat /\ a <= b /\ b - a <= 200 * (h - g)
  BY <1>2
<1>4. Share(g) = a \div 200 /\ Share(h) = b \div 200
  BY DEF Share, HalfUp
<1>5. /\ a \div 200 \in Nat /\ 200 * (a \div 200) <= a /\ a < 200 * (a \div 200) + 200
      /\ b \div 200 \in Nat /\ 200 * (b \div 200) <= b /\ b < 200 * (b \div 200) + 200
  BY <1>3, DivBounds
<1> HIDE DEF a, b
<1>6. Share(g) <= Share(h)
  BY <1>3, <1>4, DivGrows
<1>7. 200 * (b \div 200) <= a + 200 * (h - g)
  BY <1>3, <1>5
<1>8. b \div 200 <= (a \div 200) + (h - g)
  <2>1. 200 * (b \div 200) < 200 * (a \div 200) + 200 + 200 * (h - g)
    BY <1>3, <1>5, <1>7
  <2> QED BY <1>5, <2>1
<1> QED BY <1>4, <1>5, <1>6, <1>8

\* The rounded quotient is exact: grossTargetForUserNet needs no second attempt.
LEMMA QuotientIsExact ==
  ASSUME NEW n \in Nat
  PROVE  /\ HalfUp(n * 100, UserShare) \in Nat
         /\ Share(HalfUp(n * 100, UserShare)) = n
<1> DEFINE u == UserShare
           near == HalfUp(n * 100, u)
<1>1. u \in Nat /\ u > 0 /\ u <= 100
  BY ShareRate
<1>2. 2 * (n * 100) + u \in Nat /\ 2 * u \in Nat /\ 2 * u > 0
  BY <1>1
<1>3. near = (2 * (n * 100) + u) \div (2 * u)
  BY DEF HalfUp
<1>4. /\ near \in Nat
      /\ (2 * u) * near <= 2 * (n * 100) + u
      /\ 2 * (n * 100) + u < (2 * u) * near + 2 * u
  BY <1>2, <1>3, DivBounds
<1> HIDE DEF near
<1>5. (2 * u) * near = 2 * (near * u) /\ near * u \in Nat
  BY <1>1, <1>4
<1> DEFINE part == near * u
<1>6. 2 * part <= 200 * n + u /\ 200 * n < 2 * part + u
  BY <1>1, <1>4, <1>5
<1>7. part \in Nat
  BY <1>5
<1> HIDE DEF part
<1>8. 200 * n <= 2 * part + 100 /\ 2 * part + 100 < 200 * n + 200
  <2>1. CASE u < 100
    BY <1>1, <1>6, <1>7, <2>1
  <2>2. CASE u = 100
    <3>1. part = 100 * near
      BY <1>4, <2>2 DEF part
    <3>2. near = n
      BY <1>4, <1>6, <2>2, <3>1
    <3> QED BY <3>1, <3>2
  <2> QED BY <1>1, <2>1, <2>2
<1>9. (2 * part + 100) \div 200 = n
  BY <1>7, <1>8, DivUnique
<1>10. Share(near) = (2 * part + 100) \div 200
  BY DEF Share, HalfUp, part
<1> QED BY <1>4, <1>9, <1>10 DEF near

LEMMA GrossIs ==
  ASSUME NEW n \in Nat
  PROVE  /\ GrossFor(n) = HalfUp(n * 100, UserShare)
         /\ GrossFor(n) \in Nat
         /\ Share(GrossFor(n)) = n
<1> DEFINE near == HalfUp(n * 100, UserShare)
           Apart(g) == IF g > near THEN g - near ELSE near - g
           exact == {g \in Most(0, near - 8) .. near + 8 : Share(g) = n}
<1>1. near \in Nat /\ Share(near) = n
  BY QuotientIsExact
<1> HIDE DEF near
<1>2. near \in exact
  BY <1>1 DEF Most
<1>3. \A g \in exact : g \in Int
  BY <1>1 DEF Most
<1>4. \A h \in exact : Apart(near) <= Apart(h)
  BY <1>1, <1>3
<1> DEFINE chosen == CHOOSE g \in exact : \A h \in exact : Apart(g) <= Apart(h)
<1>5. chosen \in exact /\ \A h \in exact : Apart(chosen) <= Apart(h)
  BY <1>2, <1>4
<1>6. Apart(chosen) <= Apart(near)
  BY <1>2, <1>5
<1>7. chosen = near
  BY <1>1, <1>3, <1>5, <1>6
<1>8. GrossFor(n) = chosen
  BY DEF GrossFor, near
<1> QED BY <1>1, <1>7, <1>8 DEF near

\* More net takes more gross.
LEMMA GrossGrows ==
  ASSUME NEW n \in Nat, NEW m \in Nat, n < m
  PROVE  GrossFor(n) < GrossFor(m)
<1>1. GrossFor(n) \in Nat /\ GrossFor(m) \in Nat
      /\ Share(GrossFor(n)) = n /\ Share(GrossFor(m)) = m
  BY GrossIs
<1>2. GrossFor(m) <= GrossFor(n) => Share(GrossFor(m)) <= Share(GrossFor(n))
  BY <1>1, SharesGrow
<1> QED BY <1>1, <1>2
-----------------------------------------------------------------------------
(* Days, slots and sums.                                                    *)

LEMMA Calendar ==
  /\ Goal \in Nat /\ Goal > 0 /\ DayLength \in Nat /\ DayLength > 0 /\ MaxTime \in Nat
  /\ Slots \in Nat /\ Slots >= 1 /\ DOMAIN SlotAt = 1 .. Slots
  /\ \A k \in 1 .. Slots : SlotAt[k] \in 0 .. DayLength - 1
  /\ \A s \in Subs :
       /\ ActivatedAt[s] \in Nat /\ ActivationDay(s) \in Nat
       /\ FirstDay(s) = ActivationDay(s) + 1 /\ FinalDay(s) = ActivationDay(s) + Goal
       /\ FirstDay(s) \in Nat /\ FinalDay(s) \in Nat
<1>1. /\ Goal \in Nat /\ Goal > 0 /\ DayLength \in Nat /\ DayLength > 0 /\ MaxTime \in Nat
      /\ SlotAt \in Seq(0 .. DayLength - 1) /\ Slots >= 1 /\ ActivatedAt \in [Subs -> Nat]
  BY TradingAssumption DEF TradingAssumption
<1>2. Slots \in Nat /\ DOMAIN SlotAt = 1 .. Slots
  BY <1>1 DEF Slots
<1>3. \A k \in 1 .. Slots : SlotAt[k] \in 0 .. DayLength - 1
  BY <1>1, <1>2, ElementOfSeq DEF Slots
<1>4. ASSUME NEW s \in Subs PROVE ActivatedAt[s] \in Nat /\ ActivationDay(s) \in Nat
  <2>1. ActivatedAt[s] \in Nat
    BY <1>1
  <2> QED BY <1>1, <2>1, DivBounds DEF ActivationDay, Day
<1> QED BY <1>1, <1>2, <1>3, <1>4 DEF FirstDay, FinalDay

LEMMA DaysAre ==
  \E top \in Nat : /\ Days = 0 .. top /\ Day(MaxTime) <= top
                   /\ \A s \in Subs : FinalDay(s) <= top
<1> DEFINE finals == {FinalDay(s) : s \in Subs}
           S == finals \cup {Day(MaxTime)}
<1>1. IsFiniteSet(S)
  <2>1. IsFiniteSet(Subs)
    BY TradingAssumption DEF TradingAssumption
  <2> DEFINE f == [s \in Subs |-> FinalDay(s)]
  <2>2. IsFiniteSet({f[s] : s \in Subs})
    <3>1. DOMAIN f = Subs /\ f = [s \in Subs |-> f[s]]
      OBVIOUS
    <3> HIDE DEF f
    <3> QED BY <2>1, <3>1, ImageFinite
  <2>3. finals = {f[s] : s \in Subs}
    OBVIOUS
  <2> QED BY <2>2, <2>3, FS_AddElement
<1>2. S # {} /\ S \subseteq Nat /\ S \subseteq Int
  BY Calendar, DivBounds DEF Day
<1> HIDE DEF S
<1>3. Max(S) \in S /\ \A y \in S : y <= Max(S)
  BY <1>1, <1>2, MaxOf
<1>4. Max(S) \in Nat /\ Days = 0 .. Max(S)
  BY <1>2, <1>3 DEF Days, S
<1>5. Day(MaxTime) \in S /\ \A s \in Subs : FinalDay(s) \in S
  BY DEF S
<1> QED BY <1>3, <1>4, <1>5

LEMMA DaysFinite ==
  /\ IsFiniteSet(Days) /\ Days \subseteq Nat
  /\ \A s \in Subs : FirstDay(s) .. FinalDay(s) \subseteq Days /\ ActivationDay(s) \in Days
<1>1. PICK top \in Nat : /\ Days = 0 .. top /\ \A s \in Subs : FinalDay(s) <= top
  BY DaysAre
<1>2. IsFiniteSet(0 .. top)
  BY FS_Interval
<1> QED BY <1>1, <1>2, Calendar

\* Subscriptions end on a day of the model, and so does the clock.
LEMMA DayOf ==
  ASSUME NEW t \in Nat, t <= MaxTime
  PROVE  Day(t) \in Days
<1>1. PICK top \in Nat : Days = 0 .. top /\ Day(MaxTime) <= top
  BY DaysAre
<1>2. Day(t) \in Nat /\ Day(MaxTime) \in Nat /\ Day(t) <= Day(MaxTime)
  BY Calendar, DivBounds, DivGrows DEF Day
<1> QED BY <1>1, <1>2

\* A sum over one trade more.
LEMMA OneTradeMore ==
  ASSUME NEW q \in Seq(Trades), NEW t \in Trades
  PROVE  /\ Total(Append(q, t)) = Total(q) + t.result
         /\ UserTotal(Append(q, t)) = UserTotal(q) + t.user
         /\ Total(q) \in Int /\ UserTotal(q) \in Int
<1> DEFINE n == Len(q)
           r == Append(q, t)
<1>1. /\ n \in Nat /\ DOMAIN q = 1 .. n /\ DOMAIN r = 1 .. n + 1
      /\ \A k \in 1 .. n : q[k] \in Trades /\ r[k] = q[k]
      /\ r[n + 1] = t
  BY ElementOfSeq, AppendProperties
<1>2. IsFiniteSet(1 .. n) /\ n + 1 \notin 1 .. n /\ 1 .. n + 1 = (1 .. n) \cup {n + 1}
  <2>1. n \in Nat
    BY <1>1
  <2> HIDE DEF n
  <2>2. IsFiniteSet(1 .. n)
    BY <2>1, FS_Interval
  <2> QED BY <2>1, <2>2
<1>3. ASSUME NEW f \in [1 .. n -> Int], NEW g \in [1 .. n + 1 -> Int],
             \A k \in 1 .. n : g[k] = f[k]
      PROVE  SumFunction(f) \in Int /\ SumFunction(g) = SumFunction(f) + g[n + 1]
  <2>1. DOMAIN f = 1 .. n /\ DOMAIN g = 1 .. n + 1
    BY <1>3
  <2>2. SumFunction(f) = SumFunctionOnSet(f, 1 .. n)
        /\ SumFunction(g) = SumFunctionOnSet(g, 1 .. n + 1)
    BY <2>1 DEF SumFunction
  <2>3. \A k \in (1 .. n) \cup {n + 1} : g[k] \in Int
    BY <1>2, <1>3
  <2>4. SumFunctionOnSet(g, (1 .. n) \cup {n + 1}) = g[n + 1] + SumFunctionOnSet(g, 1 .. n)
    BY <1>2, <2>3, SumAdd
  <2>5. SumFunctionOnSet(f, 1 .. n) = SumFunctionOnSet(g, 1 .. n)
    BY <1>2, <1>3, SumSame
  <2>6. SumFunction(f) \in Int
    BY <1>2, <1>3, TotalInt
  <2>7. g[n + 1] \in Int
    BY <1>2, <2>3
  <2>8. SumFunction(g) = g[n + 1] + SumFunction(f)
    BY <1>2, <2>2, <2>4, <2>5
  <2> HIDE DEF n
  <2> QED BY <2>6, <2>7, <2>8
<1>4. /\ t.result \in Int /\ t.user \in Int
      /\ \A k \in 1 .. n : q[k].result \in Int /\ q[k].user \in Int
  BY <1>1 DEF Trades
<1> HIDE DEF n, r
<1>5. Total(r) = Total(q) + t.result /\ Total(q) \in Int
  <2> DEFINE f == [k \in DOMAIN q |-> q[k].result]
             g == [k \in DOMAIN r |-> r[k].result]
  <2>1. f \in [1 .. n -> Int] /\ g \in [1 .. n + 1 -> Int]
        /\ (\A k \in 1 .. n : g[k] = f[k]) /\ g[n + 1] = t.result
    BY <1>1, <1>2, <1>4
  <2> HIDE DEF f, g
  <2>2. SumFunction(f) \in Int /\ SumFunction(g) = SumFunction(f) + g[n + 1]
    BY <1>3, <2>1
  <2> QED BY <2>1, <2>2 DEF Total, f, g
<1>6. UserTotal(r) = UserTotal(q) + t.user /\ UserTotal(q) \in Int
  <2> DEFINE f == [k \in DOMAIN q |-> q[k].user]
             g == [k \in DOMAIN r |-> r[k].user]
  <2>1. f \in [1 .. n -> Int] /\ g \in [1 .. n + 1 -> Int]
        /\ (\A k \in 1 .. n : g[k] = f[k]) /\ g[n + 1] = t.user
    BY <1>1, <1>2, <1>4
  <2> HIDE DEF f, g
  <2>2. SumFunction(f) \in Int /\ SumFunction(g) = SumFunction(f) + g[n + 1]
    BY <1>3, <2>1
  <2> QED BY <2>1, <2>2 DEF UserTotal, f, g
<1> QED BY <1>5, <1>6 DEF r

LEMMA NoTradeAtAll == Total(<<>>) = 0 /\ UserTotal(<<>>) = 0
<1> DEFINE f == [k \in {} |-> 0]
<1>1. SumFunction(f) = 0
  BY FS_EmptySet, TotalZero
<1>2. [k \in DOMAIN <<>> |-> <<>>[k].result] = f /\ [k \in DOMAIN <<>> |-> <<>>[k].user] = f
  OBVIOUS
<1> QED BY <1>1, <1>2 DEF Total, UserTotal
-----------------------------------------------------------------------------
(* The net amounts of the days so far.                                      *)

\* sum adds up the net amounts from the activation to day d.
IsNet(sum, s, d) ==
  sum = [x \in ActivationDay(s) .. d |->
           IF x = ActivationDay(s) THEN 0 ELSE sum[x - 1] + DailyNet[x]]

LEMMA NetExists ==
  ASSUME NEW s \in Subs, NEW m \in Nat
  PROVE  \E sum : IsNet(sum, s, ActivationDay(s) + m)
<1> DEFINE a == ActivationDay(s)
           Bad == {j \in 0 .. m : ~ \E sum : IsNet(sum, s, a + j)}
<1>1. SUFFICES ASSUME Bad # {} PROVE FALSE
  <2>1. m \in 0 .. m
    OBVIOUS
  <2> QED BY <2>1
<1>2. PICK j \in Bad : \A i \in 0 .. (j - 1) : i \notin Bad
  <2> HIDE DEF Bad
  <2>1. Bad \in SUBSET (0 .. m)
    BY DEF Bad
  <2> QED BY <1>1, <2>1, SmallestNumber
<1>3. j \in 0 .. m /\ a \in Nat /\ ~ \E sum : IsNet(sum, s, a + j)
  BY Calendar
<1>4. CASE j = 0
  <2> DEFINE sum == [x \in a .. a |-> 0]
  <2>1. sum = [x \in a .. a |-> IF x = a THEN 0 ELSE sum[x - 1] + DailyNet[x]]
    BY <1>3
  <2> HIDE DEF sum
  <2>2. IsNet(sum, s, a + j)
    BY <1>3, <1>4, <2>1 DEF IsNet
  <2> QED BY <1>3, <2>2
<1>5. CASE j # 0
  <2>1. j - 1 \in 0 .. (j - 1) /\ j - 1 \in 0 .. m
    BY <1>3, <1>5
  <2>2. PICK low : IsNet(low, s, a + (j - 1))
    BY <1>2, <2>1
  <2> DEFINE sum == [x \in a .. a + j |-> IF x = a THEN 0 ELSE low[x - 1] + DailyNet[x]]
  <2>3. ASSUME NEW x \in a .. a + (j - 1) PROVE sum[x] = low[x]
    BY <1>3, <2>2 DEF IsNet
  <2>4. \A x \in a .. a + j : x # a => sum[x - 1] = low[x - 1]
    <3>1. \A x \in a .. a + j : x # a => x - 1 \in a .. a + (j - 1)
      BY <1>3
    <3> QED BY <2>3, <3>1
  <2>5. sum = [x \in a .. a + j |-> IF x = a THEN 0 ELSE sum[x - 1] + DailyNet[x]]
    BY <2>4
  <2> HIDE DEF sum
  <2>6. IsNet(sum, s, a + j)
    BY <2>5 DEF IsNet
  <2> QED BY <1>3, <2>6
<1> QED BY <1>4, <1>5

\* Sums to two days agree as far as the earlier one goes.
LEMMA NetsAgree ==
  ASSUME NEW s \in Subs, NEW m \in Nat, NEW n \in Nat, m <= n,
         NEW f, NEW g, IsNet(f, s, ActivationDay(s) + m), IsNet(g, s, ActivationDay(s) + n)
  PROVE  f[ActivationDay(s) + m] = g[ActivationDay(s) + m]
<1> DEFINE a == ActivationDay(s)
           Bad == {j \in 0 .. m : f[a + j] # g[a + j]}
<1>1. SUFFICES ASSUME Bad # {} PROVE FALSE
  <2>1. m \in 0 .. m
    OBVIOUS
  <2> QED BY <2>1
<1>2. PICK j \in Bad : \A i \in 0 .. (j - 1) : i \notin Bad
  <2> HIDE DEF Bad
  <2>1. Bad \in SUBSET (0 .. m)
    BY DEF Bad
  <2> QED BY <1>1, <2>1, SmallestNumber
<1>3. j \in 0 .. m /\ a \in Nat /\ f[a + j] # g[a + j]
  BY Calendar
<1> DEFINE x == a + j
<1>4. x \in a .. a + m /\ x \in a .. a + n
  BY <1>3
<1>5. /\ f[x] = IF x = a THEN 0 ELSE f[x - 1] + DailyNet[x]
      /\ g[x] = IF x = a THEN 0 ELSE g[x - 1] + DailyNet[x]
  BY <1>4 DEF IsNet
<1>6. CASE j = 0
  BY <1>3, <1>5, <1>6
<1>7. CASE j # 0
  <2>1. j - 1 \in 0 .. (j - 1) /\ j - 1 \in 0 .. m /\ x - 1 = a + (j - 1) /\ x # a
    BY <1>3, <1>7
  <2>2. f[a + (j - 1)] = g[a + (j - 1)]
    BY <1>2, <2>1
  <2> QED BY <1>3, <1>5, <2>1, <2>2
<1> QED BY <1>6, <1>7

LEMMA NetStarts ==
  ASSUME NEW s \in Subs
  PROVE  NetThrough(s, ActivationDay(s)) = 0
<1> DEFINE a == ActivationDay(s)
           f == CHOOSE sum : IsNet(sum, s, a)
<1>1. NetThrough(s, a) = f[a]
  BY DEF NetThrough, IsNet
<1>2. a \in Nat /\ a + 0 = a
  BY Calendar
<1>3. IsNet(f, s, a)
  BY <1>2, NetExists
<1> HIDE DEF f
<1>4. f[a] = 0
  BY <1>2, <1>3 DEF IsNet
<1> QED BY <1>1, <1>4

LEMMA NetSteps ==
  ASSUME NEW s \in Subs, NEW d \in FirstDay(s) .. FinalDay(s)
  PROVE  /\ NetThrough(s, d) = NetThrough(s, d - 1) + DailyNet[d]
         /\ DailyNet[d] \in Nat /\ DailyNet[d] > 0
<1> DEFINE a == ActivationDay(s)
           n == d - a
           f == CHOOSE sum : IsNet(sum, s, d)
           g == CHOOSE sum : IsNet(sum, s, d - 1)
<1>1. NetThrough(s, d) = f[d] /\ NetThrough(s, d - 1) = g[d - 1]
  BY DEF NetThrough, IsNet
<1>2. n \in Nat /\ n - 1 \in Nat /\ n - 1 <= n /\ a \in Nat /\ d = a + n /\ d - 1 = a + (n - 1)
      /\ d \in a .. d /\ d # a
  <2>1. a \in Nat /\ FirstDay(s) = a + 1 /\ FinalDay(s) \in Nat
    BY Calendar
  <2> HIDE DEF a
  <2>2. d \in Nat /\ d >= a + 1
    BY <2>1
  <2> QED BY <2>1, <2>2
<1>3. IsNet(f, s, d) /\ IsNet(g, s, d - 1)
  <2>1. \E sum : IsNet(sum, s, d)
    BY <1>2, NetExists
  <2>2. \E sum : IsNet(sum, s, d - 1)
    BY <1>2, NetExists
  <2> QED BY <2>1, <2>2
<1> HIDE DEF f, g, n
<1>4. f[d] = f[d - 1] + DailyNet[d]
  BY <1>2, <1>3 DEF IsNet
<1>5. g[d - 1] = f[d - 1]
  BY <1>2, <1>3, NetsAgree
<1>6. DailyNet[d] \in Nat /\ DailyNet[d] > 0
  <2>1. d \in Days
    BY DaysFinite
  <2> QED BY <2>1, TradingAssumption DEF TradingAssumption
<1> QED BY <1>1, <1>4, <1>5, <1>6

\* Nets and targets are natural, and those of a day that comes are no less.
LEMMA NetsGrow ==
  ASSUME NEW s \in Subs, NEW d \in ActivationDay(s) .. FinalDay(s),
         NEW e \in d .. FinalDay(s)
  PROVE  /\ NetThrough(s, d) \in Nat /\ NetThrough(s, e) \in Nat
         /\ NetThrough(s, d) <= NetThrough(s, e)
         /\ d < e => NetThrough(s, d) < NetThrough(s, e)
<1> DEFINE a == ActivationDay(s)
           last == FinalDay(s)
           Fine(x) == /\ NetThrough(s, x) \in Nat
                      /\ \A y \in a .. x : /\ NetThrough(s, y) \in Nat
                                           /\ y < x => NetThrough(s, y) < NetThrough(s, x)
           Bad == {j \in 0 .. last - a : ~ Fine(a + j)}
<1>1. a \in Nat /\ last \in Nat /\ a <= last /\ FirstDay(s) = a + 1 /\ last - a \in Nat
  BY Calendar
<1>2. Bad = {}
  <2> SUFFICES ASSUME Bad # {} PROVE FALSE
    OBVIOUS
  <2>1. PICK j \in Bad : \A i \in 0 .. (j - 1) : i \notin Bad
    <3> HIDE DEF Bad
    <3>1. Bad \in SUBSET (0 .. last - a)
      BY DEF Bad
    <3> QED BY <1>1, <3>1, SmallestNumber
  <2>2. j \in 0 .. last - a /\ ~ Fine(a + j)
    OBVIOUS
  <2>3. CASE j = 0
    <3>1. NetThrough(s, a + j) = 0
      BY <1>1, <2>3, NetStarts
    <3>2. \A y \in a .. a + j : y = a + j
      BY <1>1, <2>3
    <3>3. Fine(a + j)
      BY <1>1, <2>2, <3>1, <3>2
    <3> QED BY <2>2, <3>3
  <2>4. CASE j # 0
    <3> DEFINE x == a + j
    <3>1. /\ j - 1 \in 0 .. (j - 1) /\ j - 1 \in 0 .. last - a
          /\ x \in FirstDay(s) .. FinalDay(s) /\ x - 1 = a + (j - 1) /\ x \in Nat
      BY <1>1, <2>2, <2>4
    <3>2. Fine(x - 1)
      BY <2>1, <3>1
    <3>3. /\ NetThrough(s, x) = NetThrough(s, x - 1) + DailyNet[x]
          /\ DailyNet[x] \in Nat /\ DailyNet[x] > 0
      BY <3>1, NetSteps
    <3>4. NetThrough(s, x) \in Nat /\ NetThrough(s, x - 1) < NetThrough(s, x)
      BY <3>2, <3>3
    <3>5. ASSUME NEW y \in a .. x
          PROVE  /\ NetThrough(s, y) \in Nat
                 /\ y < x => NetThrough(s, y) < NetThrough(s, x)
      <4>1. CASE y = x
        BY <3>4, <4>1
      <4>2. CASE y # x
        <5>1. y \in a .. x - 1 /\ y < x /\ y <= x - 1
          BY <1>1, <3>1, <4>2
        <5>2. NetThrough(s, y) \in Nat /\ (y < x - 1 => NetThrough(s, y) < NetThrough(s, x - 1))
          BY <3>2, <5>1
        <5>3. NetThrough(s, y) <= NetThrough(s, x - 1)
          BY <1>1, <3>1, <3>2, <5>1, <5>2
        <5> QED BY <3>2, <3>4, <5>1, <5>2, <5>3
      <4> QED BY <4>1, <4>2
    <3>6. Fine(x)
      BY <3>4, <3>5
    <3> QED BY <2>2, <3>6
  <2> QED BY <2>3, <2>4
<1>3. /\ e - a \in 0 .. last - a /\ e = a + (e - a) /\ d \in a .. e /\ d <= e
  BY <1>1
<1>4. Fine(e)
  BY <1>2, <1>3
<1>5. NetThrough(s, d) \in Nat /\ NetThrough(s, e) \in Nat
      /\ (d < e => NetThrough(s, d) < NetThrough(s, e))
  BY <1>3, <1>4
<1>6. d < e \/ d = e
  BY <1>1, <1>3
<1> QED BY <1>5, <1>6

\* The targets of two days.
LEMMA TargetsGrow ==
  ASSUME NEW s \in Subs, NEW d \in ActivationDay(s) .. FinalDay(s),
         NEW e \in d .. FinalDay(s)
  PROVE  LET low == GrossFor(NetThrough(s, d))
             high == GrossFor(NetThrough(s, e))
         IN /\ low \in Nat /\ high \in Nat /\ low <= high
            /\ d < e => low < high
            /\ Share(low) = NetThrough(s, d) /\ Share(high) = NetThrough(s, e)
<1> DEFINE n == NetThrough(s, d)
           m == NetThrough(s, e)
<1>1. n \in Nat /\ m \in Nat /\ n <= m /\ (d < e => n < m)
  BY NetsGrow
<1> HIDE DEF n, m
<1>2. /\ GrossFor(n) \in Nat /\ Share(GrossFor(n)) = n
      /\ GrossFor(m) \in Nat /\ Share(GrossFor(m)) = m
  BY <1>1, GrossIs
<1>3. n < m => GrossFor(n) < GrossFor(m)
  BY <1>1, GrossGrows
<1>4. n < m \/ n = m
  BY <1>1
<1>5. GrossFor(n) <= GrossFor(m)
  BY <1>2, <1>3, <1>4
<1> QED BY <1>1, <1>2, <1>3, <1>5 DEF n, m
-----------------------------------------------------------------------------
(* Settlement of one slot.                                                  *)

Transactions == [row : Rows, books : Accounts, go : BOOLEAN, refused : BOOLEAN]

\* The trades of one day more, and nothing else.
Appended(row, d, trade) == [row.trades EXCEPT ![d] = Append(@, trade)]

\* What a settlement does to the fields.
SettledRow(p, s, d, target, progress, trade, q) ==
  LET row == p.row
      settled == row.credited + row.recognized
      total == settled + Least(Most(0, progress - row.progress), Most(0, target - settled))
      user == Share(total) - row.credited
      admin == (total - Share(total)) - row.recognized
  IN /\ q.row.model = row.model /\ q.row.next = row.next /\ q.row.claims = row.claims
     /\ q.row.progress = progress /\ q.row.high = Most(row.high, progress)
     /\ q.row.credited = row.credited + user /\ q.row.recognized = row.recognized + admin
     /\ q.row.trades = Appended(row, d, [trade EXCEPT !.user = user])
     /\ q.row.status = IF d = FinalDay(s) /\ Len(row.trades[d]) + 1 = Slots /\ progress = target
                         THEN "COMPLETED" ELSE row.status
     /\ q.books.expense = p.books.expense + user + admin
     /\ q.books.earnings = p.books.earnings + user
     /\ q.books.profit = p.books.profit + admin
     /\ q.go = p.go /\ q.refused = p.refused

LEMMA SettleFields ==
  ASSUME NEW p \in Transactions, NEW s, NEW d \in Days, NEW target, NEW progress, NEW trade
  PROVE  SettledRow(p, s, d, target, progress, trade, Settle(p, s, d, target, progress, trade))
<1> DEFINE row == p.row
           settled == row.credited + row.recognized
           total == settled + Least(Most(0, progress - row.progress), Most(0, target - settled))
           user == Share(total) - row.credited
           admin == (total - Share(total)) - row.recognized
           completing == d = FinalDay(s) /\ Len(row.trades[d]) + 1 = Slots /\ progress = target
           new == [row EXCEPT
                    !.progress = progress, !.high = Most(@, progress),
                    !.credited = @ + user, !.recognized = @ + admin,
                    !.trades[d] = Append(@, [trade EXCEPT !.user = user]),
                    !.status = IF completing THEN "COMPLETED" ELSE @]
           q == [p EXCEPT !.row = new, !.books = PostSettlement(@, user, admin)]
<1>1. Settle(p, s, d, target, progress, trade) = q
  BY DEF Settle
<1> HIDE DEF settled, total, user, admin, completing
<1>2. row \in Rows
  BY DEF Transactions
<1>3. /\ new.model = row.model /\ new.next = row.next /\ new.claims = row.claims
      /\ new.progress = progress /\ new.high = Most(row.high, progress)
      /\ new.credited = row.credited + user /\ new.recognized = row.recognized + admin
      /\ new.trades = Appended(row, d, [trade EXCEPT !.user = user])
      /\ new.status = IF completing THEN "COMPLETED" ELSE row.status
  <2> HIDE DEF row
  <2> QED BY <1>2 DEF Rows, Appended
<1> HIDE DEF new
<1>4. q.row = new /\ q.books = PostSettlement(p.books, user, admin)
      /\ q.go = p.go /\ q.refused = p.refused
  BY DEF Transactions
<1> HIDE DEF q
<1>5. /\ q.books.expense = p.books.expense + user + admin
      /\ q.books.earnings = p.books.earnings + user
      /\ q.books.profit = p.books.profit + admin
  BY <1>4 DEF PostSettlement
<1> QED BY <1>1, <1>3, <1>4, <1>5 DEF SettledRow, settled, total, user, admin, completing

\* A transaction is typed when its fields are.
LEMMA SettleTyped ==
  ASSUME NEW p \in Transactions, NEW s, NEW d \in Days, NEW target \in Int, NEW progress \in Int,
         NEW trade \in Trades,
         LET q == Settle(p, s, d, target, progress, trade)
         IN /\ q.row.credited \in Nat /\ q.row.recognized \in Nat
            /\ q.books.expense \in Nat /\ q.books.earnings \in Nat /\ q.books.profit \in Nat
  PROVE  Settle(p, s, d, target, progress, trade) \in Transactions
<1> DEFINE row == p.row
           settled == row.credited + row.recognized
           total == settled + Least(Most(0, progress - row.progress), Most(0, target - settled))
           user == Share(total) - row.credited
           admin == (total - Share(total)) - row.recognized
           completing == d = FinalDay(s) /\ Len(row.trades[d]) + 1 = Slots /\ progress = target
           new == [row EXCEPT
                    !.progress = progress, !.high = Most(@, progress),
                    !.credited = @ + user, !.recognized = @ + admin,
                    !.trades[d] = Append(@, [trade EXCEPT !.user = user]),
                    !.status = IF completing THEN "COMPLETED" ELSE @]
           books1 == PostSettlement(p.books, user, admin)
           q == [p EXCEPT !.row = new, !.books = PostSettlement(@, user, admin)]
<1>1. Settle(p, s, d, target, progress, trade) = q
  BY DEF Settle
<1> HIDE DEF settled, total, completing
<1>2. row \in Rows /\ p.books \in Accounts
  BY DEF Transactions
<1>3. new.credited = row.credited + user /\ new.recognized = row.recognized + admin
  <2> HIDE DEF row, user, admin
  <2> QED BY <1>2 DEF Rows
<1>4. q.row = new /\ q.books = books1
  <2> HIDE DEF new, user, admin
  <2> QED BY DEF Transactions
<1>5. /\ row.credited + user \in Nat /\ row.recognized + admin \in Nat
      /\ books1 \in Accounts
  <2>1. q.row.credited \in Nat /\ q.row.recognized \in Nat
        /\ q.books.expense \in Nat /\ q.books.earnings \in Nat /\ q.books.profit \in Nat
    BY <1>1
  <2>2. books1.expense \in Nat /\ books1.earnings \in Nat /\ books1.profit \in Nat
    BY <1>4, <2>1
  <2> HIDE DEF user, admin
  <2>3. books1 \in Accounts
    BY <2>2 DEF PostSettlement, Accounts
  <2> QED BY <1>3, <1>4, <2>1, <2>3
<1>6. user \in Int
  <2>1. row.credited \in Nat /\ row.recognized \in Nat /\ row.progress \in Int
    BY <1>2 DEF Rows
  <2>2. total \in Int
    BY <2>1 DEF total, settled, Least, Most
  <2>3. UserShare \in Nat
    BY ShareRate
  <2>4. Share(total) \in Int
    BY <2>2, <2>3 DEF Share, HalfUp
  <2> QED BY <2>1, <2>4
<1> HIDE DEF user, admin, books1
<1>7. [trade EXCEPT !.user = user] \in Trades
  BY <1>6 DEF Trades
<1> DEFINE trade1 == [trade EXCEPT !.user = user]
<1> HIDE DEF trade1
<1>8. Append(row.trades[d], trade1) \in Seq(Trades)
  <2>1. row.trades[d] \in Seq(Trades)
    BY <1>2 DEF Rows
  <2> QED BY <1>7, <2>1, AppendProperties DEF trade1
<1>9. new \in Rows
  <2> HIDE DEF row
  <2>1. Most(row.high, progress) \in Int
    BY <1>2 DEF Rows, Most
  <2> QED BY <1>2, <1>5, <1>8, <2>1 DEF Rows, trade1
<1> QED BY <1>1, <1>5, <1>9 DEF Transactions, books1
\* The trades after one more.
LEMMA AppendedTrades ==
  ASSUME NEW row \in Rows, NEW d \in Days, NEW trade \in Trades
  PROVE  LET new == Appended(row, d, trade)
         IN /\ new \in [Days -> Seq(Trades)]
            /\ new[d] = Append(row.trades[d], trade)
            /\ \A x \in Days : x # d => new[x] = row.trades[x]
            /\ Len(new[d]) = Len(row.trades[d]) + 1 /\ Len(row.trades[d]) \in Nat
            /\ DOMAIN new[d] = 1 .. Len(row.trades[d]) + 1
            /\ DOMAIN row.trades[d] = 1 .. Len(row.trades[d])
            /\ new[d][Len(row.trades[d]) + 1] = trade
            /\ \A k \in 1 .. Len(row.trades[d]) : new[d][k] = row.trades[d][k]
<1> DEFINE q == row.trades[d]
<1>1. row.trades \in [Days -> Seq(Trades)]
  BY DEF Rows
<1>2. q \in Seq(Trades)
  BY <1>1
<1>3. Append(q, trade) \in Seq(Trades)
  BY <1>2, AppendProperties
<1>4. /\ Appended(row, d, trade) \in [Days -> Seq(Trades)]
      /\ Appended(row, d, trade)[d] = Append(q, trade)
      /\ \A x \in Days : x # d => Appended(row, d, trade)[x] = row.trades[x]
  BY <1>1, <1>3 DEF Appended
<1> HIDE DEF q
<1>5. /\ Len(Append(q, trade)) = Len(q) + 1 /\ Len(q) \in Nat
      /\ DOMAIN Append(q, trade) = 1 .. Len(q) + 1
      /\ DOMAIN q = 1 .. Len(q)
      /\ Append(q, trade)[Len(q) + 1] = trade
      /\ \A k \in 1 .. Len(q) : Append(q, trade)[k] = q[k]
  BY <1>2, AppendProperties
<1> QED BY <1>4, <1>5 DEF q

LEMMA AppendedRow ==
  ASSUME NEW row \in Rows, NEW d \in Days, NEW trade \in Trades, NEW new,
         new.trades = Appended(row, d, trade)
  PROVE  /\ new.trades[d] = Append(row.trades[d], trade)
         /\ \A x \in Days : x # d => new.trades[x] = row.trades[x]
         /\ Len(new.trades[d]) = Len(row.trades[d]) + 1 /\ Len(row.trades[d]) \in Nat
         /\ DOMAIN new.trades[d] = 1 .. Len(row.trades[d]) + 1
         /\ DOMAIN row.trades[d] = 1 .. Len(row.trades[d])
         /\ new.trades[d][Len(row.trades[d]) + 1] = trade
         /\ \A k \in 1 .. Len(row.trades[d]) : new.trades[d][k] = row.trades[d][k]
BY AppendedTrades

\* The credits of a row with one trade more.
LEMMA CreditedMore ==
  ASSUME NEW row \in Rows, NEW new \in Rows, NEW d \in Days, NEW trade \in Trades,
         new.trades = Appended(row, d, trade)
  PROVE  /\ CreditedByTrades(new) = CreditedByTrades(row) + trade.user
         /\ CreditedByTrades(row) \in Int
<1> DEFINE f == [x \in Days |-> UserTotal(row.trades[x])]
           g == [x \in Days |-> UserTotal(new.trades[x])]
<1>1. /\ row.trades \in [Days -> Seq(Trades)] /\ new.trades \in [Days -> Seq(Trades)]
  BY DEF Rows
<1>2. \A x \in Days : UserTotal(row.trades[x]) \in Int /\ UserTotal(new.trades[x]) \in Int
  BY <1>1, OneTradeMore
<1>3. /\ new.trades[d] = Append(row.trades[d], trade)
      /\ \A x \in Days : x # d => new.trades[x] = row.trades[x]
  BY AppendedRow
<1>4. UserTotal(new.trades[d]) = UserTotal(row.trades[d]) + trade.user
  BY <1>1, <1>3, OneTradeMore
<1>5. f \in [Days -> Int] /\ g \in [Days -> Int]
  BY <1>2
<1>6. \A x \in Days \ {d} : g[x] = f[x]
  BY <1>3
<1>7. f[d] = UserTotal(row.trades[d]) /\ g[d] = UserTotal(new.trades[d])
  OBVIOUS
<1>8. CreditedByTrades(row) = SumFunction(f) /\ CreditedByTrades(new) = SumFunction(g)
  BY DEF CreditedByTrades
<1>9. IsFiniteSet(Days)
  BY DaysFinite
<1> HIDE DEF f, g
<1>10. SumFunction(g) = SumFunction(f) + g[d] - f[d]
  BY <1>5, <1>6, <1>9, TotalChange
<1>11. SumFunction(f) \in Int
  BY <1>5, <1>9, TotalInt
<1>12. UserTotal(row.trades[d]) \in Int /\ trade.user \in Int
  BY <1>2 DEF Trades
<1> QED BY <1>4, <1>7, <1>8, <1>10, <1>11, <1>12

\* A trade goes with those of its day, and with its canonical trade.
TradeFits(s, row, trade) ==
  /\ \A k \in DOMAIN row.trades[row.next] : row.trades[row.next][k].linked = trade.linked
  /\ trade.linked =>
       /\ Len(row.trades[row.next]) + 1 \in DOMAIN canonical[s][row.next]
       /\ trade.result = canonical[s][row.next][Len(row.trades[row.next]) + 1].result
  /\ row.model = "V2" => trade.linked /\ trade.user = 0

\* One trade more on the next day: days, sources and claims stay right.
LEMMA OneTradeKeeps ==
  ASSUME NEW s \in Subs, NEW row \in Rows, NEW new \in Rows, NEW trade \in Trades,
         RowOK(s, row), Len(row.trades[row.next]) < Slots,
         new.model = row.model, new.next = row.next, new.claims = row.claims,
         new.trades = Appended(row, row.next, trade),
         new.status = "COMPLETED" <=>
           row.next = FinalDay(s) /\ Len(row.trades[row.next]) + 1 = Slots,
         TradeFits(s, row, trade)
  PROVE  /\ DaysInOrder(s, new) /\ SourcesMatch(s, new) /\ ClaimsMatch(s, new)
         /\ CreditedByTrades(new) = CreditedByTrades(row) + trade.user
         /\ ClaimedOf(new) = ClaimedOf(row)
         /\ CreditedByTrades(row) \in Int /\ ClaimedOf(row) \in Int
<1> DEFINE d == row.next
           n == Len(row.trades[d])
<1>1. d \in Days /\ d \in Nat /\ d \in FirstDay(s) .. FinalDay(s)
  BY DaysFinite DEF Rows, RowOK, DaysInOrder
<1>2. /\ new.trades[d] = Append(row.trades[d], trade)
      /\ \A x \in Days : x # d => new.trades[x] = row.trades[x]
      /\ Len(new.trades[d]) = n + 1 /\ n \in Nat
      /\ DOMAIN new.trades[d] = 1 .. n + 1
      /\ DOMAIN row.trades[d] = 1 .. n
      /\ new.trades[d][n + 1] = trade
      /\ \A k \in 1 .. n : new.trades[d][k] = row.trades[d][k]
  <2> HIDE DEF d
  <2>1. new.trades = Appended(row, d, trade)
    BY DEF d
  <2>2. d \in Days
    BY <1>1
  <2>3. /\ new.trades[d] = Append(row.trades[d], trade)
        /\ \A x \in Days : x # d => new.trades[x] = row.trades[x]
        /\ Len(new.trades[d]) = Len(row.trades[d]) + 1 /\ Len(row.trades[d]) \in Nat
        /\ DOMAIN new.trades[d] = 1 .. Len(row.trades[d]) + 1
        /\ DOMAIN row.trades[d] = 1 .. Len(row.trades[d])
        /\ new.trades[d][Len(row.trades[d]) + 1] = trade
        /\ \A k \in 1 .. Len(row.trades[d]) : new.trades[d][k] = row.trades[d][k]
    BY <2>1, <2>2, AppendedRow
  <2> QED BY <2>3 DEF n
<1>3. Slots \in Nat /\ n < Slots /\ FirstDay(s) \in Nat /\ FinalDay(s) \in Nat
  BY Calendar
<1> HIDE DEF n
<1>4. DaysInOrder(s, new)
  <2>1. DaysInOrder(s, row)
    BY DEF RowOK
  <2>2. ASSUME NEW x \in Days
        PROVE  /\ Len(new.trades[x]) <= Slots
               /\ x \in FirstDay(s) .. d - 1 => Len(new.trades[x]) = Slots
               /\ x \notin FirstDay(s) .. d => new.trades[x] = <<>>
    <3>1. CASE x = d
      BY <1>1, <1>2, <1>3, <3>1
    <3>2. CASE x # d
      BY <1>2, <2>1, <3>2 DEF DaysInOrder
    <3> QED BY <3>1, <3>2
  <2>3. new.status = "COMPLETED" <=> d = FinalDay(s) /\ Len(new.trades[d]) = Slots
    BY <1>2 DEF n
  <2> QED BY <1>1, <2>2, <2>3 DEF DaysInOrder
<1>5. SourcesMatch(s, new)
  <2>1. SourcesMatch(s, row)
    BY DEF RowOK
  <2>2. ASSUME NEW x \in Days, NEW k \in DOMAIN new.trades[x]
        PROVE  /\ \A j \in DOMAIN new.trades[x] : new.trades[x][j].linked = new.trades[x][k].linked
               /\ new.trades[x][k].linked =>
                    /\ k \in DOMAIN canonical[s][x]
                    /\ new.trades[x][k].result = canonical[s][x][k].result
               /\ new.model = "V2" => new.trades[x][k].linked /\ new.trades[x][k].user = 0
    <3>1. CASE x # d
      BY <1>2, <2>1, <3>1 DEF SourcesMatch
    <3>2. CASE x = d
      <4>1. \A j \in 1 .. n + 1 : new.trades[d][j].linked = trade.linked
        <5>1. \A j \in 1 .. n : row.trades[d][j].linked = trade.linked
          BY <1>2 DEF TradeFits
        <5>2. \A j \in 1 .. n + 1 : j = n + 1 \/ j \in 1 .. n
          BY <1>2
        <5> QED BY <1>2, <5>1, <5>2
      <4>2. k \in 1 .. n + 1
        BY <1>2, <3>2
      <4>3. /\ new.trades[d][k].linked => /\ k \in DOMAIN canonical[s][d]
                                           /\ new.trades[d][k].result = canonical[s][d][k].result
            /\ new.model = "V2" => new.trades[d][k].linked /\ new.trades[d][k].user = 0
        <5>1. CASE k = n + 1
          <6>1. new.trades[d][k] = trade
            BY <1>2, <5>1
          <6>2. /\ trade.linked => /\ k \in DOMAIN canonical[s][d]
                                    /\ trade.result = canonical[s][d][k].result
                /\ row.model = "V2" => trade.linked /\ trade.user = 0
            BY <5>1 DEF n, TradeFits
          <6> QED BY <6>1, <6>2
        <5>2. CASE k # n + 1
          <6>1. k \in 1 .. n
            BY <1>2, <4>2, <5>2
          <6>2. new.trades[d][k] = row.trades[d][k] /\ k \in DOMAIN row.trades[d]
            BY <1>2, <6>1
          <6>3. /\ row.trades[d][k].linked =>
                     /\ k \in DOMAIN canonical[s][d]
                     /\ row.trades[d][k].result = canonical[s][d][k].result
                /\ row.model = "V2" => row.trades[d][k].linked /\ row.trades[d][k].user = 0
            BY <1>1, <2>1, <6>2 DEF SourcesMatch
          <6> QED BY <6>2, <6>3
        <5> QED BY <5>1, <5>2
      <4>4. \A j \in DOMAIN new.trades[d] : new.trades[d][j].linked = new.trades[d][k].linked
        <5>1. DOMAIN new.trades[d] = 1 .. n + 1
          BY <1>2
        <5> QED BY <4>1, <4>2, <5>1
      <4> QED BY <3>2, <4>3, <4>4
    <3> QED BY <3>1, <3>2
  <2> QED BY <2>2 DEF SourcesMatch
<1>6. ClaimsMatch(s, new)
  <2>1. ClaimsMatch(s, row)
    BY DEF RowOK
  <2>2. row.claims[d].status = "NONE"
    BY <1>1, <1>3, <2>1 DEF ClaimsMatch, n
  <2>3. ASSUME NEW x \in Days, x # d
        PROVE  /\ new.trades[x] = row.trades[x] /\ new.claims[x] = row.claims[x]
    BY <1>2, <2>3
  <2>4. d \notin FirstDay(s) .. d - 1
    BY <1>1, <1>3
  <2>5. ASSUME NEW x \in Days
        PROVE  LET claim == new.claims[x]
               IN /\ new.model = "V1" => claim.status = "NONE"
                  /\ claim.status # "NONE" =>
                       /\ Len(new.trades[x]) = Slots
                       /\ claim.gross = Total(new.trades[x])
                       /\ claim.user \in 1 .. claim.gross
                  /\ new.model = "V2" /\ x \in FirstDay(s) .. new.next - 1 => claim.status # "NONE"
    <3>1. CASE x = d
      BY <2>2, <2>4, <3>1
    <3>2. CASE x # d
      BY <2>1, <2>3, <3>2 DEF ClaimsMatch
    <3> QED BY <3>1, <3>2
  <2> QED BY <2>5 DEF ClaimsMatch
<1>7. /\ CreditedByTrades(new) = CreditedByTrades(row) + trade.user
      /\ CreditedByTrades(row) \in Int
  <2> HIDE DEF d
  <2>1. new.trades = Appended(row, d, trade)
    BY DEF d
  <2> QED BY <1>1, <2>1, CreditedMore
<1>8. ClaimedOf(new) = ClaimedOf(row) /\ ClaimedOf(row) \in Int
  <2> DEFINE f == [x \in Days |-> IF row.claims[x].status = "CLAIMED"
                                    THEN row.claims[x].user ELSE 0]
  <2>1. f \in [Days -> Int]
    BY DEF Rows, ClaimRows
  <2>2. ClaimedOf(row) = SumFunction(f) /\ ClaimedOf(new) = SumFunction(f)
    BY DEF ClaimedOf
  <2> HIDE DEF f
  <2> QED BY <2>1, <2>2, DaysFinite, TotalInt
<1> QED BY <1>4, <1>5, <1>6, <1>7, <1>8
\* A gain is credited as far as the target leaves room, and split by the share.
LEMMA GainIsSplit ==
  ASSUME NEW settled \in Nat, NEW credited \in Nat, credited = Share(settled),
         NEW before \in Int, before <= settled,
         NEW target \in Nat, settled <= target,
         NEW progress \in Int, progress <= target,
         NEW total, total = settled + Least(Most(0, progress - before), Most(0, target - settled))
  PROVE  /\ total \in settled .. target /\ progress <= total
         /\ progress = target => total = target
         /\ Share(total) \in Nat /\ Share(total) - credited \in Nat
         /\ total - Share(total) \in Nat
         /\ (total - Share(total)) - (settled - credited) \in Nat
<1>1. /\ total \in Nat /\ settled <= total /\ total <= target /\ progress <= total
      /\ progress = target => total = target
  BY DEF Least, Most
<1>2. Share(total) \in Nat /\ Share(total) <= total /\ Share(settled) <= Share(total)
      /\ settled - Share(settled) <= total - Share(total)
  BY <1>1, ShareParts, SharesGrow
<1> QED BY <1>1, <1>2

\* A settlement that may come next: its progress reaches the target with the
\* last slot and not before, and its trade is of the generator of the day.
ComesNext(s, row, target, progress, trade) ==
  LET done == row.trades[row.next]
      slot == Len(done) + 1
  IN /\ RowOK(s, row) /\ row.model = "V1" /\ slot <= Slots
     /\ target = GrossFor(NetThrough(s, row.next)) /\ progress <= target
     /\ slot < Slots => progress < target
     /\ slot = Slots => progress = target
     /\ \A k \in DOMAIN done : done[k].linked = trade.linked
     /\ trade.linked => /\ slot \in DOMAIN canonical[s][row.next]
                        /\ trade.result = canonical[s][row.next][slot].result

\* What a settlement leaves: a right row, with one trade more and what it
\* credits, and the same difference between the balances and the row.
SettledSoundly(s, p, q, trade) ==
  LET user == q.row.credited - p.row.credited
  IN /\ q \in Transactions /\ RowOK(s, q.row)
     /\ q.row.next = p.row.next /\ q.row.model = "V1" /\ q.row.claims = p.row.claims
     /\ user \in Int
     /\ q.row.trades = Appended(p.row, p.row.next, [trade EXCEPT !.user = user])
     /\ q.books.expense - q.books.earnings - q.books.profit =
          p.books.expense - p.books.earnings - p.books.profit
     /\ q.books.earnings - q.row.credited = p.books.earnings - p.row.credited
     /\ q.go = p.go /\ q.refused = p.refused

\* A settlement keeps a V1 row right, whichever generator the trade is from.
LEMMA SettleKeeps ==
  ASSUME NEW p \in Transactions, NEW s \in Subs, NEW target, NEW progress \in Int,
         NEW trade \in Trades, ComesNext(s, p.row, target, progress, trade)
  PROVE  SettledSoundly(s, p, Settle(p, s, p.row.next, target, progress, trade), trade)
<1> DEFINE row == p.row
           d == row.next
           settled == row.credited + row.recognized
           total == settled + Least(Most(0, progress - row.progress), Most(0, target - settled))
           user == Share(total) - row.credited
           admin == (total - Share(total)) - row.recognized
           q == Settle(p, s, d, target, progress, trade)
           trade1 == [trade EXCEPT !.user = user]
           n == Len(row.trades[d])
           low == GrossFor(NetThrough(s, d - 1))
<1>1. /\ row \in Rows /\ row.credited \in Nat /\ row.recognized \in Nat /\ row.progress \in Int
      /\ row.high \in Int /\ d \in Days
      /\ p.books.expense \in Nat /\ p.books.earnings \in Nat /\ p.books.profit \in Nat
  BY DEF Transactions, Rows, Accounts
<1>0. /\ RowOK(s, row) /\ row.model = "V1" /\ n + 1 <= Slots
      /\ target = GrossFor(NetThrough(s, d)) /\ progress <= target
      /\ n + 1 < Slots => progress < target
      /\ n + 1 = Slots => progress = target
      /\ \A k \in DOMAIN row.trades[d] : row.trades[d][k].linked = trade.linked
      /\ trade.linked => /\ n + 1 \in DOMAIN canonical[s][d]
                         /\ trade.result = canonical[s][d][n + 1].result
  BY DEF ComesNext
<1>2. /\ d \in FirstDay(s) .. FinalDay(s) /\ d - 1 \in ActivationDay(s) .. FinalDay(s)
      /\ d \in d - 1 .. FinalDay(s) /\ Slots \in Nat /\ Slots >= 1
  <2>1. d \in FirstDay(s) .. FinalDay(s)
    <3>1. DaysInOrder(s, row)
      BY <1>0 DEF RowOK
    <3> QED BY <3>1 DEF DaysInOrder
  <2> HIDE DEF d
  <2> QED BY <2>1, Calendar
<1>3. EarnedSoFar(s, row)
  BY <1>0 DEF RowOK
<1>4. /\ low \in Nat /\ target \in Nat /\ low <= target /\ low < target
      /\ Share(low) = NetThrough(s, d - 1) /\ Share(target) = NetThrough(s, d)
  BY <1>0, <1>2, TargetsGrow
<1>5. /\ settled \in Nat /\ low <= settled /\ settled <= target /\ row.progress <= settled
      /\ row.credited = Share(settled)
      /\ row.credited = NetThrough(s, d - 1) + UserTotal(row.trades[d])
      /\ row.high \in Most(0, row.progress) .. target
  <2>1. target = GrossFor(NetThrough(s, d))
    BY <1>0
  <2>2. /\ row.credited = NetThrough(s, d - 1) + UserTotal(row.trades[d])
        /\ row.credited = Share(settled)
        /\ settled \in low .. target
        /\ row.progress <= settled
        /\ row.high \in Most(0, row.progress) .. target
    BY <1>3, <2>1 DEF EarnedSoFar
  <2>3. settled \in Nat
    BY <1>1
  <2> HIDE DEF settled, low, row
  <2> QED BY <1>4, <2>2, <2>3
<1>6. SettledRow(p, s, d, target, progress, trade, q)
  BY <1>1, SettleFields
<1>7. /\ q.row.model = row.model /\ q.row.next = d /\ q.row.claims = row.claims
      /\ q.row.progress = progress /\ q.row.high = Most(row.high, progress)
      /\ q.row.credited = row.credited + user /\ q.row.recognized = row.recognized + admin
      /\ q.row.trades = Appended(row, d, trade1)
      /\ q.row.status = IF d = FinalDay(s) /\ n + 1 = Slots /\ progress = target
                          THEN "COMPLETED" ELSE row.status
      /\ q.books.expense = p.books.expense + user + admin
      /\ q.books.earnings = p.books.earnings + user
      /\ q.books.profit = p.books.profit + admin
      /\ q.go = p.go /\ q.refused = p.refused
  BY <1>6 DEF SettledRow
<1>8. /\ total \in settled .. target /\ progress <= total
      /\ progress = target => total = target
      /\ Share(total) \in Nat /\ user \in Nat
      /\ total - Share(total) \in Nat /\ admin \in Nat
  <2>1. row.recognized = settled - row.credited
    BY <1>1
  <2> HIDE DEF settled
  <2>2. total = settled + Least(Most(0, progress - row.progress), Most(0, target - settled))
    OBVIOUS
  <2> HIDE DEF total, row, low
  <2>3. progress <= target
    BY <1>0
  <2>4. /\ total \in settled .. target /\ progress <= total
        /\ progress = target => total = target
        /\ Share(total) \in Nat /\ Share(total) - row.credited \in Nat
        /\ total - Share(total) \in Nat
        /\ (total - Share(total)) - (settled - row.credited) \in Nat
    <3> DEFINE credited == row.credited
               before == row.progress
    <3>1. credited \in Nat /\ before \in Int
      BY <1>1
    <3>2. settled \in Nat /\ target \in Nat /\ credited = Share(settled)
          /\ before <= settled /\ settled <= target
      BY <1>4, <1>5
    <3>3. total = settled + Least(Most(0, progress - before), Most(0, target - settled))
      BY <2>2
    <3> HIDE DEF credited, before
    <3>4. /\ total \in settled .. target /\ progress <= total
          /\ progress = target => total = target
          /\ Share(total) \in Nat /\ Share(total) - credited \in Nat
          /\ total - Share(total) \in Nat
          /\ (total - Share(total)) - (settled - credited) \in Nat
      BY <3>1, <3>2, <3>3, <2>3, GainIsSplit
    <3> QED BY <3>4 DEF credited
  <2> QED BY <2>1, <2>4
<1> HIDE DEF q, total, settled, row, d, n, low
<1>9. /\ q.row.credited = Share(total) /\ q.row.recognized = total - Share(total)
      /\ q.row.credited \in Nat /\ q.row.recognized \in Nat
      /\ q.books.expense \in Nat /\ q.books.earnings \in Nat /\ q.books.profit \in Nat
  BY <1>1, <1>7, <1>8
<1> HIDE DEF user, admin
<1>10. q \in Transactions
  BY <1>1, <1>4, <1>9, SettleTyped DEF q
<1>11. q.row \in Rows
  BY <1>10 DEF Transactions
<1>12. trade1 \in Trades /\ trade1.linked = trade.linked /\ trade1.result = trade.result
       /\ trade1.user = user
  BY <1>8 DEF Trades
<1> HIDE DEF trade1
<1>13. q.row.status = "COMPLETED" <=> d = FinalDay(s) /\ n + 1 = Slots
  <2>1. row.status # "COMPLETED"
    <3>1. n \in Nat
      BY <1>1 DEF Rows, n
    <3> QED BY <1>0, <1>2, <3>1 DEF RowOK, DaysInOrder, d, n
  <2> QED BY <1>0, <1>7, <2>1
<1>14. /\ DaysInOrder(s, q.row) /\ SourcesMatch(s, q.row) /\ ClaimsMatch(s, q.row)
       /\ CreditedByTrades(q.row) = CreditedByTrades(row) + user
       /\ ClaimedOf(q.row) = ClaimedOf(row)
       /\ CreditedByTrades(row) \in Int /\ ClaimedOf(row) \in Int
  <2>1. RowOK(s, row) /\ Len(row.trades[row.next]) < Slots /\ row.model = "V1"
    <3>1. n \in Nat
      BY <1>1 DEF Rows, n
    <3> QED BY <1>0, <1>2, <3>1 DEF d, n
  <2>2. /\ q.row.model = row.model /\ q.row.next = row.next /\ q.row.claims = row.claims
        /\ q.row.trades = Appended(row, row.next, trade1)
    BY <1>7 DEF d
  <2>3. q.row.status = "COMPLETED" <=>
          row.next = FinalDay(s) /\ Len(row.trades[row.next]) + 1 = Slots
    BY <1>13 DEF d, n
  <2>4. \A k \in DOMAIN row.trades[row.next] : row.trades[row.next][k].linked = trade1.linked
    BY <1>0, <1>12 DEF d
  <2>5. trade1.linked =>
           /\ Len(row.trades[row.next]) + 1 \in DOMAIN canonical[s][row.next]
           /\ trade1.result = canonical[s][row.next][Len(row.trades[row.next]) + 1].result
    BY <1>0, <1>12 DEF d, n
  <2>6. TradeFits(s, row, trade1)
    BY <2>1, <2>4, <2>5 DEF TradeFits
  <2> QED BY <1>1, <1>11, <1>12, <2>1, <2>2, <2>3, <2>6, OneTradeKeeps
<1>15. SumsMatch(q.row)
  <2>1. row.credited = CreditedByTrades(row) + ClaimedOf(row)
    BY <1>0 DEF RowOK, SumsMatch
  <2> QED BY <1>1, <1>7, <1>8, <1>14, <2>1 DEF SumsMatch
<1>16. EarnedSoFar(s, q.row)
  <2>1. /\ q.row.trades[d] = Append(row.trades[d], trade1) /\ Len(q.row.trades[d]) = n + 1
        /\ n \in Nat
    BY <1>1, <1>7, <1>12, AppendedRow, SMTT(20) DEF n
  <2>2. UserTotal(q.row.trades[d]) = UserTotal(row.trades[d]) + user
        /\ UserTotal(row.trades[d]) \in Int
    <3>1. row.trades[d] \in Seq(Trades)
      BY <1>1 DEF Rows
    <3> QED BY <1>12, <2>1, <3>1, OneTradeMore
  <2>3. NetThrough(s, d - 1) \in Nat
    BY <1>4, ShareParts
  <2>4. q.row.credited = NetThrough(s, d - 1) + UserTotal(q.row.trades[d])
    BY <1>1, <1>5, <1>7, <1>8, <2>2, <2>3
  <2>5. q.row.credited + q.row.recognized = total /\ total \in Nat
    BY <1>5, <1>8, <1>9
  <2>6. n < Slots /\ (n + 1 < Slots => progress < target) /\ (n + 1 = Slots => progress = target)
        /\ target = GrossFor(NetThrough(s, d)) /\ progress <= target
    BY <1>0, <1>2, <2>1
  <2>7. q.row.high \in Most(0, q.row.progress) .. target
    BY <1>1, <1>4, <1>5, <1>7, <2>6 DEF Most
  <2> DEFINE done == Len(q.row.trades[d])
  <2>8. /\ done < Slots => q.row.progress < target
        /\ done = 0 => total = low
        /\ done = Slots => total = target
    BY <1>7, <1>8, <2>1, <2>6
  <2>9. total \in low .. target /\ q.row.progress <= total /\ q.row.credited = Share(total)
    BY <1>4, <1>5, <1>7, <1>8, <1>9
  <2> QED BY <1>7, <2>4, <2>5, <2>6, <2>7, <2>8, <2>9 DEF EarnedSoFar, low
<1>17. RowOK(s, q.row)
  BY <1>11, <1>14, <1>15, <1>16 DEF RowOK
<1>18. q.row.credited - row.credited = user
  BY <1>1, <1>7, <1>8
<1>19. /\ q.books.expense - q.books.earnings - q.books.profit =
            p.books.expense - p.books.earnings - p.books.profit
       /\ q.books.earnings - q.row.credited = p.books.earnings - row.credited
  BY <1>1, <1>7, <1>8
<1>20. user \in Int /\ row.model = "V1"
  BY <1>0, <1>8
<1> QED BY <1>7, <1>10, <1>17, <1>18, <1>19, <1>20 DEF SettledSoundly, q, row, d, trade1
-----------------------------------------------------------------------------
(* A transaction in progress, compared with the row it began from.          *)

\* What a reconciliation takes for granted about the day it goes on with: it
\* is on the path of the package's model and of the trades the day has.
PathFits(row, by) ==
  /\ by.path \in {"V1", "V2", "LEGACY"}
  /\ by.path = "V2" <=> row.model = "V2"
  /\ \A k \in DOMAIN row.trades[row.next] :
       row.trades[row.next][k].linked = (by.path # "LEGACY")
  /\ by.path = "LEGACY" => by.raws \in [1 .. Slots -> Results]

Begins(q, r) == Len(q) <= Len(r) /\ \A k \in 1 .. Len(q) : r[k] = q[k]

HistoryFrom(s, row) ==
  \A d \in Days :
    /\ Begins(trading[s].trades[d], row.trades[d])
    /\ trading[s].claims[d].status # "NONE" => row.claims[d] = trading[s].claims[d]

MoneyKept(s, p) ==
  /\ p.books.expense = p.books.earnings + p.books.profit
  /\ p.books.earnings - p.row.credited = books.earnings - trading[s].credited

Unplanned(s) ==
  \E d \in FirstDay(s) .. FinalDay(s) : \E k \in DOMAIN canonical[s][d] :
    ~canonical[s][d][k].planned

Going(s, p, by) ==
  /\ p \in Transactions
  /\ RowOK(s, p.row)
  /\ PathFits(p.row, by)
  /\ HistoryFrom(s, p.row)
  /\ MoneyKept(s, p)
  /\ p.refused => ~p.go /\ by.path = "V2" /\ Unplanned(s)

\* After slot k of day d, or where the loop has stopped before.
InDay(s, d, k, p, by) ==
  /\ Going(s, p, by) /\ ~p.refused /\ p.row.next = d
  /\ IF p.go THEN Len(p.row.trades[d]) = k ELSE Len(p.row.trades[d]) < Slots

LEMMA BeginsIsPrefix ==
  ASSUME NEW S, NEW q \in Seq(S), NEW r \in Seq(S), Begins(q, r)
  PROVE  IsPrefix(q, r)
<1>1. Len(q) \in Nat /\ Len(r) \in Nat /\ Len(q) <= Len(r)
  BY DEF Begins
<1>2. SubSeq(q, 1, Len(q)) = SubSeq(r, 1, Len(q))
  BY <1>1 DEF Begins
<1> QED BY <1>1, <1>2 DEF IsPrefix

LEMMA StoppedFields ==
  ASSUME NEW p \in Transactions
  PROVE  /\ Stopped(p) \in Transactions /\ Stopped(p).row = p.row
         /\ Stopped(p).books = p.books /\ Stopped(p).refused = p.refused /\ ~Stopped(p).go
         /\ Refused(p) \in Transactions /\ Refused(p).row = p.row
         /\ Refused(p).books = p.books /\ Refused(p).refused /\ ~Refused(p).go
BY DEF Stopped, Refused, Transactions

\* A loop that stops changes nothing.
LEMMA StoppedGoesOn ==
  ASSUME NEW s, NEW p, NEW by, Going(s, p, by)
  PROVE  Going(s, Stopped(p), by)
<1>1. p \in Transactions
  BY DEF Going
<1> QED BY <1>1, StoppedFields DEF Going, MoneyKept

LEMMA StoppedInDay ==
  ASSUME NEW s, NEW d, NEW k \in Nat, NEW j \in Nat, NEW p, NEW by,
         InDay(s, d, j, p, by), j < Slots
  PROVE  InDay(s, d, k, Stopped(p), by)
<1>1. p \in Transactions /\ Going(s, p, by)
  BY DEF InDay, Going
<1>2. Going(s, Stopped(p), by)
  BY <1>1, StoppedGoesOn
<1>3. Len(p.row.trades[d]) < Slots
  BY DEF InDay
<1> QED BY <1>1, <1>2, <1>3, StoppedFields DEF InDay

\* One trade more goes on from where the row was.
LEMMA HistoryGoesOn ==
  ASSUME NEW s \in Subs, NEW row \in Rows, NEW new \in Rows, NEW d \in Days, NEW trade \in Trades,
         HistoryFrom(s, row), trading[s] \in Rows,
         new.trades = Appended(row, d, trade), new.claims = row.claims
  PROVE  HistoryFrom(s, new)
<1>1. /\ \A x \in Days : x # d => new.trades[x] = row.trades[x]
      /\ Len(new.trades[d]) = Len(row.trades[d]) + 1 /\ Len(row.trades[d]) \in Nat
      /\ \A k \in 1 .. Len(row.trades[d]) : new.trades[d][k] = row.trades[d][k]
  BY AppendedRow, SMTT(20)
<1>2. ASSUME NEW x \in Days PROVE Begins(trading[s].trades[x], new.trades[x])
  <2>1. Begins(trading[s].trades[x], row.trades[x])
    BY DEF HistoryFrom
  <2>2. CASE x = d
    <3>1. Len(trading[s].trades[d]) \in Nat
      <4>1. trading[s].trades[d] \in Seq(Trades)
        BY DEF Rows
      <4> QED BY <4>1, LenProperties
    <3> QED BY <1>1, <2>1, <2>2, <3>1, SMTT(20) DEF Begins
  <2>3. CASE x # d
    BY <1>1, <2>1, <2>3
  <2> QED BY <2>2, <2>3
<1> QED BY <1>2 DEF HistoryFrom

\* The new trade is on the path.
LEMMA PathGoesOn ==
  ASSUME NEW row \in Rows, NEW new \in Rows, NEW trade \in Trades, NEW by, PathFits(row, by),
         new.trades = Appended(row, row.next, trade), new.model = row.model,
         new.next = row.next, trade.linked = (by.path # "LEGACY")
  PROVE  PathFits(new, by)
<1> DEFINE d == row.next
           n == Len(row.trades[d])
<1>1. d \in Days
  BY DEF Rows
<1>2. /\ n \in Nat /\ DOMAIN new.trades[d] = 1 .. n + 1 /\ DOMAIN row.trades[d] = 1 .. n
      /\ new.trades[d][n + 1] = trade
      /\ \A k \in 1 .. n : new.trades[d][k] = row.trades[d][k]
  BY <1>1, AppendedRow, SMTT(20)
<1>3. \A k \in 1 .. n : row.trades[d][k].linked = (by.path # "LEGACY")
  BY <1>2 DEF PathFits
<1> HIDE DEF n
<1>4. \A k \in 1 .. n + 1 : k \in 1 .. n \/ k = n + 1
  BY <1>2
<1>5. \A k \in 1 .. n + 1 : new.trades[d][k].linked = (by.path # "LEGACY")
  BY <1>2, <1>3, <1>4
<1> QED BY <1>2, <1>5 DEF PathFits

\* A slot that is settled.
LEMMA SettledInDay ==
  ASSUME NEW s \in Subs, trading[s] \in Rows, NEW d, NEW k \in 1 .. Slots, NEW p, NEW by,
         InDay(s, d, k - 1, p, by), p.go,
         NEW target, NEW progress \in Int, NEW trade \in Trades,
         ComesNext(s, p.row, target, progress, trade), trade.linked = (by.path # "LEGACY")
  PROVE  InDay(s, d, k, Settle(p, s, d, target, progress, trade), by)
<1> DEFINE q == Settle(p, s, d, target, progress, trade)
           user == q.row.credited - p.row.credited
           trade1 == [trade EXCEPT !.user = user]
<1>1. /\ p \in Transactions /\ Going(s, p, by) /\ ~p.refused /\ p.row.next = d
      /\ Len(p.row.trades[d]) = k - 1
  BY DEF InDay, Going
<1>2. /\ q \in Transactions /\ RowOK(s, q.row)
      /\ q.row.next = d /\ q.row.model = "V1" /\ q.row.claims = p.row.claims
      /\ user \in Int
      /\ q.row.trades = Appended(p.row, d, trade1)
      /\ q.books.expense - q.books.earnings - q.books.profit =
           p.books.expense - p.books.earnings - p.books.profit
      /\ q.books.earnings - q.row.credited = p.books.earnings - p.row.credited
      /\ q.go = p.go /\ q.refused = p.refused
  <2>1. SettledSoundly(s, p, q, trade)
    BY <1>1, SettleKeeps
  <2> HIDE DEF q
  <2> QED BY <1>1, <2>1 DEF SettledSoundly
<1> HIDE DEF q, user
<1>3. trade1 \in Trades /\ trade1.linked = trade.linked
  BY <1>2 DEF Trades
<1> HIDE DEF trade1
<1>4. p.row \in Rows /\ q.row \in Rows /\ p.books \in Accounts /\ q.books \in Accounts /\ d \in Days
  BY <1>1, <1>2 DEF Transactions, Rows
<1>5. p.row.model = "V1"
  BY DEF ComesNext
<1>6. PathFits(q.row, by)
  BY <1>1, <1>2, <1>3, <1>4, <1>5, PathGoesOn DEF Going
<1>7. HistoryFrom(s, q.row)
  BY <1>1, <1>2, <1>3, <1>4, HistoryGoesOn DEF Going
<1>8. MoneyKept(s, q)
  <2>1. MoneyKept(s, p)
    BY <1>1 DEF Going
  <2>2. /\ p.books.expense \in Nat /\ p.books.earnings \in Nat /\ p.books.profit \in Nat
        /\ q.books.expense \in Nat /\ q.books.earnings \in Nat /\ q.books.profit \in Nat
    BY <1>4 DEF Accounts
  <2> QED BY <1>2, <2>1, <2>2 DEF MoneyKept
<1>9. Len(q.row.trades[d]) = k
  BY <1>1, <1>2, <1>3, <1>4, AppendedRow
<1> QED BY <1>1, <1>2, <1>6, <1>7, <1>8, <1>9 DEF InDay, Going, q
-----------------------------------------------------------------------------
(* The slots of a day.                                                      *)

\* What holds of a V1 row when slot k of day d comes.
SlotComes(s, row, d, k, target) ==
  /\ SnapshotIsSound(row, target) /\ row.progress < target
  /\ row.progress \in Int /\ target \in Nat /\ target > 0
  /\ row \in Rows /\ row.model = "V1" /\ RowOK(s, row)
  /\ d \in Days /\ row.next = d /\ Len(row.trades[d]) = k - 1

\* What a transition demands of a V1 row always holds when a slot comes.
LEMMA SlotIsSound ==
  ASSUME NEW s \in Subs, NEW d, NEW k \in 1 .. Slots, NEW p, NEW by, by.path # "V2",
         InDay(s, d, k - 1, p, by), p.go, NEW target, target = GrossFor(NetThrough(s, d))
  PROVE  SlotComes(s, p.row, d, k, target)
<1> DEFINE row == p.row
           settled == row.credited + row.recognized
<1>1. /\ p \in Transactions /\ Going(s, p, by) /\ row.next = d /\ Len(row.trades[d]) = k - 1
      /\ row \in Rows /\ RowOK(s, row)
  BY DEF InDay, Going, RowOK
<1>2. row.model = "V1" /\ row.progress \in Int /\ d \in Days
      /\ row.credited \in Nat /\ row.recognized \in Nat /\ row.high \in Int
  BY <1>1 DEF Going, PathFits, Rows
<1>3. d \in FirstDay(s) .. FinalDay(s) /\ EarnedSoFar(s, row)
  BY <1>1, <1>2 DEF RowOK, DaysInOrder
<1>4. d - 1 \in ActivationDay(s) .. FinalDay(s) /\ d \in d - 1 .. FinalDay(s) /\ d - 1 < d
      /\ Slots \in Nat
  BY <1>3, Calendar
<1>5. target \in Nat /\ target > 0
  BY <1>4, TargetsGrow
<1>6. /\ settled <= target /\ row.progress < target
      /\ row.high \in Most(0, row.progress) .. target
  <2>1. k - 1 < Slots
    BY <1>4
  <2>2. /\ settled \in GrossFor(NetThrough(s, d - 1)) .. target
        /\ row.high \in Most(0, row.progress) .. target
        /\ row.progress < target
    BY <1>1, <1>3, <2>1 DEF EarnedSoFar
  <2> QED BY <2>2
<1>7. SnapshotIsSound(row, target)
  BY <1>2, <1>5, <1>6 DEF SnapshotIsSound
<1> QED BY <1>1, <1>2, <1>5, <1>6, <1>7 DEF SlotComes

\* A slot but the last leaves room below the target.
LEMMA RoomIsLeft ==
  ASSUME NEW row, row.progress \in Int, NEW target \in Nat, target > 0, NEW raw \in Int
  PROVE  NormalProgress(row, target, raw) \in Int /\ NormalProgress(row, target, raw) < target
BY DEF NormalProgress, Least, Most

LEMMA V1SlotInDay ==
  ASSUME NEW s \in Subs, trading[s] \in Rows, CanonicalOK(s),
         NEW d, NEW k \in 1 .. Slots, NEW p, NEW by, by.path = "V1",
         InDay(s, d, k - 1, p, by), p.go, NEW target, target = GrossFor(NetThrough(s, d)),
         k \in DOMAIN canonical[s][d]
  PROVE  InDay(s, d, k, V1Slot(p, s, d, k, target), by)
<1> DEFINE event == canonical[s][d][k]
           trade == [result |-> event.result, user |-> 0, linked |-> TRUE]
           progress == IF k = Slots THEN target ELSE NormalProgress(p.row, target, event.result)
<1>1. /\ SnapshotIsSound(p.row, target) /\ p.row.progress < target
      /\ p.row.progress \in Int /\ target \in Nat /\ target > 0
      /\ p.row \in Rows /\ p.row.model = "V1" /\ RowOK(s, p.row)
      /\ d \in Days /\ p.row.next = d /\ Len(p.row.trades[d]) = k - 1
  <2>1. by.path # "V2"
    OBVIOUS
  <2> HIDE DEF event, trade, progress
  <2>2. InDay(s, d, k - 1, p, by) /\ p.go /\ target = GrossFor(NetThrough(s, d))
    OBVIOUS
  <2>3. SlotComes(s, p.row, d, k, target)
    BY <2>1, <2>2, SlotIsSound
  <2> QED BY <2>3 DEF SlotComes
<1>2. event.result \in Int
  BY <1>1 DEF CanonicalOK, Events
<1>3. trade \in Trades /\ progress \in Int /\ progress <= target
      /\ (k < Slots => progress < target) /\ (k = Slots => progress = target)
  <2>1. trade \in Trades
    BY <1>2 DEF Trades
  <2>2. NormalProgress(p.row, target, event.result) \in Int
        /\ NormalProgress(p.row, target, event.result) < target
    <3> HIDE DEF event
    <3> QED BY <1>1, <1>2, RoomIsLeft
  <2> QED BY <1>1, <2>1, <2>2
<1>4. CASE SlotTime(d, k) > now
  <2>1. k - 1 < Slots /\ k - 1 \in Nat /\ k \in Nat
    BY Calendar
  <2>2. InDay(s, d, k, Stopped(p), by)
    BY <2>1, StoppedInDay
  <2> QED BY <1>4, <2>2 DEF V1Slot
<1>5. CASE ~ SlotTime(d, k) > now
  <2>1. V1Slot(p, s, d, k, target) = Settle(p, s, d, target, progress, trade)
    <3>1. ~ (p.row.progress >= target)
      BY <1>1
    <3> QED BY <1>1, <1>5, <3>1 DEF V1Slot
  <2>2. PathFits(p.row, by)
    BY DEF InDay, Going
  <2>3. ComesNext(s, p.row, target, progress, trade)
    <3>1. k \in 1 .. Slots /\ Len(p.row.trades[p.row.next]) + 1 = k /\ k <= Slots
      BY <1>1, Calendar
    <3>2. trade.linked = TRUE /\ trade.result = canonical[s][p.row.next][k].result
      BY <1>1
    <3>3. \A j \in DOMAIN p.row.trades[p.row.next] : p.row.trades[p.row.next][j].linked = TRUE
      BY <2>2 DEF PathFits
    <3> HIDE DEF trade, progress
    <3> QED BY <1>1, <1>3, <3>1, <3>2, <3>3 DEF ComesNext
  <2>4. trade.linked = (by.path # "LEGACY")
    OBVIOUS
  <2> HIDE DEF trade, progress
  <2>5. InDay(s, d, k, Settle(p, s, d, target, progress, trade), by)
    BY <1>3, <2>3, <2>4, SettledInDay
  <2> QED BY <2>1, <2>5
<1> QED BY <1>4, <1>5

LEMMA LegacySlotInDay ==
  ASSUME NEW s \in Subs, trading[s] \in Rows,
         NEW d, NEW k \in 1 .. Slots, NEW p, NEW by, by.path = "LEGACY",
         InDay(s, d, k - 1, p, by), p.go, NEW target, target = GrossFor(NetThrough(s, d)),
         NEW raw \in Results
  PROVE  InDay(s, d, k, LegacySlot(p, s, d, k, target, raw), by)
<1> DEFINE loss == CHOOSE r \in Results : r < 0
           drawn == IF raw > 0 /\ p.row.progress + raw >= target THEN loss ELSE raw
           progress == IF k = Slots THEN target ELSE NormalProgress(p.row, target, drawn)
           trade == [result |-> progress - p.row.progress, user |-> 0, linked |-> FALSE]
<1>1. /\ SnapshotIsSound(p.row, target) /\ p.row.progress < target
      /\ p.row.progress \in Int /\ target \in Nat /\ target > 0
      /\ p.row \in Rows /\ p.row.model = "V1" /\ RowOK(s, p.row)
      /\ d \in Days /\ p.row.next = d /\ Len(p.row.trades[d]) = k - 1
  <2>1. by.path # "V2"
    OBVIOUS
  <2> HIDE DEF loss, drawn, trade, progress
  <2>2. InDay(s, d, k - 1, p, by) /\ p.go /\ target = GrossFor(NetThrough(s, d))
    OBVIOUS
  <2>3. SlotComes(s, p.row, d, k, target)
    BY <2>1, <2>2, SlotIsSound
  <2> QED BY <2>3 DEF SlotComes
<1>2. drawn \in Int
  <2>1. Results \subseteq Int /\ \E r \in Results : r < 0
    BY TradingAssumption DEF TradingAssumption
  <2>2. loss \in Results
    BY <2>1
  <2> HIDE DEF loss
  <2> QED BY <2>1, <2>2
<1> HIDE DEF drawn
<1>3. progress \in Int /\ progress <= target
      /\ (k < Slots => progress < target) /\ (k = Slots => progress = target)
  <2>1. NormalProgress(p.row, target, drawn) \in Int
        /\ NormalProgress(p.row, target, drawn) < target
    BY <1>1, <1>2, RoomIsLeft
  <2> QED BY <1>1, <2>1
<1>4. trade \in Trades /\ trade.linked = FALSE
  <2> HIDE DEF progress
  <2> QED BY <1>1, <1>3 DEF Trades
<1>5. CASE d >= Day(now) /\ SlotTime(d, k) > now
  <2>1. k - 1 < Slots /\ k - 1 \in Nat /\ k \in Nat
    BY Calendar
  <2>2. InDay(s, d, k, Stopped(p), by)
    BY <2>1, StoppedInDay
  <2> QED BY <1>5, <2>2 DEF LegacySlot
<1>6. CASE ~ (d >= Day(now) /\ SlotTime(d, k) > now)
  <2>1. LegacySlot(p, s, d, k, target, raw) = Settle(p, s, d, target, progress, trade)
    <3>1. ~ (p.row.progress >= target)
      BY <1>1
    <3> QED BY <1>1, <1>6, <3>1 DEF LegacySlot, drawn
  <2>2. PathFits(p.row, by)
    BY DEF InDay, Going
  <2>3. ComesNext(s, p.row, target, progress, trade)
    <3>1. k \in 1 .. Slots /\ Len(p.row.trades[p.row.next]) + 1 = k /\ k <= Slots
      BY <1>1, Calendar
    <3>2. \A j \in DOMAIN p.row.trades[p.row.next] : p.row.trades[p.row.next][j].linked = FALSE
      BY <2>2 DEF PathFits
    <3> HIDE DEF trade, progress
    <3> QED BY <1>1, <1>3, <1>4, <3>1, <3>2 DEF ComesNext
  <2>4. trade.linked = (by.path # "LEGACY")
    BY <1>4
  <2> HIDE DEF trade, progress
  <2>5. InDay(s, d, k, Settle(p, s, d, target, progress, trade), by)
    BY <1>3, <1>4, <2>3, <2>4, SettledInDay
  <2> QED BY <2>1, <2>5
<1> QED BY <1>5, <1>6

LEMMA V2SlotInDay ==
  ASSUME NEW s \in Subs, trading[s] \in Rows, CanonicalOK(s),
         NEW d, NEW k \in 1 .. Slots, NEW p, NEW by, by.path = "V2",
         InDay(s, d, k - 1, p, by), p.go, k \in DOMAIN canonical[s][d]
  PROVE  InDay(s, d, k, V2Slot(p, s, d, k), by)
<1> DEFINE row == p.row
           event == canonical[s][d][k]
           trade == [result |-> event.result, user |-> 0, linked |-> TRUE]
           after == row.progress + event.result
           completing == d = FinalDay(s) /\ k = Slots
           new == [row EXCEPT
                    !.progress = after, !.high = Most(@, after),
                    !.trades[d] = Append(@, trade),
                    !.status = IF completing THEN "COMPLETED" ELSE @]
           q == [p EXCEPT !.row = new]
<1>1. /\ p \in Transactions /\ Going(s, p, by) /\ ~p.refused /\ row.next = d
      /\ Len(row.trades[d]) = k - 1 /\ row \in Rows /\ RowOK(s, row)
  BY DEF InDay, Going, RowOK
<1>2. /\ row.model = "V2" /\ row.progress \in Int /\ row.high \in Int /\ d \in Days
      /\ row.status \in {"ACTIVE", "COMPLETED"} /\ row.trades \in [Days -> Seq(Trades)]
  BY <1>1 DEF Going, PathFits, Rows
<1>3. event.result \in Int
  BY <1>2 DEF CanonicalOK, Events
<1>4. trade \in Trades /\ after \in Int /\ Most(row.high, after) \in Int
  <2>1. trade \in Trades
    BY <1>3 DEF Trades
  <2>2. after \in Int
    <3> HIDE DEF event
    <3> QED BY <1>2, <1>3
  <2> HIDE DEF after
  <2> QED BY <1>2, <2>1, <2>2 DEF Most
<1>5. CASE SlotTime(d, k) > now
  <2>1. k - 1 < Slots /\ k - 1 \in Nat /\ k \in Nat
    BY Calendar
  <2>2. InDay(s, d, k, Stopped(p), by)
    BY <2>1, StoppedInDay
  <2> QED BY <1>5, <2>2 DEF V2Slot
<1>6. CASE ~ SlotTime(d, k) > now
  <2>1. V2Slot(p, s, d, k) = q
    BY <1>6 DEF V2Slot
  <2>2. trade.linked = TRUE /\ trade.user = 0 /\ trade.result = canonical[s][d][k].result
    OBVIOUS
  <2> HIDE DEF trade, after, completing
  <2>3. /\ new.model = row.model /\ new.next = row.next /\ new.claims = row.claims
        /\ new.credited = row.credited /\ new.recognized = row.recognized
        /\ new.trades = Appended(row, d, trade)
        /\ new.status = IF completing THEN "COMPLETED" ELSE row.status
    <3> HIDE DEF row
    <3> QED BY <1>1 DEF Rows, Appended
  <2>4. new \in Rows
    <3>1. Append(row.trades[d], trade) \in Seq(Trades)
      BY <1>2, <1>4, AppendProperties
    <3> HIDE DEF row
    <3> QED BY <1>1, <1>2, <1>4, <3>1 DEF Rows
  <2>5. /\ q.row = new /\ q.books = p.books /\ q.go = p.go /\ q.refused = p.refused
        /\ q \in Transactions
    <3> HIDE DEF new
    <3> QED BY <1>1, <2>4 DEF Transactions
  <2> HIDE DEF new, q
  <2>6. Slots \in Nat /\ k \in 1 .. Slots /\ k - 1 < Slots /\ (k - 1) + 1 = k
    BY Calendar
  <2>7. row.status # "COMPLETED"
    BY <1>1, <2>6 DEF RowOK, DaysInOrder
  <2>8. PathFits(row, by)
    BY <1>1 DEF Going
  <2>9. /\ DaysInOrder(s, new) /\ SourcesMatch(s, new) /\ ClaimsMatch(s, new)
        /\ CreditedByTrades(new) = CreditedByTrades(row) + trade.user
        /\ ClaimedOf(new) = ClaimedOf(row)
        /\ CreditedByTrades(row) \in Int /\ ClaimedOf(row) \in Int
    <3>1. RowOK(s, row) /\ Len(row.trades[row.next]) < Slots
      BY <1>1, <2>6
    <3>2. /\ new.model = row.model /\ new.next = row.next /\ new.claims = row.claims
          /\ new.trades = Appended(row, row.next, trade)
      BY <1>1, <2>3
    <3>3. new.status = "COMPLETED" <=>
            row.next = FinalDay(s) /\ Len(row.trades[row.next]) + 1 = Slots
      BY <1>1, <2>3, <2>6, <2>7 DEF completing
    <3>4. \A j \in DOMAIN row.trades[row.next] : row.trades[row.next][j].linked = trade.linked
      BY <2>2, <2>8 DEF PathFits
    <3>5. /\ Len(row.trades[row.next]) + 1 \in DOMAIN canonical[s][row.next]
          /\ trade.result = canonical[s][row.next][Len(row.trades[row.next]) + 1].result
      BY <1>1, <2>2, <2>6
    <3>6. TradeFits(s, row, trade)
      BY <2>2, <3>4, <3>5 DEF TradeFits
    <3> HIDE DEF row
    <3> QED BY <1>1, <1>4, <2>2, <2>4, <3>1, <3>2, <3>3, <3>6, OneTradeKeeps
  <2>10. SumsMatch(new)
    BY <1>1, <2>2, <2>3, <2>9 DEF RowOK, SumsMatch
  <2>11. RowOK(s, new)
    BY <1>2, <2>3, <2>4, <2>9, <2>10 DEF RowOK
  <2>12. PathFits(new, by)
    BY <1>1, <1>4, <2>2, <2>3, <2>4, <2>8, PathGoesOn
  <2>13. HistoryFrom(s, new)
    BY <1>1, <1>2, <1>4, <2>3, <2>4, HistoryGoesOn DEF Going
  <2>14. MoneyKept(s, q)
    BY <1>1, <2>3, <2>5 DEF Going, MoneyKept
  <2>15. Len(new.trades[d]) = k
    BY <1>1, <1>2, <1>4, <2>3, <2>6, AppendedRow, SMTT(20)
  <2>16. Going(s, q, by)
    BY <1>1, <2>5, <2>11, <2>12, <2>13, <2>14 DEF Going
  <2> QED BY <1>1, <2>1, <2>3, <2>5, <2>15, <2>16 DEF InDay
<1> QED BY <1>5, <1>6
-----------------------------------------------------------------------------
(* The loop over the slots of a day.                                        *)

\* run is the loop's recursive function, from lo slots settled to hi.
IsSlotRun(run, p, s, d, target, by, lo, hi) ==
  run = [k \in lo .. hi |->
           IF k = lo THEN p
           ELSE IF run[k - 1].go THEN OneSlot(run[k - 1], s, d, k, target, by) ELSE run[k - 1]]

LEMMA SlotRunExists ==
  ASSUME NEW p, NEW s, NEW d, NEW target, NEW by, NEW lo \in Nat, NEW m \in Nat
  PROVE  \E run : IsSlotRun(run, p, s, d, target, by, lo, lo + m)
<1> DEFINE Is(run, j) == IsSlotRun(run, p, s, d, target, by, lo, lo + j)
           Bad == {j \in 0 .. m : ~ \E run : Is(run, j)}
<1>1. SUFFICES ASSUME Bad # {} PROVE FALSE
  <2>1. m \in 0 .. m
    OBVIOUS
  <2> QED BY <2>1
<1>2. PICK j \in Bad : \A i \in 0 .. (j - 1) : i \notin Bad
  <2> HIDE DEF Bad
  <2>1. Bad \in SUBSET (0 .. m)
    BY DEF Bad
  <2> QED BY <1>1, <2>1, SmallestNumber
<1>3. j \in 0 .. m /\ ~ \E run : Is(run, j)
  OBVIOUS
<1> DEFINE After(before, k) ==
             IF before.go THEN OneSlot(before, s, d, k, target, by) ELSE before
<1>4. CASE j = 0
  <2> DEFINE run == [k \in lo .. lo |-> p]
  <2>1. run = [k \in lo .. lo |-> IF k = lo THEN p ELSE After(run[k - 1], k)]
    <3> HIDE DEF After
    <3> QED OBVIOUS
  <2> HIDE DEF run
  <2>2. Is(run, j)
    BY <1>4, <2>1 DEF IsSlotRun
  <2> QED BY <1>3, <2>2
<1>5. CASE j # 0
  <2>1. j - 1 \in 0 .. (j - 1) /\ j - 1 \in 0 .. m
    BY <1>3, <1>5
  <2>2. PICK low : Is(low, j - 1)
    BY <1>2, <2>1
  <2> HIDE DEF After
  <2> DEFINE run == [k \in lo .. lo + j |-> IF k = lo THEN p ELSE After(low[k - 1], k)]
  <2>3. low = [k \in lo .. lo + (j - 1) |-> IF k = lo THEN p ELSE After(low[k - 1], k)]
    BY <2>2 DEF IsSlotRun, After
  <2>4. ASSUME NEW k \in lo .. lo + (j - 1) PROVE run[k] = low[k]
    <3>1. k \in lo .. lo + j
      BY <1>3
    <3> QED BY <2>3, <3>1
  <2>5. \A k \in lo .. lo + j : k # lo => run[k - 1] = low[k - 1]
    <3>1. \A k \in lo .. lo + j : k # lo => k - 1 \in lo .. lo + (j - 1)
      BY <1>3
    <3> HIDE DEF run
    <3> QED BY <2>4, <3>1
  <2>6. run = [k \in lo .. lo + j |-> IF k = lo THEN p ELSE After(run[k - 1], k)]
    BY <2>5
  <2> HIDE DEF run
  <2>7. Is(run, j)
    BY <2>6 DEF IsSlotRun, After
  <2> QED BY <1>3, <2>7
<1> QED BY <1>4, <1>5

\* What a loop over slots upTo needs of the day.
SlotsReady(s, d, upTo, target, by) ==
  /\ upTo \in 0 .. Slots
  /\ by.path # "V2" => target = GrossFor(NetThrough(s, d))
  /\ by.path # "LEGACY" => 1 .. upTo \subseteq DOMAIN canonical[s][d]

\* One slot more.
LEMMA OneSlotInDay ==
  ASSUME NEW s \in Subs, trading[s] \in Rows, CanonicalOK(s),
         NEW d, NEW upTo, NEW target, NEW by, SlotsReady(s, d, upTo, target, by),
         NEW k \in 1 .. upTo, NEW p, InDay(s, d, k - 1, p, by), p.go
  PROVE  InDay(s, d, k, OneSlot(p, s, d, k, target, by), by)
<1>1. k \in 1 .. Slots /\ Slots \in Nat
  BY Calendar DEF SlotsReady
<1>2. PathFits(p.row, by)
  BY DEF InDay, Going
<1>3. CASE by.path = "V1"
  <2>1. k \in DOMAIN canonical[s][d] /\ target = GrossFor(NetThrough(s, d))
    BY <1>3 DEF SlotsReady
  <2>2. OneSlot(p, s, d, k, target, by) = V1Slot(p, s, d, k, target)
    BY <1>3 DEF OneSlot
  <2> QED BY <1>1, <1>3, <2>1, <2>2, V1SlotInDay
<1>4. CASE by.path = "V2"
  <2>1. k \in DOMAIN canonical[s][d]
    BY <1>4 DEF SlotsReady
  <2>2. OneSlot(p, s, d, k, target, by) = V2Slot(p, s, d, k)
    BY <1>4 DEF OneSlot
  <2> QED BY <1>1, <1>4, <2>1, <2>2, V2SlotInDay
<1>5. CASE by.path = "LEGACY"
  <2>1. target = GrossFor(NetThrough(s, d)) /\ by.raws[k] \in Results
    BY <1>1, <1>2, <1>5 DEF SlotsReady, PathFits
  <2>2. OneSlot(p, s, d, k, target, by) = LegacySlot(p, s, d, k, target, by.raws[k])
    BY <1>5 DEF OneSlot
  <2> QED BY <1>1, <1>5, <2>1, <2>2, LegacySlotInDay
<1> QED BY <1>2, <1>3, <1>4, <1>5 DEF PathFits

\* The slots of a day that is over are past.
LEMMA SlotIsPast ==
  ASSUME now \in Nat, NEW d \in Nat, d < Day(now), NEW k \in 1 .. Slots
  PROVE  ~ (SlotTime(d, k) > now)
<1> DEFINE t == SlotTime(d, k)
<1>1. /\ DayLength \in Nat /\ DayLength > 0 /\ SlotAt[k] \in 0 .. DayLength - 1
      /\ Day(now) \in Nat
  BY Calendar, DivBounds DEF Day
<1>2. t \in Nat /\ DayLength * d <= t /\ t < DayLength * d + DayLength
  <2>1. d * DayLength \in Nat /\ DayLength * d = d * DayLength
    BY <1>1
  <2> QED BY <1>1, <2>1 DEF SlotTime
<1>3. t \div DayLength = d
  <2> HIDE DEF t
  <2> QED BY <1>1, <1>2, DivUnique
<1> HIDE DEF t
<1>4. t > now => now \div DayLength <= d
  BY <1>1, <1>2, <1>3, DivGrows
<1> QED BY <1>1, <1>4 DEF Day, t

\* No slot of such a day stops the loop, but for V2.
GoesOn(d, p, by) == now \in Nat /\ d < Day(now) /\ by.path # "V2" => p.go

LEMMA PastSlotGoesOn ==
  ASSUME NEW s, NEW d \in Days, NEW target, NEW by, NEW k \in 1 .. Slots, NEW p,
         InDay(s, d, k - 1, p, by), p.go,
         InDay(s, d, k, OneSlot(p, s, d, k, target, by), by)
  PROVE  GoesOn(d, OneSlot(p, s, d, k, target, by), by)
<1> DEFINE q == OneSlot(p, s, d, k, target, by)
<1>1. SUFFICES ASSUME now \in Nat, d < Day(now), by.path # "V2" PROVE q.go
  BY DEF GoesOn
<1>2. p \in Transactions /\ by.path \in {"V1", "LEGACY"}
  BY <1>1 DEF InDay, Going, PathFits
<1>3. ~ (SlotTime(d, k) > now) /\ ~ (d >= Day(now))
  <2>1. d \in Nat /\ Day(now) \in Nat
    BY <1>1, DaysFinite, Calendar, DivBounds DEF Day
  <2> QED BY <1>1, <2>1, SlotIsPast
<1>4. ~q.refused
  BY DEF InDay
<1>5. Refused(p).refused
  BY <1>2, StoppedFields
<1>6. \A progress, trade : Settle(p, s, d, target, progress, trade).go = p.go
  BY <1>2 DEF Settle, Transactions
<1>7. \/ q = Refused(p)
      \/ \E progress, trade : q = Settle(p, s, d, target, progress, trade)
  <2>1. CASE by.path = "V1"
    <3>1. q = V1Slot(p, s, d, k, target)
      BY <2>1 DEF OneSlot
    <3> HIDE DEF q
    <3> QED BY <1>3, <3>1 DEF V1Slot
  <2>2. CASE by.path = "LEGACY"
    <3>1. q = LegacySlot(p, s, d, k, target, by.raws[k])
      BY <2>2 DEF OneSlot
    <3> HIDE DEF q
    <3> QED BY <1>3, <3>1 DEF LegacySlot
  <2> QED BY <1>2, <2>1, <2>2
<1> HIDE DEF q
<1> QED BY <1>4, <1>5, <1>6, <1>7

\* A loop that has stopped stays where it is.
LEMMA StaysInDay ==
  ASSUME NEW s, NEW d, NEW k, NEW j, NEW p, NEW by, InDay(s, d, j, p, by), ~p.go
  PROVE  InDay(s, d, k, p, by)
BY DEF InDay

LEMMA SlotsInDay ==
  ASSUME NEW s \in Subs, trading[s] \in Rows, CanonicalOK(s),
         NEW d, NEW upTo, NEW target, NEW by, SlotsReady(s, d, upTo, target, by),
         NEW p, Going(s, p, by), ~p.refused, p.go, p.row.next = d
  PROVE  LET after == SlotsOf(p, s, d, upTo, target, by)
         IN InDay(s, d, Most(Len(p.row.trades[d]), upTo), after, by) /\ GoesOn(d, after, by)
<1> DEFINE lo == Len(p.row.trades[d])
           hi == Most(lo, upTo)
           m == hi - lo
           run == CHOOSE run : IsSlotRun(run, p, s, d, target, by, lo, hi)
<1>1. lo \in Nat /\ upTo \in Nat /\ upTo <= Slots /\ Slots \in Nat
  <2>1. d \in Days /\ p.row.trades[d] \in Seq(Trades)
    BY DEF Going, Transactions, Rows
  <2>2. lo \in Nat
    BY <2>1, LenProperties
  <2> QED BY <2>2, Calendar DEF SlotsReady
<1>2. m \in Nat /\ hi \in Nat /\ lo + m = hi /\ lo <= hi
  <2> HIDE DEF lo
  <2> QED BY <1>1 DEF Most
<1>3. SlotsOf(p, s, d, upTo, target, by) = run[hi]
  BY DEF SlotsOf, IsSlotRun
<1>4. IsSlotRun(run, p, s, d, target, by, lo, hi)
  <2> HIDE DEF lo, hi, m
  <2> QED BY <1>1, <1>2, SlotRunExists
<1> HIDE DEF run
<1> DEFINE InTime(k, before) == InDay(s, d, k, before, by) /\ GoesOn(d, before, by)
           Bad == {j \in 0 .. m : ~ InTime(lo + j, run[lo + j])}
<1>5. Bad = {}
  <2> SUFFICES ASSUME Bad # {} PROVE FALSE
    OBVIOUS
  <2>1. PICK j \in Bad : \A i \in 0 .. (j - 1) : i \notin Bad
    <3> HIDE DEF Bad
    <3>1. Bad \in SUBSET (0 .. m)
      BY DEF Bad
    <3> HIDE DEF m
    <3> QED BY <1>2, <3>1, SmallestNumber
  <2>2. j \in 0 .. m /\ ~ InTime(lo + j, run[lo + j])
    OBVIOUS
  <2> DEFINE k == lo + j
  <2> HIDE DEF m
  <2>3. CASE j = 0
    <3>1. k = lo /\ lo \in lo .. hi
      <4> HIDE DEF lo, hi
      <4> QED BY <1>1, <1>2, <2>3
    <3>2. run[lo] = p
      <4> HIDE DEF lo, hi
      <4> QED BY <1>4, <3>1 DEF IsSlotRun
    <3>3. InTime(lo, p)
      BY DEF InDay, GoesOn
    <3> HIDE DEF lo, hi, k, InTime
    <3> QED BY <2>2, <3>1, <3>2, <3>3 DEF k
  <2>4. CASE j # 0
    <3> HIDE DEF lo, hi
    <3>1. /\ j - 1 \in 0 .. (j - 1) /\ j - 1 \in 0 .. m /\ lo + (j - 1) = k - 1
          /\ k \in lo .. hi /\ k # lo /\ k \in Nat /\ k > lo
      BY <1>1, <1>2, <2>2, <2>4
    <3>2. InTime(k - 1, run[k - 1])
      <4>1. InTime(lo + (j - 1), run[lo + (j - 1)])
        BY <2>1, <3>1
      <4> HIDE DEF k, InTime
      <4> QED BY <3>1, <4>1
    <3>3. run[k] = IF run[k - 1].go THEN OneSlot(run[k - 1], s, d, k, target, by)
                                    ELSE run[k - 1]
      <4> HIDE DEF k
      <4> QED BY <1>4, <3>1 DEF IsSlotRun
    <3>4. CASE ~ run[k - 1].go
      <4> HIDE DEF k
      <4>1. InTime(k, run[k - 1])
        BY <3>2, <3>4, StaysInDay
      <4> HIDE DEF InTime
      <4> QED BY <2>2, <3>3, <3>4, <4>1 DEF k
    <3>5. CASE run[k - 1].go
      <4>1. k \in 1 .. upTo
        BY <1>1, <3>1 DEF hi, Most
      <4> HIDE DEF k
      <4> DEFINE before == run[k - 1]
      <4>2. InDay(s, d, k - 1, before, by) /\ before.go
        BY <3>2, <3>5
      <4> HIDE DEF before
      <4>3. InDay(s, d, k, OneSlot(before, s, d, k, target, by), by)
        BY <4>1, <4>2, OneSlotInDay
      <4>4. InTime(k, OneSlot(before, s, d, k, target, by))
        <5>1. k \in 1 .. Slots /\ d \in Days
          BY <1>1, <4>1 DEF Going, Transactions, Rows
        <5> QED BY <4>2, <4>3, <5>1, PastSlotGoesOn
      <4> HIDE DEF InTime
      <4> QED BY <2>2, <3>3, <3>5, <4>4 DEF k, before
    <3> QED BY <3>4, <3>5
  <2> QED BY <2>3, <2>4
<1>6. InTime(lo + m, run[lo + m])
  <2> HIDE DEF m, lo, InTime
  <2>1. m \in 0 .. m
    BY <1>2
  <2> QED BY <1>5, <2>1
<1> HIDE DEF lo, hi, m
<1>7. InDay(s, d, hi, run[hi], by) /\ GoesOn(d, run[hi], by)
  <2> HIDE DEF InTime
  <2>1. InTime(hi, run[hi])
    BY <1>2, <1>6
  <2> QED BY <2>1 DEF InTime
<1> QED BY <1>3, <1>7 DEF lo, hi
-----------------------------------------------------------------------------
(* A day.                                                                   *)

\* The canonical trades of a trading day are those of its first slots.
LEMMA DayIsContiguous ==
  ASSUME NEW s \in Subs, CanonicalOK(s), NEW d \in FirstDay(s) .. FinalDay(s)
  PROVE  \E n \in 0 .. Slots : /\ DOMAIN canonical[s][d] = 1 .. n
                               /\ Cardinality(DOMAIN canonical[s][d]) = n
                               /\ Contiguous(canonical[s][d])
<1> DEFINE ks == DOMAIN canonical[s][d]
<1>1. d \in Days /\ Slots \in Nat
  BY DaysFinite, Calendar
<1>2. ks \subseteq 1 .. Slots /\ \A k \in ks : 1 .. k \subseteq ks
  BY <1>1 DEF CanonicalOK
<1>3. \E n \in 0 .. Slots : ks = 1 .. n
  <2> HIDE DEF ks
  <2>1. CASE ks = {}
    <3>1. ks = 1 .. 0 /\ 0 \in 0 .. Slots
      BY <1>1, <2>1
    <3> QED BY <3>1
  <2>2. CASE ks # {}
    <3>1. IsFiniteSet(ks)
      <4>1. IsFiniteSet(1 .. Slots)
        BY <1>1, FS_Interval
      <4> QED BY <1>2, <4>1, FS_Subset
    <3>2. ks \subseteq Int
      BY <1>2
    <3> DEFINE n == Max(ks)
    <3>3. n \in ks /\ \A y \in ks : y <= n
      BY <2>2, <3>1, <3>2, MaxOf
    <3> HIDE DEF n
    <3>4. n \in 1 .. Slots /\ 1 .. n \subseteq ks
      BY <1>2, <3>3
    <3>5. ks \subseteq 1 .. n
      BY <1>1, <1>2, <3>3, <3>4
    <3>6. ks = 1 .. n
      BY <3>4, <3>5
    <3>7. n \in 0 .. Slots
      BY <1>1, <3>4
    <3> QED BY <3>6, <3>7
  <2> QED BY <2>1, <2>2
<1>4. PICK n \in 0 .. Slots : ks = 1 .. n
  BY <1>3
<1>5. Cardinality(1 .. n) = n
  <2>1. n \in Nat
    BY <1>1
  <2>2. Cardinality(1 .. n) = IF 1 > n THEN 0 ELSE n - 1 + 1
    BY <2>1, FS_Interval
  <2> QED BY <2>1, <2>2
<1> QED BY <1>4, <1>5 DEF Contiguous

\* The target of the day is that of the net amounts through the day, and no
\* day's target is beyond that of the package.
LEMMA DayTargetIs ==
  ASSUME NEW s \in Subs, NEW row \in Rows, RowOK(s, row), row.model = "V1"
  PROVE  /\ DayTarget(row, row.next) = GrossFor(NetThrough(s, row.next))
         /\ ~ (DayTarget(row, row.next) > LifetimeGross(s))
<1> DEFINE d == row.next
           before == NetThrough(s, d - 1)
           today == UserTotal(row.trades[d])
<1>1. d \in FirstDay(s) .. FinalDay(s) /\ row.credited = before + today
  BY DEF RowOK, DaysInOrder, EarnedSoFar
<1>2. d - 1 \in ActivationDay(s) .. FinalDay(s) /\ d \in d - 1 .. FinalDay(s)
      /\ d \in ActivationDay(s) .. FinalDay(s) /\ FinalDay(s) \in d .. FinalDay(s)
  <2> HIDE DEF d
  <2> QED BY <1>1, Calendar
<1>3. before \in Nat
  BY <1>2, NetsGrow
<1>4. today \in Int
  <2>1. row.trades[d] \in Seq(Trades)
    BY DEF Rows
  <2>2. [result |-> 0, user |-> 0, linked |-> TRUE] \in Trades
    BY DEF Trades
  <2> QED BY <2>1, <2>2, OneTradeMore
<1>5. NetThrough(s, d) = before + DailyNet[d] /\ DailyNet[d] \in Nat
  BY <1>1, NetSteps
<1>6. row.credited - today + DailyNet[d] = NetThrough(s, d)
  <2> HIDE DEF before, today, d
  <2> QED BY <1>1, <1>3, <1>4, <1>5
<1>7. DayTarget(row, d) = GrossFor(NetThrough(s, d))
  BY <1>6 DEF DayTarget
<1>8. /\ GrossFor(NetThrough(s, d)) \in Nat /\ LifetimeGross(s) \in Nat
      /\ GrossFor(NetThrough(s, d)) <= LifetimeGross(s)
  BY <1>2, TargetsGrow DEF LifetimeGross
<1>9. ~ (DayTarget(row, d) > LifetimeGross(s))
  BY <1>7, <1>8
<1> QED BY <1>7, <1>9

\* A row may go on with the day after one that is settled.
LEMMA RowOpens ==
  ASSUME NEW s \in Subs, NEW row \in Rows, RowOK(s, row), row.status # "COMPLETED",
         Len(row.trades[row.next]) = Slots,
         row.model = "V2" => row.claims[row.next].status # "NONE"
  PROVE  LET new == [row EXCEPT !.next = row.next + 1]
         IN /\ new \in Rows /\ RowOK(s, new) /\ Closed(new)
            /\ new.trades[new.next] = <<>>
<1> DEFINE d == row.next
           new == [row EXCEPT !.next = row.next + 1]
<1>1. DaysInOrder(s, row) /\ SourcesMatch(s, row) /\ ClaimsMatch(s, row) /\ SumsMatch(row)
  BY DEF RowOK
<1>2. /\ d \in FirstDay(s) .. FinalDay(s) /\ d # FinalDay(s)
  BY <1>1 DEF DaysInOrder
<1>3. /\ FirstDay(s) \in Nat /\ FinalDay(s) \in Nat /\ d \in Nat /\ Slots \in Nat /\ Slots >= 1
      /\ d + 1 \in FirstDay(s) .. FinalDay(s) /\ d + 1 \notin FirstDay(s) .. d
      /\ (d + 1) - 1 = d /\ d + 1 \in Days
  <2> HIDE DEF d
  <2>1. FirstDay(s) \in Nat /\ FinalDay(s) \in Nat /\ Slots \in Nat /\ Slots >= 1
    BY Calendar
  <2>2. d \in Nat /\ d + 1 \in FirstDay(s) .. FinalDay(s)
    BY <1>2, <2>1
  <2> QED BY <2>1, <2>2, DaysFinite
<1>4. /\ new \in Rows /\ new.next = d + 1 /\ new.model = row.model /\ new.status = row.status
      /\ new.trades = row.trades /\ new.claims = row.claims /\ new.credited = row.credited
      /\ new.recognized = row.recognized /\ new.progress = row.progress /\ new.high = row.high
  BY <1>3 DEF Rows
<1>5. row.trades[d + 1] = <<>> /\ Len(row.trades[d + 1]) = 0
  BY <1>1, <1>3 DEF DaysInOrder
<1> HIDE DEF new
<1>6. DaysInOrder(s, new)
  <2>1. ASSUME NEW x \in Days
        PROVE  /\ Len(row.trades[x]) <= Slots
               /\ x \in FirstDay(s) .. d => Len(row.trades[x]) = Slots
               /\ x \notin FirstDay(s) .. d + 1 => row.trades[x] = <<>>
    <3>1. x \in Nat
      BY DaysFinite
    <3>2. x \in FirstDay(s) .. d => x = d \/ x \in FirstDay(s) .. d - 1
      BY <1>3, <3>1
    <3>3. x \notin FirstDay(s) .. d + 1 => x \notin FirstDay(s) .. d
      BY <1>3, <3>1
    <3> QED BY <1>1, <3>2, <3>3 DEF DaysInOrder
  <2>2. new.status = "COMPLETED" <=>
          d + 1 = FinalDay(s) /\ Len(row.trades[d + 1]) = Slots
    BY <1>3, <1>4, <1>5
  <2> QED BY <1>3, <1>4, <2>1, <2>2 DEF DaysInOrder
<1>7. SourcesMatch(s, new)
  BY <1>1, <1>4 DEF SourcesMatch
<1>8. ClaimsMatch(s, new)
  <2>1. ASSUME NEW x \in Days, x \in FirstDay(s) .. d, row.model = "V2"
        PROVE  row.claims[x].status # "NONE"
    <3>1. x = d \/ x \in FirstDay(s) .. d - 1
      BY <1>3, <2>1
    <3> QED BY <1>1, <2>1, <3>1 DEF ClaimsMatch
  <2>2. \A x \in Days : LET claim == row.claims[x]
                        IN /\ row.model = "V1" => claim.status = "NONE"
                           /\ claim.status # "NONE" =>
                                /\ Len(row.trades[x]) = Slots
                                /\ claim.gross = Total(row.trades[x])
                                /\ claim.user \in 1 .. claim.gross
    BY <1>1 DEF ClaimsMatch
  <2> QED BY <1>3, <1>4, <2>1, <2>2 DEF ClaimsMatch
<1>9. SumsMatch(new)
  BY <1>1, <1>4 DEF SumsMatch, CreditedByTrades, ClaimedOf
<1>10. ASSUME row.model = "V1" PROVE EarnedSoFar(s, new)
  <2> DEFINE settled == row.credited + row.recognized
             low == GrossFor(NetThrough(s, d))
             target == GrossFor(NetThrough(s, d + 1))
  <2>1. EarnedSoFar(s, row)
    BY <1>10 DEF RowOK
  <2>2. d \in ActivationDay(s) .. FinalDay(s) /\ d + 1 \in d .. FinalDay(s)
        /\ d - 1 \in ActivationDay(s) .. FinalDay(s)
    <3> HIDE DEF d
    <3> QED BY <1>2, <1>3, Calendar
  <2>3. /\ low \in Nat /\ target \in Nat /\ low < target
        /\ Share(low) = NetThrough(s, d) /\ NetThrough(s, d) \in Nat
    <3>1. d < d + 1
      BY <1>3
    <3> QED BY <2>2, <3>1, TargetsGrow, NetsGrow
  <2>4. /\ settled = low /\ row.credited = Share(settled) /\ row.progress <= settled
        /\ row.high \in Most(0, row.progress) .. low
    BY <2>1 DEF EarnedSoFar
  <2>5. row.progress \in Int /\ row.high \in Int /\ row.credited \in Nat /\ row.recognized \in Nat
    BY DEF Rows
  <2>6. UserTotal(row.trades[d + 1]) = 0
    BY <1>5, NoTradeAtAll
  <2>7. row.credited = NetThrough(s, d) + UserTotal(row.trades[d + 1])
    <3>1. row.credited = NetThrough(s, d)
      BY <2>3, <2>4
    <3> HIDE DEF d
    <3> QED BY <2>3, <2>6, <3>1
  <2> HIDE DEF settled, low, target
  <2>8. settled \in low .. target /\ row.progress < target
        /\ row.high \in Most(0, row.progress) .. target
    BY <2>3, <2>4, <2>5 DEF Most
  <2> QED BY <1>3, <1>4, <1>5, <2>4, <2>7, <2>8 DEF EarnedSoFar, settled, low, target
<1>11. RowOK(s, new)
  BY <1>4, <1>6, <1>7, <1>8, <1>9, <1>10 DEF RowOK
<1>12. Closed(new)
  BY <1>3, <1>4, <1>5 DEF Closed
<1> QED BY <1>4, <1>5, <1>11, <1>12 DEF new

\* Between two days: what the loop over the days that are due carries along.
Due(s, d, p, by) ==
  /\ Going(s, p, by)
  /\ p.refused \/ Closed(p.row)
  /\ p.go => ~p.refused /\ p.row.next = d /\ p.row.status = "ACTIVE"

LEMMA DueStops ==
  ASSUME NEW s, NEW d, NEW p, NEW by, Going(s, p, by), Closed(p.row)
  PROVE  Due(s, d, Stopped(p), by)
<1>1. p \in Transactions
  BY DEF Going
<1>2. Going(s, Stopped(p), by)
  BY StoppedGoesOn
<1> QED BY <1>1, <1>2, StoppedFields DEF Due

LEMMA DueRefuses ==
  ASSUME NEW s, NEW d, NEW p, NEW by, Going(s, p, by), by.path = "V2", Unplanned(s)
  PROVE  Due(s, d, Refused(p), by)
<1>1. p \in Transactions
  BY DEF Going
<1>2. Going(s, Refused(p), by)
  BY <1>1, StoppedFields DEF Going, MoneyKept
<1> QED BY <1>1, <1>2, StoppedFields DEF Due

\* The end of a day, settled or not.
LEMMA NextDayIsDue ==
  ASSUME NEW s \in Subs, NEW d, NEW p, NEW by, Going(s, p, by), ~p.refused, p.row.next = d,
         ~p.go => Len(p.row.trades[d]) < Slots,
         p.go /\ p.row.model = "V2" /\ Len(p.row.trades[d]) = Slots =>
           p.row.claims[d].status # "NONE"
  PROVE  Due(s, d + 1, NextDay(p, d), by)
<1> DEFINE row == p.row
           n == Len(row.trades[d])
<1>1. p \in Transactions /\ row \in Rows /\ RowOK(s, row) /\ d \in Days
  BY DEF Going, Transactions, Rows
<1>2. n \in Nat /\ n <= Slots /\ Slots \in Nat
  <2>1. row.trades[d] \in Seq(Trades)
    BY <1>1 DEF Rows
  <2>2. n \in Nat
    BY <2>1, LenProperties
  <2>3. n <= Slots
    BY <1>1 DEF RowOK, DaysInOrder
  <2> QED BY <2>2, <2>3, Calendar
<1>3. row.status = "COMPLETED" <=> d = FinalDay(s) /\ n = Slots
  BY <1>1 DEF RowOK, DaysInOrder
<1>4. row.status \in {"ACTIVE", "COMPLETED"} /\ row.model \in {"V1", "V2"}
  BY <1>1 DEF Rows
<1>5. CASE ~p.go \/ row.status = "COMPLETED" \/ n < Slots
  <2>1. Closed(row)
    BY <1>2, <1>3, <1>5 DEF Closed
  <2>2. NextDay(p, d) = Stopped(p)
    BY <1>5 DEF NextDay
  <2> QED BY <2>1, <2>2, DueStops
<1>6. CASE ~(~p.go \/ row.status = "COMPLETED" \/ n < Slots)
  <2> DEFINE new == [row EXCEPT !.next = row.next + 1]
             q == [p EXCEPT !.row = new]
  <2>1. n = Slots /\ p.go /\ row.status = "ACTIVE"
    BY <1>2, <1>4, <1>6
  <2>2. NextDay(p, d) = q
    <3>1. [p EXCEPT !.row.next = d + 1] = q
      BY <1>1 DEF Transactions, Rows
    <3> QED BY <1>6, <3>1 DEF NextDay
  <2>3. /\ new \in Rows /\ RowOK(s, new) /\ Closed(new) /\ new.trades[new.next] = <<>>
    BY <1>1, <1>3, <1>6, <2>1, RowOpens
  <2>4. /\ new.next = d + 1 /\ new.status = "ACTIVE" /\ new.model = row.model
        /\ new.trades = row.trades /\ new.claims = row.claims /\ new.credited = row.credited
    BY <1>1, <2>1 DEF Rows
  <2> HIDE DEF new
  <2>5. /\ q.row = new /\ q.books = p.books /\ q.go = p.go /\ q.refused = p.refused
        /\ q \in Transactions
    BY <1>1, <2>3 DEF Transactions
  <2> HIDE DEF q
  <2>6. PathFits(new, by)
    <3>1. PathFits(row, by)
      BY DEF Going
    <3>2. DOMAIN new.trades[new.next] = {}
      BY <2>3
    <3> QED BY <2>4, <3>1, <3>2 DEF PathFits
  <2>7. HistoryFrom(s, new) /\ MoneyKept(s, q)
    BY <2>4, <2>5 DEF Going, HistoryFrom, MoneyKept
  <2>8. Going(s, q, by)
    BY <2>3, <2>5, <2>6, <2>7 DEF Going
  <2> QED BY <2>2, <2>3, <2>4, <2>5, <2>8 DEF Due
<1> QED BY <1>5, <1>6

LEMMA V1DayIsDue ==
  ASSUME NEW s \in Subs, trading[s] \in Rows, CanonicalOK(s),
         NEW d, NEW p, NEW by, by.path = "V1",
         Due(s, d, p, by), p.go
  PROVE  Due(s, d + 1, V1Day(p, s, d, by), by)
<1> DEFINE events == canonical[s][d]
           row == p.row
           target == DayTarget(row, d)
           upTo == Cardinality(DOMAIN events)
           after == SlotsOf(p, s, d, upTo, target, by)
<1>1. /\ p \in Transactions /\ Going(s, p, by) /\ ~p.refused /\ row.next = d /\ Closed(row)
      /\ row \in Rows /\ RowOK(s, row) /\ row.status = "ACTIVE" /\ PathFits(row, by)
  BY DEF Due, Going, RowOK
<1>2. row.model = "V1" /\ d \in Days /\ d \in FirstDay(s) .. FinalDay(s)
  BY <1>1 DEF PathFits, Rows, RowOK, DaysInOrder
<1>3. PICK n \in 0 .. Slots : /\ DOMAIN events = 1 .. n /\ upTo = n /\ Contiguous(events)
  BY <1>2, DayIsContiguous
<1>4. target = GrossFor(NetThrough(s, d)) /\ ~ (target > LifetimeGross(s))
  BY <1>1, <1>2, DayTargetIs
<1>5. Len(row.trades[d]) \in Nat /\ DOMAIN row.trades[d] = 1 .. Len(row.trades[d])
  <2>1. row.trades[d] \in Seq(Trades)
    BY <1>1, <1>2 DEF Rows
  <2> QED BY <2>1, LenProperties
<1>6. Len(row.trades[d]) <= upTo
  <2>1. \A k \in DOMAIN row.trades[d] : row.trades[d][k].linked
    BY <1>1 DEF PathFits
  <2>2. 1 .. Len(row.trades[d]) \subseteq 1 .. n
    <3>1. SourcesMatch(s, row)
      BY <1>1 DEF RowOK
    <3>2. \A k \in DOMAIN row.trades[d] : k \in DOMAIN events
      BY <1>2, <2>1, <3>1 DEF SourcesMatch
    <3> QED BY <1>3, <1>5, <3>2
  <2> DEFINE m == Len(row.trades[d])
  <2>3. m \in Nat /\ 1 .. m \subseteq 1 .. n /\ n \in Nat
    BY <1>5, <2>2, Calendar
  <2> HIDE DEF m
  <2>4. m <= n
    BY <2>3
  <2> QED BY <1>3, <2>4 DEF m
<1>7. CASE DOMAIN events = {}
  <2>1. V1Day(p, s, d, by) = Stopped(p)
    BY <1>7 DEF V1Day
  <2> QED BY <1>1, <2>1, DueStops
<1>8. CASE DOMAIN events # {}
  <2>1. V1Day(p, s, d, by) = NextDay(after, d)
    <3>1. ~ (Len(row.trades[d]) > upTo)
      BY <1>3, <1>5, <1>6, Calendar, SMTT(20)
    <3> QED BY <1>3, <1>4, <1>8, <3>1 DEF V1Day
  <2>2. SlotsReady(s, d, upTo, target, by)
    BY <1>3, <1>4 DEF SlotsReady
  <2> HIDE DEF upTo, target
  <2>3. InDay(s, d, Most(Len(row.trades[d]), upTo), after, by)
    BY <1>1, <2>2, SlotsInDay
  <2> HIDE DEF after
  <2>4. /\ Going(s, after, by) /\ ~after.refused /\ after.row.next = d
        /\ (~after.go => Len(after.row.trades[d]) < Slots)
    BY <2>3 DEF InDay
  <2>5. after.row.model # "V2"
    BY <2>4 DEF Going, PathFits
  <2> QED BY <2>1, <2>4, <2>5, NextDayIsDue
<1> QED BY <1>7, <1>8

LEMMA LegacyDayIsDue ==
  ASSUME NEW s \in Subs, trading[s] \in Rows, CanonicalOK(s),
         NEW d, NEW p, NEW by, by.path = "LEGACY",
         Due(s, d, p, by), p.go
  PROVE  Due(s, d + 1, LegacyDay(p, s, d, by), by)
<1> DEFINE row == p.row
           target == DayTarget(row, d)
           after == SlotsOf(p, s, d, Slots, target, by)
<1>1. /\ p \in Transactions /\ Going(s, p, by) /\ ~p.refused /\ row.next = d
      /\ row \in Rows /\ RowOK(s, row) /\ PathFits(row, by)
  BY DEF Due, Going, RowOK
<1>2. row.model = "V1"
  BY <1>1 DEF PathFits, Rows
<1>3. target = GrossFor(NetThrough(s, d)) /\ ~ (target > LifetimeGross(s))
  BY <1>1, <1>2, DayTargetIs
<1>4. LegacyDay(p, s, d, by) = NextDay(after, d)
  BY <1>3 DEF LegacyDay
<1>5. SlotsReady(s, d, Slots, target, by)
  BY <1>3, Calendar DEF SlotsReady
<1> HIDE DEF target
<1>6. InDay(s, d, Most(Len(row.trades[d]), Slots), after, by)
  BY <1>1, <1>5, SlotsInDay
<1> HIDE DEF after
<1>7. /\ Going(s, after, by) /\ ~after.refused /\ after.row.next = d
      /\ (~after.go => Len(after.row.trades[d]) < Slots)
  BY <1>6 DEF InDay
<1>8. after.row.model # "V2"
  BY <1>7 DEF Going, PathFits
<1> QED BY <1>4, <1>7, <1>8, NextDayIsDue

\* A settled day of planned trades is worth what the plan is.
LEMMA PlannedDay ==
  ASSUME NEW s \in Subs, CanonicalOK(s), NEW row \in Rows, RowOK(s, row), row.model = "V2",
         NEW d \in Days, Len(row.trades[d]) = Slots,
         \A k \in DOMAIN canonical[s][d] : canonical[s][d][k].planned
  PROVE  Total(row.trades[d]) = SumFunction(Plan)
<1> DEFINE trades == row.trades[d]
<1>1. trades \in Seq(Trades)
  BY DEF Rows
<1>2. DOMAIN trades = 1 .. Slots
  BY <1>1, LenProperties
<1>3. \A k \in 1 .. Slots : trades[k].result = Plan[k]
  <2>1. SourcesMatch(s, row)
    BY DEF RowOK
  <2> HIDE DEF trades
  <2>2. ASSUME NEW k \in 1 .. Slots PROVE trades[k].result = Plan[k]
    <3>1. k \in DOMAIN canonical[s][d] /\ trades[k].result = canonical[s][d][k].result
      BY <1>2, <2>1 DEF SourcesMatch, trades
    <3>2. canonical[s][d][k].result = Plan[k]
      BY <3>1 DEF CanonicalOK
    <3> QED BY <3>1, <3>2
  <2> QED BY <2>2
<1>4. Plan = [k \in 1 .. Slots |-> Plan[k]]
  BY TradingAssumption DEF TradingAssumption
<1> HIDE DEF trades
<1>5. [k \in DOMAIN trades |-> trades[k].result] = [k \in 1 .. Slots |-> Plan[k]]
  BY <1>2, <1>3
<1> QED BY <1>4, <1>5 DEF Total, trades

\* A claim for a settled day keeps the row right.
LEMMA ClaimKeepsRow ==
  ASSUME NEW s \in Subs, NEW row \in Rows, RowOK(s, row), row.model = "V2",
         NEW d \in Days, Len(row.trades[d]) = Slots, row.claims[d].status = "NONE",
         NEW claim \in ClaimRows, claim.status = "PENDING", claim.gross = Total(row.trades[d]),
         claim.user \in 1 .. claim.gross
  PROVE  LET new == [row EXCEPT !.claims[d] = claim]
         IN /\ new \in Rows /\ RowOK(s, new) /\ new.claims[d] = claim
            /\ \A x \in Days : x # d => new.claims[x] = row.claims[x]
<1> DEFINE new == [row EXCEPT !.claims[d] = claim]
<1>1. DaysInOrder(s, row) /\ SourcesMatch(s, row) /\ ClaimsMatch(s, row) /\ SumsMatch(row)
  BY DEF RowOK
<1>2. /\ new \in Rows /\ new.next = row.next /\ new.model = row.model /\ new.status = row.status
      /\ new.trades = row.trades /\ new.credited = row.credited
      /\ new.claims = [row.claims EXCEPT ![d] = claim]
  BY DEF Rows
<1>3. new.claims[d] = claim /\ \A x \in Days : x # d => new.claims[x] = row.claims[x]
  BY <1>2 DEF Rows
<1> HIDE DEF new
<1>4. DaysInOrder(s, new) /\ SourcesMatch(s, new)
  BY <1>1, <1>2 DEF DaysInOrder, SourcesMatch
<1>5. ClaimsMatch(s, new)
  <2>1. ASSUME NEW x \in Days
        PROVE  LET c == new.claims[x]
               IN /\ new.model = "V1" => c.status = "NONE"
                  /\ c.status # "NONE" =>
                       /\ Len(new.trades[x]) = Slots
                       /\ c.gross = Total(new.trades[x])
                       /\ c.user \in 1 .. c.gross
                  /\ new.model = "V2" /\ x \in FirstDay(s) .. new.next - 1 => c.status # "NONE"
    <3>1. CASE x = d
      BY <1>2, <1>3, <3>1
    <3>2. CASE x # d
      BY <1>1, <1>2, <1>3, <3>2 DEF ClaimsMatch
    <3> QED BY <3>1, <3>2
  <2> QED BY <2>1 DEF ClaimsMatch
<1>6. SumsMatch(new)
  <2> DEFINE f == [x \in Days |-> IF row.claims[x].status = "CLAIMED"
                                    THEN row.claims[x].user ELSE 0]
             g == [x \in Days |-> IF new.claims[x].status = "CLAIMED"
                                    THEN new.claims[x].user ELSE 0]
  <2>1. \A x \in Days : f[x] = g[x]
    <3>1. ASSUME NEW x \in Days PROVE f[x] = g[x]
      <4>1. CASE x = d
        BY <1>3, <4>1
      <4>2. CASE x # d
        BY <1>3, <4>2
      <4> QED BY <4>1, <4>2
    <3> QED BY <3>1
  <2>2. f = g
    BY <2>1
  <2>3. ClaimedOf(row) = ClaimedOf(new)
    BY <2>2 DEF ClaimedOf
  <2>4. CreditedByTrades(row) = CreditedByTrades(new)
    BY <1>2 DEF CreditedByTrades
  <2> QED BY <1>1, <1>2, <2>3, <2>4 DEF SumsMatch
<1>7. RowOK(s, new)
  BY <1>2, <1>4, <1>5, <1>6 DEF RowOK
<1> QED BY <1>2, <1>3, <1>7 DEF new

\* What follows the slots of a V2 day: a settled day has its claim.
Claimed(s, d, p, by) ==
  /\ Going(s, p, by) /\ ~p.refused /\ p.row.next = d
  /\ ~p.go => Len(p.row.trades[d]) < Slots
  /\ p.go /\ Len(p.row.trades[d]) = Slots => p.row.claims[d].status # "NONE"

LEMMA ClaimableKeeps ==
  ASSUME NEW s \in Subs, trading[s] \in Rows, CanonicalOK(s),
         NEW d, NEW p, NEW by, by.path = "V2",
         Going(s, p, by), ~p.refused, p.row.next = d,
         ~p.go => Len(p.row.trades[d]) < Slots,
         \A k \in DOMAIN canonical[s][d] : canonical[s][d][k].planned
  PROVE  Claimed(s, d, Claimable(p, d), by)
<1> DEFINE row == p.row
           n == Len(row.trades[d])
           gross == Total(row.trades[d])
           claim == [status |-> "PENDING", gross |-> gross, user |-> Share(gross)]
<1>1. p \in Transactions /\ row \in Rows /\ RowOK(s, row) /\ d \in Days /\ PathFits(row, by)
  BY DEF Going, Transactions, Rows
<1>2. row.model = "V2"
  BY <1>1 DEF PathFits
<1>3. n \in Nat /\ n <= Slots /\ Slots \in Nat
  <2>1. row.trades[d] \in Seq(Trades)
    BY <1>1 DEF Rows
  <2>2. n \in Nat
    BY <2>1, LenProperties
  <2>3. n <= Slots
    BY <1>1 DEF RowOK, DaysInOrder
  <2> QED BY <2>2, <2>3, Calendar
<1>4. CASE ~p.go \/ n < Slots
  <2>1. Claimable(p, d) = p
    BY <1>4 DEF Claimable
  <2>2. n = Slots => ~p.go
    BY <1>3, <1>4
  <2> QED BY <2>1, <2>2 DEF Claimed
<1>5. CASE ~ (~p.go \/ n < Slots)
  <2>1. p.go /\ n = Slots
    BY <1>3, <1>5
  <2>2. gross = SumFunction(Plan)
    BY <1>1, <1>2, <2>1, PlannedDay
  <2>3. gross \in Int /\ gross > 0 /\ Share(gross) > 0
    <3>1. SumFunction(Plan) > 0 /\ Share(SumFunction(Plan)) > 0
      BY TradingAssumption DEF TradingAssumption
    <3>2. SumFunction(Plan) \in Int
      <4>1. Plan \in [1 .. Slots -> Int]
        BY TradingAssumption DEF TradingAssumption
      <4>2. IsFiniteSet(1 .. Slots)
        <5>1. Slots \in Int /\ 1 \in Int
          BY Calendar
        <5> QED BY <5>1, FS_Interval
      <4> QED BY <4>1, <4>2, TotalInt
    <3> HIDE DEF gross
    <3> QED BY <2>2, <3>1, <3>2
  <2> HIDE DEF gross
  <2>4. gross \in Nat /\ Share(gross) \in 1 .. gross
    <3>1. gross \in Nat
      BY <2>3
    <3> QED BY <2>3, <3>1, ShareParts
  <2>5. ~ (gross <= 0 \/ Share(gross) <= 0)
    BY <2>3, <2>4
  <2> DEFINE q == [p EXCEPT !.row.claims[d] = IF @.status = "NONE" THEN claim ELSE @]
  <2>6. Claimable(p, d) = q
    BY <1>5, <2>5 DEF Claimable, gross
  <2>7. CASE row.claims[d].status # "NONE"
    <3>1. q = p
      <4>1. p.row.claims = [p.row.claims EXCEPT ![d] = p.row.claims[d]]
        BY <1>1 DEF Rows
      <4>2. p.row = [p.row EXCEPT !.claims = p.row.claims]
        BY <1>1 DEF Rows
      <4>3. p = [p EXCEPT !.row = p.row]
        BY <1>1 DEF Transactions
      <4>4. q = [p EXCEPT !.row = [p.row EXCEPT !.claims = [p.row.claims EXCEPT ![d] = p.row.claims[d]]]]
        BY <2>7
      <4> QED BY <4>1, <4>2, <4>3, <4>4
    <3> QED BY <2>1, <2>6, <2>7, <3>1 DEF Claimed
  <2>8. CASE row.claims[d].status = "NONE"
    <3> DEFINE new == [row EXCEPT !.claims[d] = claim]
    <3>1. q = [p EXCEPT !.row = new]
      <4> HIDE DEF claim
      <4> QED BY <1>1, <2>8 DEF Transactions, Rows, ClaimRows
    <3>2. claim \in ClaimRows /\ claim.status = "PENDING" /\ claim.gross = gross
          /\ claim.user \in 1 .. claim.gross
      BY <2>3, <2>4 DEF ClaimRows
    <3> HIDE DEF claim, q
    <3>3. /\ new \in Rows /\ RowOK(s, new) /\ new.claims[d] = claim
          /\ \A x \in Days : x # d => new.claims[x] = row.claims[x]
      <4>1. Len(row.trades[d]) = Slots /\ claim.gross = Total(row.trades[d])
        BY <2>1, <3>2 DEF gross
      <4>2. claim \in ClaimRows /\ claim.status = "PENDING" /\ claim.user \in 1 .. claim.gross
        BY <3>2
      <4> HIDE DEF row
      <4> QED BY <1>1, <1>2, <2>8, <4>1, <4>2, ClaimKeepsRow
    <3>4. /\ new.next = row.next /\ new.model = row.model /\ new.trades = row.trades
          /\ new.credited = row.credited
      BY <1>1 DEF Rows
    <3> HIDE DEF new
    <3>5. /\ q.row = new /\ q.books = p.books /\ q.go = p.go /\ q.refused = p.refused
          /\ q \in Transactions
      BY <1>1, <3>1, <3>3 DEF Transactions
    <3>6. PathFits(new, by)
      BY <1>1, <3>4 DEF PathFits
    <3>7. HistoryFrom(s, new)
      <4>1. HistoryFrom(s, row)
        BY DEF Going
      <4>2. ASSUME NEW x \in Days, trading[s].claims[x].status # "NONE"
            PROVE  new.claims[x] = trading[s].claims[x]
        <5>1. row.claims[x] = trading[s].claims[x]
          BY <4>1, <4>2 DEF HistoryFrom
        <5>2. x # d
          BY <2>8, <4>2, <5>1
        <5> QED BY <3>3, <5>1, <5>2
      <4> QED BY <3>4, <4>1, <4>2 DEF HistoryFrom
    <3>8. MoneyKept(s, q)
      BY <3>4, <3>5 DEF Going, MoneyKept
    <3>9. Going(s, q, by)
      BY <3>3, <3>5, <3>6, <3>7, <3>8 DEF Going
    <3>10. q.row.claims[d].status # "NONE"
      BY <3>2, <3>3, <3>5
    <3> QED BY <2>1, <2>6, <3>4, <3>5, <3>9, <3>10 DEF Claimed
  <2> QED BY <2>7, <2>8
<1> QED BY <1>4, <1>5

LEMMA V2DayIsDue ==
  ASSUME NEW s \in Subs, trading[s] \in Rows, CanonicalOK(s),
         NEW d, NEW p, NEW by, by.path = "V2",
         Due(s, d, p, by), p.go
  PROVE  Due(s, d + 1, V2Day(p, s, d, by), by)
<1> DEFINE events == canonical[s][d]
           row == p.row
           upTo == Cardinality(DOMAIN events)
           slots == SlotsOf(p, s, d, upTo, 0, by)
           after == Claimable(slots, d)
<1>1. /\ p \in Transactions /\ Going(s, p, by) /\ ~p.refused /\ row.next = d /\ Closed(row)
      /\ row \in Rows /\ RowOK(s, row) /\ PathFits(row, by)
  BY DEF Due, Going, RowOK
<1>2. row.model = "V2" /\ d \in Days /\ d \in FirstDay(s) .. FinalDay(s)
  BY <1>1 DEF PathFits, Rows, RowOK, DaysInOrder
<1>3. PICK n \in 0 .. Slots : /\ DOMAIN events = 1 .. n /\ upTo = n /\ Contiguous(events)
  BY <1>2, DayIsContiguous
<1>4. Len(row.trades[d]) \in Nat /\ DOMAIN row.trades[d] = 1 .. Len(row.trades[d])
  <2>1. row.trades[d] \in Seq(Trades)
    BY <1>1, <1>2 DEF Rows
  <2> QED BY <2>1, LenProperties
<1>5. Len(row.trades[d]) <= upTo
  <2>1. \A k \in DOMAIN row.trades[d] : row.trades[d][k].linked
    BY <1>1 DEF PathFits
  <2>2. 1 .. Len(row.trades[d]) \subseteq 1 .. n
    <3>1. SourcesMatch(s, row)
      BY <1>1 DEF RowOK
    <3>2. \A k \in DOMAIN row.trades[d] : k \in DOMAIN events
      BY <1>2, <2>1, <3>1 DEF SourcesMatch
    <3> QED BY <1>3, <1>4, <3>2
  <2> DEFINE m == Len(row.trades[d])
  <2>3. m \in Nat /\ 1 .. m \subseteq 1 .. n /\ n \in Nat
    BY <1>4, <2>2, Calendar
  <2> HIDE DEF m
  <2>4. m <= n
    BY <2>3
  <2> QED BY <1>3, <2>4 DEF m
<1>6. CASE DOMAIN events = {}
  <2>1. V2Day(p, s, d, by) = Stopped(p)
    BY <1>6 DEF V2Day
  <2> QED BY <1>1, <2>1, DueStops
<1>7. CASE DOMAIN events # {} /\ \E k \in DOMAIN events : ~events[k].planned
  <2>1. V2Day(p, s, d, by) = Refused(p)
    BY <1>7 DEF V2Day
  <2>2. Unplanned(s)
    BY <1>2, <1>7 DEF Unplanned
  <2> QED BY <1>1, <2>1, <2>2, DueRefuses
<1>8. CASE DOMAIN events # {} /\ \A k \in DOMAIN events : events[k].planned
  <2>1. V2Day(p, s, d, by) = NextDay(after, d)
    <3>1. ~ (Len(row.trades[d]) > upTo)
      BY <1>3, <1>4, <1>5, Calendar, SMTT(20)
    <3> QED BY <1>3, <1>8, <3>1 DEF V2Day
  <2>2. SlotsReady(s, d, upTo, 0, by)
    BY <1>3 DEF SlotsReady
  <2> HIDE DEF upTo
  <2>3. InDay(s, d, Most(Len(row.trades[d]), upTo), slots, by)
    BY <1>1, <2>2, SlotsInDay
  <2> HIDE DEF slots
  <2>4. /\ Going(s, slots, by) /\ ~slots.refused /\ slots.row.next = d
        /\ (~slots.go => Len(slots.row.trades[d]) < Slots)
    BY <2>3 DEF InDay
  <2>5. Claimed(s, d, after, by)
    BY <1>8, <2>4, ClaimableKeeps
  <2> HIDE DEF after
  <2> QED BY <2>1, <2>5, NextDayIsDue DEF Claimed
<1> QED BY <1>6, <1>7, <1>8

LEMMA OneDayIsDue ==
  ASSUME NEW s \in Subs, trading[s] \in Rows, CanonicalOK(s), NEW d, NEW p, NEW by,
         Due(s, d, p, by), p.go
  PROVE  Due(s, d + 1, OneDay(p, s, d, by), by)
<1>1. PathFits(p.row, by)
  BY DEF Due, Going
<1> QED BY <1>1, V1DayIsDue, V2DayIsDue, LegacyDayIsDue DEF PathFits, OneDay
-----------------------------------------------------------------------------
(* The loop over the days that are due.                                     *)

\* run is the loop's recursive function, from the day before from to hi.
IsDayRun(run, s, by, from, hi) ==
  run = [d \in from - 1 .. hi |->
           IF d < from THEN Begun(s)
           ELSE IF run[d - 1].go THEN OneDay(run[d - 1], s, d, by) ELSE run[d - 1]]

LEMMA DayRunExists ==
  ASSUME NEW s, NEW by, NEW from \in Nat, NEW m \in Nat
  PROVE  \E run : IsDayRun(run, s, by, from, (from - 1) + m)
<1> DEFINE lo == from - 1
           Is(run, j) == IsDayRun(run, s, by, from, lo + j)
           Bad == {j \in 0 .. m : ~ \E run : Is(run, j)}
<1>1. SUFFICES ASSUME Bad # {} PROVE FALSE
  <2>1. m \in 0 .. m
    OBVIOUS
  <2> QED BY <2>1
<1>2. PICK j \in Bad : \A i \in 0 .. (j - 1) : i \notin Bad
  <2> HIDE DEF Bad
  <2>1. Bad \in SUBSET (0 .. m)
    BY DEF Bad
  <2> QED BY <1>1, <2>1, SmallestNumber
<1>3. j \in 0 .. m /\ ~ \E run : Is(run, j)
  OBVIOUS
<1> DEFINE After(before, d) == IF before.go THEN OneDay(before, s, d, by) ELSE before
<1>4. CASE j = 0
  <2> DEFINE run == [d \in lo .. lo |-> Begun(s)]
  <2>1. \A d \in lo .. lo : d < from
    OBVIOUS
  <2>2. run = [d \in lo .. lo |-> IF d < from THEN Begun(s) ELSE After(run[d - 1], d)]
    <3> HIDE DEF After
    <3> QED BY <2>1
  <2>3. lo + j = lo
    BY <1>4
  <2> HIDE DEF run
  <2>4. Is(run, j)
    BY <2>2, <2>3 DEF IsDayRun
  <2> QED BY <1>3, <2>4
<1>5. CASE j # 0
  <2>1. j - 1 \in 0 .. (j - 1) /\ j - 1 \in 0 .. m
    BY <1>3, <1>5
  <2>2. PICK low : Is(low, j - 1)
    BY <1>2, <2>1
  <2> HIDE DEF After
  <2> DEFINE run == [d \in lo .. lo + j |->
                       IF d < from THEN Begun(s) ELSE After(low[d - 1], d)]
  <2>3. low = [d \in lo .. lo + (j - 1) |->
                 IF d < from THEN Begun(s) ELSE After(low[d - 1], d)]
    BY <2>2 DEF IsDayRun, After
  <2>4. ASSUME NEW d \in lo .. lo + (j - 1) PROVE run[d] = low[d]
    <3>1. d \in lo .. lo + j
      BY <1>3
    <3> QED BY <2>3, <3>1
  <2>5. \A d \in lo .. lo + j : ~(d < from) => run[d - 1] = low[d - 1]
    <3>1. \A d \in lo .. lo + j : ~(d < from) => d - 1 \in lo .. lo + (j - 1)
      BY <1>3
    <3> HIDE DEF run, lo
    <3> QED BY <2>4, <3>1
  <2>6. run = [d \in lo .. lo + j |-> IF d < from THEN Begun(s) ELSE After(run[d - 1], d)]
    BY <2>5
  <2> HIDE DEF run
  <2>7. Is(run, j)
    BY <2>6 DEF IsDayRun, After
  <2> QED BY <1>3, <2>7
<1> QED BY <1>4, <1>5

\* A reconciliation begins with the row as it is.
LEMMA BegunIsDue ==
  ASSUME NEW s \in Subs, NEW by, trading[s] \in Rows, RowOK(s, trading[s]), Closed(trading[s]),
         trading[s].status = "ACTIVE", books \in Accounts,
         books.expense = books.earnings + books.profit, PathFits(trading[s], by)
  PROVE  Due(s, trading[s].next, Begun(s), by)
<1> DEFINE p == Begun(s)
<1>1. /\ p.row = trading[s] /\ p.books = books /\ p.go = TRUE /\ p.refused = FALSE
      /\ p \in Transactions
  BY DEF Begun, Transactions
<1> HIDE DEF p
<1>2. HistoryFrom(s, p.row)
  <2>1. \A d \in Days : Begins(trading[s].trades[d], trading[s].trades[d])
    <3>1. ASSUME NEW d \in Days PROVE Begins(trading[s].trades[d], trading[s].trades[d])
      <4>1. trading[s].trades[d] \in Seq(Trades)
        BY DEF Rows
      <4>2. Len(trading[s].trades[d]) \in Nat
        BY <4>1, LenProperties
      <4> QED BY <4>2 DEF Begins
    <3> QED BY <3>1
  <2> QED BY <1>1, <2>1 DEF HistoryFrom
<1>3. MoneyKept(s, p)
  BY <1>1 DEF MoneyKept
<1>4. Going(s, p, by)
  BY <1>1, <1>2, <1>3 DEF Going
<1> QED BY <1>1, <1>4 DEF Due, p

\* A reconciliation ends with a row that is right and closed, and with the
\* same money on both sides, or it is refused.
LEMMA DaysDueAreDone ==
  ASSUME NEW s \in Subs, NEW by, CanonicalOK(s), now \in Nat,
         trading[s] \in Rows, RowOK(s, trading[s]), Closed(trading[s]),
         trading[s].status = "ACTIVE", books \in Accounts,
         books.expense = books.earnings + books.profit, PathFits(trading[s], by)
  PROVE  Going(s, DaysDue(s, by), by) /\ (DaysDue(s, by).refused \/ Closed(DaysDue(s, by).row))
<1> DEFINE from == trading[s].next
           through == Least(Day(now), FinalDay(s))
           lo == from - 1
           hi == Most(lo, through)
           m == hi - lo
           run == CHOOSE run : IsDayRun(run, s, by, from, hi)
<1>1. from \in Nat /\ lo \in Nat
  <2>1. from \in FirstDay(s) .. FinalDay(s)
    BY DEF RowOK, DaysInOrder
  <2> HIDE DEF from
  <2> QED BY <2>1, Calendar
<1>2. through \in Int
  <2>1. Day(now) \in Int /\ FinalDay(s) \in Int
    BY Calendar, DivBounds DEF Day
  <2> QED BY <2>1 DEF Least
<1>3. m \in Nat /\ hi \in Nat /\ lo + m = hi /\ lo <= hi
  <2> HIDE DEF lo, through
  <2> QED BY <1>1, <1>2 DEF Most
<1>4. DaysDue(s, by) = run[hi]
  BY DEF DaysDue, IsDayRun
<1>5. IsDayRun(run, s, by, from, hi)
  <2>1. \E r : IsDayRun(r, s, by, from, (from - 1) + m)
    <3> HIDE DEF m, from
    <3> QED BY <1>1, <1>3, DayRunExists
  <2>2. (from - 1) + m = hi
    BY <1>3
  <2> HIDE DEF hi, m, from
  <2> QED BY <2>1, <2>2
<1> HIDE DEF run
<1> DEFINE Bad == {j \in 0 .. m : ~ Due(s, from + j, run[lo + j], by)}
<1>6. Bad = {}
  <2> SUFFICES ASSUME Bad # {} PROVE FALSE
    OBVIOUS
  <2>1. PICK j \in Bad : \A i \in 0 .. (j - 1) : i \notin Bad
    <3> HIDE DEF Bad
    <3>1. Bad \in SUBSET (0 .. m)
      BY DEF Bad
    <3> HIDE DEF m
    <3> QED BY <1>3, <3>1, SmallestNumber
  <2>2. j \in 0 .. m /\ ~ Due(s, from + j, run[lo + j], by)
    OBVIOUS
  <2> HIDE DEF m, hi, Bad
  <2>3. CASE j = 0
    <3>1. lo + j = lo /\ from + j = from /\ lo \in from - 1 .. hi /\ lo < from
      <4> HIDE DEF from
      <4> QED BY <1>1, <1>3, <2>3
    <3>2. run[lo] = Begun(s)
      <4> HIDE DEF from
      <4> QED BY <1>5, <3>1 DEF IsDayRun
    <3>3. Due(s, from, Begun(s), by)
      BY BegunIsDue
    <3> HIDE DEF from, lo
    <3> QED BY <2>2, <3>1, <3>2, <3>3
  <2>4. CASE j # 0
    <3> DEFINE d == lo + j
    <3>1. /\ j - 1 \in 0 .. (j - 1) /\ j - 1 \in 0 .. m /\ lo + (j - 1) = d - 1
          /\ from + (j - 1) = d /\ from + j = d + 1
          /\ d \in from - 1 .. hi /\ ~ (d < from) /\ d \in Nat
      <4> HIDE DEF from
      <4> QED BY <1>1, <1>3, <2>2, <2>4
    <3>2. Due(s, d, run[d - 1], by)
      <4>1. Due(s, from + (j - 1), run[lo + (j - 1)], by)
        BY <2>1, <3>1 DEF Bad
      <4> HIDE DEF d, from, lo
      <4> QED BY <3>1, <4>1
    <3>3. run[d] = IF run[d - 1].go THEN OneDay(run[d - 1], s, d, by) ELSE run[d - 1]
      <4> HIDE DEF d, from
      <4> QED BY <1>5, <3>1 DEF IsDayRun
    <3>4. ~ Due(s, d + 1, run[d], by)
      <4> HIDE DEF from
      <4> QED BY <2>2, <3>1
    <3> HIDE DEF d, from, lo
    <3>5. CASE ~ run[d - 1].go
      BY <3>2, <3>3, <3>4, <3>5 DEF Due
    <3>6. CASE run[d - 1].go
      <4> DEFINE before == run[d - 1]
      <4>1. Due(s, d, before, by) /\ before.go
        BY <3>2, <3>6
      <4> HIDE DEF before
      <4>2. Due(s, d + 1, OneDay(before, s, d, by), by)
        BY <4>1, OneDayIsDue
      <4> QED BY <3>3, <3>4, <3>6, <4>2 DEF before
    <3> QED BY <3>5, <3>6
  <2> QED BY <2>3, <2>4
<1>7. Due(s, from + m, run[lo + m], by)
  <2> HIDE DEF m, from, lo
  <2>1. m \in 0 .. m
    BY <1>3
  <2> QED BY <1>6, <2>1
<1> HIDE DEF m, hi, from, lo
<1> QED BY <1>3, <1>4, <1>7 DEF Due
-----------------------------------------------------------------------------
(* The canonical trades.                                                    *)

CanonicalInv ==
  /\ DOMAIN canonical = Subs
  /\ \A s \in Subs : DOMAIN canonical[s] = Days /\ CanonicalOK(s)

CanonicalKept ==
  \A s \in Subs, d \in Days : \A k \in DOMAIN canonical[s][d] :
    k \in DOMAIN canonical'[s][d] /\ canonical'[s][d][k] = canonical[s][d][k]

\* What is not written stays as it was.
LEMMA NothingWritten ==
  ASSUME CanonicalInv, UNCHANGED canonical
  PROVE  CanonicalInv' /\ CanonicalKept
<1>1. ASSUME NEW s \in Subs PROVE CanonicalOK(s)'
  <2>1. CanonicalOK(s) /\ canonical' = canonical
    BY DEF CanonicalInv
  <2> QED BY <2>1, SMTT(20) DEF CanonicalOK
<1>2. CanonicalInv'
  BY <1>1 DEF CanonicalInv
<1>3. CanonicalKept
  BY DEF CanonicalKept
<1> QED BY <1>2, <1>3

\* Events that may be written: of slots, without a gap, as planned.
Writable(s, d, events) ==
  /\ \E ks \in SUBSET (1 .. Slots) : events \in [ks -> Events]
  /\ \A k \in DOMAIN events :
       /\ events[k].planned => events[k].result = Plan[k]
       /\ d \in FirstDay(s) .. FinalDay(s) =>
            1 .. k \subseteq DOMAIN canonical[s][d] \cup DOMAIN events

LEMMA WriteKeeps ==
  ASSUME CanonicalInv, NEW s \in Subs, NEW d \in Days, NEW events, Writable(s, d, events),
         Write(s, d, events)
  PROVE  CanonicalInv' /\ CanonicalKept
<1> DEFINE old == canonical[s][d]
           new == [k \in DOMAIN old \cup DOMAIN events |->
                     IF k \in DOMAIN old THEN old[k] ELSE events[k]]
<1>1. /\ DOMAIN canonical' = Subs
      /\ \A x \in Subs : DOMAIN canonical'[x] = Days
      /\ canonical'[s][d] = new
      /\ \A x \in Subs, e \in Days : x # s \/ e # d => canonical'[x][e] = canonical[x][e]
  <2>1. canonical' = [canonical EXCEPT ![s][d] = new]
    BY DEF Write
  <2> HIDE DEF new
  <2> QED BY <2>1 DEF CanonicalInv
<1>2. CanonicalOK(s)
  BY DEF CanonicalInv
<1>3. /\ DOMAIN new = DOMAIN old \cup DOMAIN events
      /\ \A k \in DOMAIN old : new[k] = old[k]
      /\ \A k \in DOMAIN events : k \notin DOMAIN old => new[k] = events[k]
  OBVIOUS
<1>4. /\ DOMAIN old \subseteq 1 .. Slots /\ \A k \in DOMAIN old : old[k] \in Events
      /\ DOMAIN events \subseteq 1 .. Slots /\ \A k \in DOMAIN events : events[k] \in Events
  <2>1. PICK ks \in SUBSET (1 .. Slots) : old \in [ks -> Events]
    BY <1>2 DEF CanonicalOK
  <2>2. PICK js \in SUBSET (1 .. Slots) : events \in [js -> Events]
    BY DEF Writable
  <2> HIDE DEF old
  <2> QED BY <2>1, <2>2
<1>5. \E ks \in SUBSET (1 .. Slots) : new \in [ks -> Events]
  <2>1. new \in [DOMAIN old \cup DOMAIN events -> Events]
    <3> HIDE DEF old
    <3> QED BY <1>4
  <2>2. DOMAIN old \cup DOMAIN events \in SUBSET (1 .. Slots)
    BY <1>4
  <2> HIDE DEF new, old
  <2> QED BY <2>1, <2>2
<1>6. ASSUME NEW k \in DOMAIN new
      PROVE  /\ new[k].planned => new[k].result = Plan[k]
             /\ d \in FirstDay(s) .. FinalDay(s) => 1 .. k \subseteq DOMAIN new
  <2> HIDE DEF new
  <2>1. CASE k \in DOMAIN old
    BY <1>2, <1>3, <2>1 DEF CanonicalOK
  <2>2. CASE k \notin DOMAIN old
    <3>1. k \in DOMAIN events /\ new[k] = events[k]
      BY <1>3, <1>6, <2>2
    <3> QED BY <1>3, <3>1 DEF Writable
  <2> QED BY <2>1, <2>2
<1> HIDE DEF new
<1>7. ASSUME NEW x \in Subs
      PROVE  CanonicalOK(x)'
  <2>1. ASSUME NEW e \in Days
        PROVE  /\ \E ks \in SUBSET (1 .. Slots) : canonical'[x][e] \in [ks -> Events]
               /\ \A k \in DOMAIN canonical'[x][e] :
                    /\ canonical'[x][e][k].planned => canonical'[x][e][k].result = Plan[k]
                    /\ e \in FirstDay(x) .. FinalDay(x) => 1 .. k \subseteq DOMAIN canonical'[x][e]
    <3>1. CASE x = s /\ e = d
      BY <1>1, <1>5, <1>6, <3>1
    <3>2. CASE ~ (x = s /\ e = d)
      <4>1. canonical'[x][e] = canonical[x][e]
        BY <1>1, <3>2
      <4>2. CanonicalOK(x)
        BY DEF CanonicalInv
      <4> QED BY <4>1, <4>2 DEF CanonicalOK
    <3> QED BY <3>1, <3>2
  <2> QED BY <2>1 DEF CanonicalOK
<1>8. CanonicalKept
  <2>1. ASSUME NEW x \in Subs, NEW e \in Days, NEW k \in DOMAIN canonical[x][e]
        PROVE  k \in DOMAIN canonical'[x][e] /\ canonical'[x][e][k] = canonical[x][e][k]
    <3>1. CASE x = s /\ e = d
      BY <1>1, <1>3, <3>1
    <3>2. CASE ~ (x = s /\ e = d)
      BY <1>1, <3>2
    <3> QED BY <3>1, <3>2
  <2> QED BY <2>1 DEF CanonicalKept
<1> QED BY <1>1, <1>7, <1>8 DEF CanonicalInv

\* The slots of a trading day follow one another, and none comes before the
\* activity of the package starts.
LEMMA SlotsInOrder ==
  ASSUME NEW s \in Subs, NEW d \in FirstDay(s) .. FinalDay(s), NEW k \in 1 .. Slots,
         NEW j \in 1 .. k
  PROVE  /\ j \in 1 .. Slots /\ SlotTime(d, j) \in Nat /\ SlotTime(d, k) \in Nat
         /\ SlotTime(d, j) <= SlotTime(d, k)
         /\ ActivityStart(s) \in Nat /\ ActivityStart(s) <= SlotTime(d, j)
<1>1. /\ Slots \in Nat /\ DayLength \in Nat /\ DayLength > 0 /\ d \in Nat /\ FirstDay(s) \in Nat
      /\ FirstDay(s) = ActivationDay(s) + 1 /\ ActivationDay(s) \in Nat /\ d >= FirstDay(s)
      /\ ActivatedAt[s] \in Nat /\ DOMAIN SlotAt = 1 .. Slots
      /\ \A i \in 1 .. Slots : SlotAt[i] \in 0 .. DayLength - 1
  BY Calendar
<1>2. j \in 1 .. Slots /\ k \in Nat /\ j \in Nat
  BY <1>1
<1>3. SlotAt[j] \in Nat /\ SlotAt[k] \in Nat /\ SlotAt[j] <= SlotAt[k]
  <2>1. SlotAt[j] \in Nat /\ SlotAt[k] \in Nat
    BY <1>1, <1>2
  <2>2. j = k \/ j < k
    BY <1>2
  <2>3. j < k => SlotAt[j] < SlotAt[k]
    <3>1. \A a, b \in DOMAIN SlotAt : a < b => SlotAt[a] < SlotAt[b]
      BY TradingAssumption DEF TradingAssumption
    <3> QED BY <1>1, <1>2, <3>1
  <2> QED BY <2>1, <2>2, <2>3
<1>4. d * DayLength \in Nat /\ FirstDay(s) * DayLength \in Nat
      /\ FirstDay(s) * DayLength <= d * DayLength
  <2>1. PICK e \in Nat : d = FirstDay(s) + e
    <3>1. d - FirstDay(s) \in Nat /\ d = FirstDay(s) + (d - FirstDay(s))
      BY <1>1
    <3> QED BY <3>1
  <2>2. d * DayLength = FirstDay(s) * DayLength + e * DayLength /\ e * DayLength \in Nat
        /\ FirstDay(s) * DayLength \in Nat
    <3>1. \A a, b, c \in Nat : /\ (a + b) * c = a * c + b * c
                              /\ b * c \in Nat /\ a * c \in Nat
      OBVIOUS
    <3> QED BY <1>1, <2>1, <3>1
  <2> QED BY <2>2
<1>5. ActivatedAt[s] < FirstDay(s) * DayLength
  <2>1. ActivatedAt[s] < DayLength * ActivationDay(s) + DayLength
    BY <1>1, DivBounds DEF ActivationDay, Day
  <2>2. FirstDay(s) * DayLength = DayLength * ActivationDay(s) + DayLength
    <3>1. \A a, b \in Nat : (a + 1) * b = b * a + b
      OBVIOUS
    <3> QED BY <1>1, <3>1
  <2>3. DayLength * ActivationDay(s) \in Nat
    BY <1>1
  <2> QED BY <1>1, <2>1, <2>2, <2>3
<1>6. ActivityStart(s) \in Nat /\ ActivityStart(s) <= FirstDay(s) * DayLength
  BY <1>1, <1>4, <1>5 DEF ActivityStart
<1> DEFINE start == FirstDay(s) * DayLength
           base == d * DayLength
<1> HIDE DEF start, base
<1>7. SlotTime(d, j) = base + SlotAt[j] /\ SlotTime(d, k) = base + SlotAt[k]
      /\ base \in Nat /\ start \in Nat /\ start <= base /\ ActivityStart(s) <= start
  BY <1>4, <1>6 DEF SlotTime, base, start
<1> QED BY <1>2, <1>3, <1>6, <1>7

\* What the generator writes, planned or drawn, for slots that are due.
LEMMA EventsAreWritable ==
  ASSUME CanonicalInv, NEW s \in Subs, NEW d \in Days, NEW ks \in SUBSET (1 .. Slots),
         d \in FirstDay(s) .. FinalDay(s) =>
           \A k \in ks : 1 .. k \subseteq DOMAIN canonical[s][d] \cup ks
  PROVE  /\ Writable(s, d, Planned(ks))
         /\ \A drawn \in Drawn(ks) : Writable(s, d, drawn)
<1>1. Plan \in [1 .. Slots -> Int] /\ Results \subseteq Int
  BY TradingAssumption DEF TradingAssumption
<1>2. Writable(s, d, Planned(ks))
  <2> DEFINE events == Planned(ks)
  <2>1. events \in [ks -> Events] /\ DOMAIN events = ks
        /\ \A k \in ks : events[k].result = Plan[k]
    BY <1>1 DEF Planned, Events
  <2> HIDE DEF events
  <2>2. \E js \in SUBSET (1 .. Slots) : events \in [js -> Events]
    BY <2>1
  <2>3. \A k \in DOMAIN events : events[k].planned => events[k].result = Plan[k]
    BY <2>1
  <2>4. d \in FirstDay(s) .. FinalDay(s) =>
          \A k \in DOMAIN events : 1 .. k \subseteq DOMAIN canonical[s][d] \cup DOMAIN events
    BY <2>1
  <2> QED BY <2>2, <2>3, <2>4 DEF Writable, events
<1>3. ASSUME NEW drawn \in Drawn(ks) PROVE Writable(s, d, drawn)
  <2>1. PICK raw \in [ks -> Results] :
          drawn = [k \in ks |-> [result |-> raw[k], planned |-> FALSE]]
    BY DEF Drawn
  <2>2. drawn \in [ks -> Events] /\ DOMAIN drawn = ks /\ \A k \in ks : ~drawn[k].planned
    BY <1>1, <2>1 DEF Events
  <2> QED BY <2>2 DEF Writable
<1> QED BY <1>2, <1>3

\* The slots of today that are due and not written leave no gap.
LEMMA DueLeaveNoGap ==
  ASSUME CanonicalInv, NEW s \in Subs, NEW asOf \in Nat, Day(asOf) \in Days
  PROVE  LET d == Day(asOf)
             ks == DueSlots(s, asOf)
         IN /\ ks \in SUBSET (1 .. Slots)
            /\ d \in FirstDay(s) .. FinalDay(s) =>
                 \A k \in ks : 1 .. k \subseteq DOMAIN canonical[s][d] \cup ks
<1> DEFINE d == Day(asOf)
           ks == DueSlots(s, asOf)
<1>1. DOMAIN SlotAt = 1 .. Slots
  BY Calendar
<1>2. ks \in SUBSET (1 .. Slots)
  BY <1>1 DEF DueSlots
<1>3. ASSUME d \in FirstDay(s) .. FinalDay(s), NEW k \in ks, NEW j \in 1 .. k,
             j \notin DOMAIN canonical[s][d]
      PROVE  j \in ks
  <2>1. SlotTime(d, k) \in ActivityStart(s) .. asOf /\ k \in 1 .. Slots
    BY <1>1 DEF DueSlots
  <2>2. /\ j \in 1 .. Slots /\ SlotTime(d, j) \in Nat /\ SlotTime(d, k) \in Nat
        /\ SlotTime(d, j) <= SlotTime(d, k)
        /\ ActivityStart(s) \in Nat /\ ActivityStart(s) <= SlotTime(d, j)
    BY <1>3, <2>1, SlotsInOrder
  <2>3. SlotTime(d, j) \in ActivityStart(s) .. asOf
    BY <2>1, <2>2
  <2> QED BY <1>1, <1>3, <2>2, <2>3 DEF DueSlots
<1> HIDE DEF d, ks
<1> QED BY <1>2, <1>3 DEF d, ks

LEMMA MissingLeaveNoGap ==
  ASSUME CanonicalInv, NEW s \in Subs, NEW asOf \in Nat
  PROVE  LET d == FinalDay(s)
             ks == MissingSlots(s, asOf)
         IN /\ d \in Days /\ ks \in SUBSET (1 .. Slots)
            /\ \A k \in ks : 1 .. k \subseteq DOMAIN canonical[s][d] \cup ks
<1> DEFINE d == FinalDay(s)
           ks == MissingSlots(s, asOf)
<1>1. DOMAIN SlotAt = 1 .. Slots
  BY Calendar
<1>2. ks \in SUBSET (1 .. Slots)
  BY <1>1 DEF MissingSlots
<1>3. d \in FirstDay(s) .. FinalDay(s) /\ d \in Days
  BY Calendar, DaysFinite, SMTT(20)
<1>4. ASSUME NEW k \in ks, NEW j \in 1 .. k, j \notin DOMAIN canonical[s][d]
      PROVE  j \in ks
  <2>1. SlotTime(d, k) <= asOf /\ k \in 1 .. Slots
    BY <1>1 DEF MissingSlots
  <2>2. /\ j \in 1 .. Slots /\ SlotTime(d, j) \in Nat /\ SlotTime(d, k) \in Nat
        /\ SlotTime(d, j) <= SlotTime(d, k)
    BY <1>3, <2>1, SlotsInOrder
  <2>3. SlotTime(d, j) <= asOf
    BY <2>1, <2>2
  <2> QED BY <1>1, <1>4, <2>2, <2>3 DEF MissingSlots
<1> HIDE DEF d, ks
<1> QED BY <1>2, <1>3, <1>4 DEF d, ks

\* Serving a package only adds canonical trades.
LEMMA ProcessKeeps ==
  ASSUME CanonicalInv, NEW s \in Subs, NEW asOf \in Nat, Day(asOf) \in Days,
         ProcessSubscription(s, asOf)
  PROVE  CanonicalInv' /\ CanonicalKept
<1> DEFINE d == Day(asOf)
           ks == DueSlots(s, asOf)
<1>1. CASE UNCHANGED canonical
  BY <1>1, NothingWritten
<1>2. ks \in SUBSET (1 .. Slots)
      /\ (d \in FirstDay(s) .. FinalDay(s) =>
            \A k \in ks : 1 .. k \subseteq DOMAIN canonical[s][d] \cup ks)
  BY DueLeaveNoGap
<1>3. /\ Writable(s, d, Planned(ks))
      /\ \A drawn \in Drawn(ks) : Writable(s, d, drawn)
  <2> HIDE DEF d, ks
  <2>1. d \in Days
    BY DEF d
  <2> QED BY <1>2, <2>1, EventsAreWritable
<1>4. CASE Write(s, d, Planned(ks))
  <2> HIDE DEF ks
  <2> QED BY <1>3, <1>4, WriteKeeps
<1>5. ASSUME NEW drawn \in Drawn(ks), Write(s, d, drawn)
      PROVE  CanonicalInv' /\ CanonicalKept
  <2> HIDE DEF ks
  <2> QED BY <1>3, <1>5, WriteKeeps
<1> QED BY <1>1, <1>4, <1>5 DEF ProcessSubscription

\* So does the recovery of the next slot of a final day.
LEMMA RecoveryKeeps ==
  ASSUME CanonicalInv, NEW s \in Subs, NEW asOf \in Nat, NEW k \in MissingSlots(s, asOf),
         \A j \in MissingSlots(s, asOf) : k <= j,
         NEW drawn \in Drawn({k}), Write(s, FinalDay(s), drawn)
  PROVE  CanonicalInv' /\ CanonicalKept
<1> DEFINE d == FinalDay(s)
           missing == MissingSlots(s, asOf)
           ks == {k}
<1>1. /\ d \in Days /\ missing \in SUBSET (1 .. Slots)
      /\ \A j \in missing : 1 .. j \subseteq DOMAIN canonical[s][d] \cup missing
  BY MissingLeaveNoGap
<1>2. ks \in SUBSET (1 .. Slots) /\ 1 .. k \subseteq DOMAIN canonical[s][d] \cup ks
  <2>1. k \in 1 .. Slots /\ k \in missing /\ \A j \in missing : k <= j
    BY <1>1
  <2> HIDE DEF d, missing
  <2>2. ASSUME NEW j \in 1 .. k, j \notin DOMAIN canonical[s][d] PROVE j = k
    <3>1. j \in missing
      BY <1>1, <2>1, <2>2
    <3> QED BY <2>1, <3>1
  <2> QED BY <2>1, <2>2
<1>3. Writable(s, d, drawn)
  <2> HIDE DEF d
  <2>1. drawn \in Drawn(ks)
    OBVIOUS
  <2>2. \A j \in ks : 1 .. j \subseteq DOMAIN canonical[s][d] \cup ks
    BY <1>2
  <2> HIDE DEF ks
  <2> QED BY <1>1, <1>2, <2>1, <2>2, EventsAreWritable
<1> QED BY <1>1, <1>3, WriteKeeps
-----------------------------------------------------------------------------
(* Steps.                                                                   *)

\* What a step of a package leaves alone.
Others == <<now, model, enabledDays, abroad, generator>>

\* A right row stays right when canonical trades are added.
LEMMA RowStays ==
  ASSUME CanonicalKept, NEW s \in Subs, NEW row, RowOK(s, row), trading'[s] = row
  PROVE  RowOK(s, trading[s])'
<1>1. row \in Rows /\ DaysInOrder(s, row) /\ SourcesMatch(s, row) /\ ClaimsMatch(s, row)
      /\ SumsMatch(row) /\ (row.model = "V1" => EarnedSoFar(s, row))
  BY DEF RowOK
<1>2. SourcesMatch(s, trading[s])'
  BY <1>1 DEF SourcesMatch, CanonicalKept
<1>3. /\ trading'[s] \in Rows /\ DaysInOrder(s, trading'[s]) /\ ClaimsMatch(s, trading'[s])
      /\ SumsMatch(trading'[s]) /\ (trading'[s].model = "V1" => EarnedSoFar(s, trading'[s]))
  BY <1>1
<1> QED BY <1>2, <1>3 DEF RowOK

\* Only canonical trades are added.
LEMMA AddingKeeps ==
  ASSUME TradingInv, CanonicalInv', CanonicalKept, Outside', UNCHANGED <<trading, books>>
  PROVE  TradingInv'
<1>1. trading \in [Subs -> Rows \cup {NotInitialized}]
      /\ \A s \in Subs : Initialized(s) => RowOK(s, trading[s]) /\ Closed(trading[s])
  BY DEF TradingInv
<1>2. ASSUME NEW s \in Subs, Initialized(s)'
      PROVE  RowOK(s, trading[s])' /\ Closed(trading[s])'
  <2>1. Initialized(s)
    BY <1>2 DEF Initialized
  <2>2. RowOK(s, trading[s])'
    BY <1>1, <2>1, RowStays
  <2>3. Closed(trading'[s])
    BY <1>1, <2>1
  <2> QED BY <2>2, <2>3
<1>3. BooksMatch'
  <2>1. BooksMatch
    BY DEF TradingInv
  <2>2. CreditedTo' = CreditedTo
    BY DEF CreditedTo, Initialized
  <2> QED BY <2>1, <2>2 DEF BooksMatch
<1> QED BY <1>1, <1>2, <1>3 DEF TradingInv, CanonicalInv

\* One row changes, and the balances with it.
LEMMA RowChange ==
  ASSUME TradingInv, NEW s \in Subs, NEW row, row \in Rows, RowOK(s, row), Closed(row),
         trading' = [trading EXCEPT ![s] = row],
         books' \in Accounts, books'.expense = books'.earnings + books'.profit,
         books'.earnings - row.credited = books.earnings - CreditedTo[s],
         UNCHANGED <<Others, canonical>>
  PROVE  TradingInv'
<1>1. /\ trading \in [Subs -> Rows \cup {NotInitialized}]
      /\ \A x \in Subs : Initialized(x) => RowOK(x, trading[x]) /\ Closed(trading[x])
      /\ BooksMatch
  BY DEF TradingInv
<1>2. /\ trading'[s] = row /\ \A x \in Subs : x # s => trading'[x] = trading[x]
      /\ trading' \in [Subs -> Rows \cup {NotInitialized}]
  BY <1>1
<1>3. CanonicalKept
  BY DEF CanonicalKept
<1>4. ASSUME NEW x \in Subs, Initialized(x)'
      PROVE  RowOK(x, trading[x])' /\ Closed(trading[x])'
  <2>1. CASE x = s
    <3>1. RowOK(s, trading[s])'
      BY <1>2, <1>3, RowStays
    <3>2. Closed(trading'[s])
      BY <1>2
    <3> QED BY <2>1, <3>1, <3>2
  <2>2. CASE x # s
    <3>1. Initialized(x)
      BY <1>2, <1>4, <2>2 DEF Initialized
    <3>2. RowOK(x, trading[x]) /\ Closed(trading[x]) /\ trading'[x] = trading[x]
      BY <1>1, <1>2, <2>2, <3>1
    <3>3. RowOK(x, trading[x])'
      BY <1>3, <3>2, RowStays
    <3>4. Closed(trading'[x])
      BY <3>2
    <3> QED BY <3>3, <3>4
  <2> QED BY <2>1, <2>2
<1>5. BooksMatch'
  <2> DEFINE f == CreditedTo
             g == [x \in Subs |-> IF trading'[x].status # "NONE" THEN trading'[x].credited ELSE 0]
  <2>1. CreditedTo' = g
    BY DEF CreditedTo, Initialized
  <2>2. f \in [Subs -> Int]
    <3>1. \A x \in Subs : Initialized(x) => trading[x].credited \in Int
      BY <1>1 DEF RowOK, Rows
    <3> QED BY <3>1 DEF CreditedTo
  <2>3. row.credited \in Int /\ row.status # "NONE"
    BY DEF Rows
  <2>4. g[s] = row.credited /\ \A x \in Subs \ {s} : g[x] = f[x]
    BY <1>2, <2>3 DEF CreditedTo, Initialized
  <2>5. g \in [Subs -> Int]
    <3>1. \A x \in Subs : g[x] \in Int
      BY <2>2, <2>3, <2>4
    <3> HIDE DEF f
    <3> QED BY <3>1
  <2> HIDE DEF f, g
  <2>6. IsFiniteSet(Subs)
    BY TradingAssumption DEF TradingAssumption
  <2>7. SumFunction(g) = SumFunction(f) + g[s] - f[s]
    BY <2>2, <2>4, <2>5, <2>6, TotalChange
  <2>8. SumFunction(f) \in Int /\ f[s] \in Int
    BY <2>2, <2>6, TotalInt
  <2>9. books.earnings = SumFunction(f)
    BY <1>1 DEF BooksMatch, f
  <2>10. books'.earnings = SumFunction(g)
    <3>1. books'.earnings \in Int
      BY DEF Accounts
    <3> QED BY <2>3, <2>4, <2>7, <2>8, <2>9, <3>1 DEF f
  <2> QED BY <2>1, <2>10 DEF BooksMatch
<1>6. Outside' /\ CanonicalInv'
  <2>1. CanonicalInv /\ Outside /\ UNCHANGED canonical
    BY DEF TradingInv, CanonicalInv
  <2>2. CanonicalInv'
    BY <2>1, NothingWritten
  <2> QED BY <2>1, <2>2 DEF Outside, Others
<1> QED BY <1>2, <1>4, <1>5, <1>6 DEF TradingInv, CanonicalInv

\* The target of nothing is nothing.
LEMMA NoGross == GrossFor(0) = 0
<1>1. UserShare \in Nat /\ UserShare > 0
  BY ShareRate
<1>2. 2 * UserShare \in Nat /\ 2 * UserShare > 0 /\ 0 <= UserShare /\ UserShare < 2 * UserShare
  BY <1>1
<1>3. UserShare \div (2 * UserShare) = 0
  BY <1>1, <1>2, DivUnique
<1>4. GrossFor(0) = HalfUp(0 * 100, UserShare)
  BY GrossIs
<1>5. 2 * (0 * 100) + UserShare = UserShare
  BY <1>1
<1> QED BY <1>3, <1>4, <1>5 DEF HalfUp

\* A row begins right.
LEMMA FreshIsRight ==
  ASSUME NEW s \in Subs, model[s] \in {"V1", "V2"}
  PROVE  /\ FreshRow(s) \in Rows /\ RowOK(s, FreshRow(s)) /\ Closed(FreshRow(s))
         /\ FreshRow(s).credited = 0 /\ FreshRow(s).next = FirstDay(s)
         /\ FreshRow(s).model = model[s] /\ \A d \in Days : FreshRow(s).trades[d] = <<>>
         /\ FreshRow(s).progress = 0
<1> DEFINE row == FreshRow(s)
           first == FirstDay(s)
<1>1. /\ first \in Nat /\ FinalDay(s) \in Nat /\ first <= FinalDay(s) /\ first \in Days
      /\ first \in first .. FinalDay(s) /\ first - 1 = ActivationDay(s)
      /\ ActivationDay(s) \in ActivationDay(s) .. FinalDay(s)
      /\ first \in ActivationDay(s) .. FinalDay(s)
      /\ Slots \in Nat /\ Slots >= 1
  BY Calendar, DaysFinite
<1> HIDE DEF first
<1>2. /\ row.model = model[s] /\ row.status = "ACTIVE" /\ row.next = first
      /\ row.progress = 0 /\ row.high = 0 /\ row.credited = 0 /\ row.recognized = 0
      /\ row.trades = NoTrades /\ row.claims = [d \in Days |-> NoClaim]
  BY DEF FreshRow, first
<1>3. /\ \A d \in Days : row.trades[d] = <<>>
      /\ \A d \in Days : row.claims[d] = NoClaim /\ row.claims[d].status = "NONE"
  BY <1>2 DEF NoTrades, NoClaim
<1>4. row \in Rows
  <2>1. NoTrades \in [Days -> Seq(Trades)] /\ [d \in Days |-> NoClaim] \in [Days -> ClaimRows]
    BY DEF NoTrades, NoClaim, ClaimRows
  <2> QED BY <1>1, <2>1 DEF FreshRow, Rows, first
<1> HIDE DEF row
<1>5. DaysInOrder(s, row)
  BY <1>1, <1>2, <1>3 DEF DaysInOrder, first
<1>6. SourcesMatch(s, row) /\ ClaimsMatch(s, row)
  <2>1. \A d \in Days : DOMAIN row.trades[d] = {}
    BY <1>3
  <2>2. \A d \in Days : d \notin first .. first - 1
    BY <1>1, DaysFinite
  <2> QED BY <1>2, <1>3, <2>1, <2>2 DEF SourcesMatch, ClaimsMatch, first
<1>7. SumsMatch(row)
  <2> DEFINE zero == [d \in Days |-> 0]
  <2>1. [d \in Days |-> UserTotal(row.trades[d])] = zero
    BY <1>3, NoTradeAtAll
  <2>2. [d \in Days |-> IF row.claims[d].status = "CLAIMED" THEN row.claims[d].user ELSE 0] = zero
    BY <1>3
  <2>3. SumFunction(zero) = 0
    <3>1. IsFiniteSet(Days)
      BY DaysFinite
    <3> QED BY <3>1, TotalZero
  <2> HIDE DEF zero
  <2> QED BY <1>2, <2>1, <2>2, <2>3 DEF SumsMatch, CreditedByTrades, ClaimedOf
<1>8. EarnedSoFar(s, row)
  <2>1. NetThrough(s, first - 1) = 0
    BY <1>1, NetStarts
  <2>2. GrossFor(NetThrough(s, first - 1)) = 0 /\ Share(0) = 0
    <3>1. Share(GrossFor(0)) = 0
      BY GrossIs
    <3> QED BY <2>1, <3>1, NoGross
  <2> DEFINE target == GrossFor(NetThrough(s, first))
  <2>3. target \in Nat /\ 0 < target
    <3>1. ActivationDay(s) < first
      BY <1>1, Calendar
    <3>2. GrossFor(NetThrough(s, ActivationDay(s))) < target /\ target \in Nat
      BY <1>1, <3>1, TargetsGrow
    <3> QED BY <1>1, <2>2, <3>2
  <2> HIDE DEF target
  <2>4. row.trades[first] = <<>> /\ UserTotal(row.trades[first]) = 0 /\ Len(row.trades[first]) = 0
    BY <1>1, <1>3, NoTradeAtAll
  <2> QED BY <1>1, <1>2, <2>1, <2>2, <2>3, <2>4 DEF EarnedSoFar, target, Most
<1>9. RowOK(s, row)
  BY <1>4, <1>5, <1>6, <1>7, <1>8 DEF RowOK
<1>10. Closed(row)
  BY <1>1, <1>2, <1>3 DEF Closed
<1> QED BY <1>2, <1>3, <1>4, <1>9, <1>10 DEF row, first

LEMMA InitializeKeeps ==
  ASSUME TradingInv, NEW s \in Subs, InitializeLifecycle(s)
  PROVE  TradingInv'
<1>1. model[s] \in {"V1", "V2"}
  <2>1. Models \subseteq {"V1", "V2"}
    BY TradingAssumption DEF TradingAssumption
  <2> QED BY <2>1 DEF TradingInv, Outside
<1> DEFINE row == FreshRow(s)
<1>2. row \in Rows /\ RowOK(s, row) /\ Closed(row) /\ row.credited = 0
  BY <1>1, FreshIsRight
<1>3. trading' = [trading EXCEPT ![s] = row] /\ UNCHANGED <<Others, canonical, books>>
      /\ CreditedTo[s] = 0
  BY DEF InitializeLifecycle, Others, outside, CreditedTo
<1> HIDE DEF row
<1>4. BooksMatch
  BY DEF TradingInv
<1>5. /\ books' \in Accounts /\ books'.expense = books'.earnings + books'.profit
      /\ books'.earnings - row.credited = books.earnings - CreditedTo[s]
  BY <1>2, <1>3, <1>4 DEF BooksMatch
<1> QED BY <1>2, <1>3, <1>5, RowChange

\* What a reconciliation that begins with an active package takes for granted.
LEMMA BeginsOnPath ==
  ASSUME NEW s \in Subs, trading[s] \in Rows, RowOK(s, trading[s])
  PROVE  /\ trading[s].model = "V2" => PathFits(trading[s], [path |-> "V2"])
         /\ trading[s].model = "V1" /\ ~BegunWithoutSource(s) /\ ~BegunBothWays(s) =>
              PathFits(trading[s], [path |-> "V1"])
         /\ trading[s].model = "V1" /\ BegunWithoutSource(s) =>
              \A raws \in [1 .. Slots -> Results] :
                PathFits(trading[s], [path |-> "LEGACY", raws |-> raws])
<1> DEFINE row == trading[s]
           trades == row.trades[row.next]
<1>1. trades \in Seq(Trades) /\ row.next \in Days
  BY DEF Rows
<1>2. \A k \in DOMAIN trades : trades[k].linked \in BOOLEAN
  <2> HIDE DEF trades
  <2>1. DOMAIN trades = 1 .. Len(trades)
    BY <1>1, LenProperties
  <2>2. \A k \in DOMAIN trades : trades[k] \in Trades
    BY <1>1, <2>1, ElementOfSeq
  <2> QED BY <2>2 DEF Trades
<1>3. ASSUME row.model = "V2" PROVE PathFits(row, [path |-> "V2"])
  <2>1. \A k \in DOMAIN trades : trades[k].linked = TRUE
    BY <1>1, <1>2, <1>3 DEF RowOK, SourcesMatch
  <2> QED BY <1>3, <2>1 DEF PathFits
<1>4. ASSUME row.model = "V1", ~BegunWithoutSource(s), ~BegunBothWays(s)
      PROVE  PathFits(row, [path |-> "V1"])
  <2>1. \A k \in DOMAIN trades : trades[k].linked = TRUE
    <3>1. SUFFICES ASSUME NEW k \in DOMAIN trades, ~trades[k].linked PROVE FALSE
      BY <1>2
    <3>2. \A j \in DOMAIN trades : ~trades[j].linked
      BY <1>4, <3>1 DEF BegunBothWays
    <3>3. trades # <<>>
      BY <3>1
    <3> QED BY <1>4, <3>2, <3>3 DEF BegunWithoutSource
  <2> QED BY <1>4, <2>1 DEF PathFits
<1>5. ASSUME row.model = "V1", BegunWithoutSource(s), NEW raws \in [1 .. Slots -> Results]
      PROVE  PathFits(row, [path |-> "LEGACY", raws |-> raws])
  <2>1. \A k \in DOMAIN trades : trades[k].linked = FALSE
    BY <1>2, <1>5 DEF BegunWithoutSource
  <2> QED BY <1>5, <2>1 DEF PathFits
<1> QED BY <1>3, <1>4, <1>5

\* A reconciliation of an active package, on whichever path.
LEMMA OutcomeIs ==
  ASSUME TradingInv, NEW s \in Subs, Initialized(s), trading[s].status = "ACTIVE",
         NEW by, PathFits(trading[s], by)
  PROVE  /\ Going(s, DaysDue(s, by), by)
         /\ DaysDue(s, by).refused \/ Closed(DaysDue(s, by).row)
<1>1. /\ CanonicalOK(s) /\ now \in Nat /\ RowOK(s, trading[s]) /\ Closed(trading[s])
      /\ books \in Accounts /\ books.expense = books.earnings + books.profit
  BY DEF TradingInv, Outside, BooksMatch
<1>2. trading[s] \in Rows
  BY <1>1 DEF RowOK
<1> QED BY <1>1, <1>2, DaysDueAreDone

LEMMA CommitKeeps ==
  ASSUME TradingInv, NEW s \in Subs, Initialized(s), trading[s].status = "ACTIVE",
         NEW by, PathFits(trading[s], by), Commit(s, DaysDue(s, by))
  PROVE  TradingInv' /\ HistoryFrom(s, trading'[s]) /\ trading'[s] \in Rows
<1> DEFINE p == DaysDue(s, by)
<1>1. Going(s, p, by) /\ (p.refused \/ Closed(p.row))
  BY OutcomeIs
<1>2. /\ ~p.refused /\ trading' = [trading EXCEPT ![s] = p.row] /\ books' = p.books
      /\ UNCHANGED <<Others, canonical>>
  BY DEF Commit, Others, outside
<1> HIDE DEF p
<1>3. /\ p.row \in Rows /\ RowOK(s, p.row) /\ Closed(p.row) /\ p.books \in Accounts
      /\ HistoryFrom(s, p.row) /\ MoneyKept(s, p)
  BY <1>1, <1>2 DEF Going, Transactions
<1>4. CreditedTo[s] = trading[s].credited
  BY DEF CreditedTo
<1>5. /\ books' \in Accounts /\ books'.expense = books'.earnings + books'.profit
      /\ books'.earnings - p.row.credited = books.earnings - CreditedTo[s]
  BY <1>2, <1>3, <1>4 DEF MoneyKept
<1> DEFINE row == p.row
<1>6. row \in Rows /\ RowOK(s, row) /\ Closed(row) /\ trading' = [trading EXCEPT ![s] = row]
      /\ books'.earnings - row.credited = books.earnings - CreditedTo[s]
  BY <1>2, <1>3, <1>5
<1> HIDE DEF row
<1>7. TradingInv'
  BY <1>2, <1>5, <1>6, RowChange
<1>8. trading'[s] = p.row
  BY <1>2 DEF TradingInv
<1> QED BY <1>3, <1>7, <1>8

LEMMA ReconcileKeeps ==
  ASSUME TradingInv, NEW s \in Subs, Reconcile(s)
  PROVE  TradingInv' /\ HistoryFrom(s, trading'[s]) /\ trading'[s] \in Rows
<1>1. Initialized(s) /\ trading[s].status = "ACTIVE"
  BY DEF Reconcile, ReconcileV2, ReconcileCanonical, ReconcileLegacy
<1>2. RowOK(s, trading[s]) /\ trading[s] \in Rows
  BY <1>1 DEF TradingInv, RowOK
<1>3. CASE ReconcileV2(s)
  <2>1. PathFits(trading[s], [path |-> "V2"]) /\ Commit(s, DaysDue(s, [path |-> "V2"]))
    BY <1>2, <1>3, BeginsOnPath DEF ReconcileV2, V2Outcome
  <2> QED BY <1>1, <2>1, CommitKeeps
<1>4. CASE ReconcileCanonical(s)
  <2>1. PathFits(trading[s], [path |-> "V1"]) /\ Commit(s, DaysDue(s, [path |-> "V1"]))
    BY <1>2, <1>4, BeginsOnPath DEF ReconcileCanonical, V1Outcome
  <2> QED BY <1>1, <2>1, CommitKeeps
<1>5. CASE ReconcileLegacy(s)
  <2>1. PICK raws \in [1 .. Slots -> Results] : Commit(s, LegacyOutcome(s, raws))
    BY <1>5 DEF ReconcileLegacy
  <2> DEFINE by == [path |-> "LEGACY", raws |-> raws]
  <2>2. PathFits(trading[s], by)
    BY <1>2, <1>5, BeginsOnPath DEF ReconcileLegacy
  <2>3. Commit(s, DaysDue(s, by))
    BY <2>1 DEF LegacyOutcome
  <2> HIDE DEF by
  <2> QED BY <1>1, <2>2, <2>3, CommitKeeps
<1> QED BY <1>3, <1>4, <1>5 DEF Reconcile

\* The row after its owner took the claim of day d.
Taken(row, d) ==
  [row EXCEPT !.claims[d].status = "CLAIMED",
              !.credited = @ + row.claims[d].user,
              !.recognized = @ + (row.claims[d].gross - row.claims[d].user)]

LEMMA TakenFields ==
  ASSUME NEW row \in Rows, NEW d \in Days,
         row.claims[d].user \in Nat, row.claims[d].gross - row.claims[d].user \in Nat
  PROVE  LET new == Taken(row, d)
         IN /\ new \in Rows /\ new.next = row.next /\ new.model = row.model
            /\ new.status = row.status /\ new.trades = row.trades
            /\ new.credited = row.credited + row.claims[d].user
            /\ new.claims[d].status = "CLAIMED" /\ new.claims[d].gross = row.claims[d].gross
            /\ new.claims[d].user = row.claims[d].user
            /\ \A x \in Days : x # d => new.claims[x] = row.claims[x]
<1> DEFINE claim == row.claims[d]
           user == claim.user
           admin == claim.gross - claim.user
           taken == [claim EXCEPT !.status = "CLAIMED"]
           claims == [row.claims EXCEPT ![d] = taken]
           new == [row EXCEPT !.claims = claims, !.credited = @ + user, !.recognized = @ + admin]
<1>1. row.claims \in [Days -> ClaimRows] /\ claim \in ClaimRows
      /\ row.credited \in Nat /\ row.recognized \in Nat
  BY DEF Rows
<1>2. /\ taken \in ClaimRows /\ taken.status = "CLAIMED" /\ taken.gross = claim.gross
      /\ taken.user = claim.user
  <2> HIDE DEF claim
  <2> QED BY <1>1 DEF ClaimRows
<1>3. Taken(row, d) = new
  BY DEF Taken, Rows
<1> HIDE DEF taken
<1>4. /\ claims \in [Days -> ClaimRows] /\ claims[d] = taken
      /\ \A x \in Days : x # d => claims[x] = row.claims[x]
  BY <1>1, <1>2
<1> HIDE DEF claims
<1>5. row.credited + user \in Nat /\ row.recognized + admin \in Nat
  <2>1. user \in Nat /\ admin \in Nat
    OBVIOUS
  <2> HIDE DEF user, admin
  <2> QED BY <1>1, <2>1
<1>6. /\ new \in Rows /\ new.next = row.next /\ new.model = row.model
      /\ new.status = row.status /\ new.trades = row.trades
      /\ new.credited = row.credited + user /\ new.claims = claims
  <2> HIDE DEF user, admin
  <2> QED BY <1>4, <1>5 DEF Rows
<1> HIDE DEF new
<1> QED BY <1>2, <1>3, <1>4, <1>6

\* Taking a claim keeps the row right.
LEMMA TakenKeepsRow ==
  ASSUME NEW s \in Subs, NEW row \in Rows, RowOK(s, row), Closed(row), row.model = "V2",
         NEW d \in Days, row.claims[d].status = "PENDING"
  PROVE  /\ row.claims[d].user \in Nat /\ row.claims[d].gross - row.claims[d].user \in Nat
         /\ RowOK(s, Taken(row, d)) /\ Closed(Taken(row, d))
<1> DEFINE user == row.claims[d].user
           new == Taken(row, d)
<1>1. DaysInOrder(s, row) /\ SourcesMatch(s, row) /\ ClaimsMatch(s, row) /\ SumsMatch(row)
  BY DEF RowOK
<1>2. user \in Nat /\ row.claims[d].gross - user \in Nat
  <2>1. user \in 1 .. row.claims[d].gross /\ user \in Int /\ row.claims[d].gross \in Int
    BY <1>1 DEF ClaimsMatch, Rows, ClaimRows
  <2> QED BY <2>1
<1>3. /\ new \in Rows /\ new.next = row.next /\ new.model = row.model
      /\ new.status = row.status /\ new.trades = row.trades
      /\ new.credited = row.credited + user
      /\ new.claims[d].status = "CLAIMED" /\ new.claims[d].gross = row.claims[d].gross
      /\ new.claims[d].user = user
      /\ \A x \in Days : x # d => new.claims[x] = row.claims[x]
  BY <1>2, TakenFields
<1> HIDE DEF new
<1>4. DaysInOrder(s, new) /\ SourcesMatch(s, new)
  BY <1>1, <1>3 DEF DaysInOrder, SourcesMatch
<1>5. ClaimsMatch(s, new)
  <2>1. ASSUME NEW x \in Days
        PROVE  LET claim == new.claims[x]
               IN /\ new.model = "V1" => claim.status = "NONE"
                  /\ claim.status # "NONE" =>
                       /\ Len(new.trades[x]) = Slots
                       /\ claim.gross = Total(new.trades[x])
                       /\ claim.user \in 1 .. claim.gross
                  /\ new.model = "V2" /\ x \in FirstDay(s) .. new.next - 1 => claim.status # "NONE"
    <3>1. CASE x = d
      BY <1>1, <1>3, <3>1 DEF ClaimsMatch
    <3>2. CASE x # d
      BY <1>1, <1>3, <3>2 DEF ClaimsMatch
    <3> QED BY <3>1, <3>2
  <2> QED BY <2>1 DEF ClaimsMatch
<1>6. SumsMatch(new)
  <2> DEFINE f == [x \in Days |-> IF row.claims[x].status = "CLAIMED"
                                    THEN row.claims[x].user ELSE 0]
             g == [x \in Days |-> IF new.claims[x].status = "CLAIMED"
                                    THEN new.claims[x].user ELSE 0]
  <2>1. f \in [Days -> Int] /\ g \in [Days -> Int]
    BY <1>3, SMTT(20) DEF Rows, ClaimRows
  <2>2. f[d] = 0 /\ g[d] = user /\ \A x \in Days \ {d} : g[x] = f[x]
    BY <1>3
  <2>3. ClaimedOf(row) = SumFunction(f) /\ ClaimedOf(new) = SumFunction(g)
        /\ CreditedByTrades(new) = CreditedByTrades(row)
    BY <1>3 DEF ClaimedOf, CreditedByTrades
  <2>4. IsFiniteSet(Days)
    BY DaysFinite
  <2> HIDE DEF f, g
  <2>5. SumFunction(g) = SumFunction(f) + g[d] - f[d] /\ SumFunction(f) \in Int
    BY <2>1, <2>2, <2>4, TotalChange, TotalInt
  <2>6. CreditedByTrades(row) \in Int
    <3> DEFINE h == [x \in Days |-> UserTotal(row.trades[x])]
    <3>1. \A x \in Days : UserTotal(row.trades[x]) \in Int
      <4>1. [result |-> 0, user |-> 0, linked |-> TRUE] \in Trades
        BY DEF Trades
      <4>2. \A x \in Days : row.trades[x] \in Seq(Trades)
        BY DEF Rows
      <4> QED BY <4>1, <4>2, OneTradeMore
    <3>2. h \in [Days -> Int]
      BY <3>1
    <3>3. CreditedByTrades(row) = SumFunction(h)
      BY DEF CreditedByTrades
    <3> HIDE DEF h
    <3> QED BY <2>4, <3>2, <3>3, TotalInt
  <2>7. row.credited = CreditedByTrades(row) + ClaimedOf(row)
    BY <1>1 DEF SumsMatch
  <2>8. new.credited = CreditedByTrades(row) + SumFunction(g)
    BY <1>2, <1>3, <2>2, <2>3, <2>5, <2>6, <2>7
  <2> QED BY <2>3, <2>8 DEF SumsMatch
<1>7. RowOK(s, new)
  BY <1>3, <1>4, <1>5, <1>6 DEF RowOK
<1>8. Closed(new)
  <2>1. row.next \in Days
    BY DEF Rows
  <2> QED BY <1>3, <2>1 DEF Closed
<1> QED BY <1>2, <1>7, <1>8 DEF new

LEMMA ClaimKeeps ==
  ASSUME TradingInv, NEW s \in Subs, NEW d \in Days, Claim(s, d)
  PROVE  TradingInv' /\ trading'[s] = Taken(trading[s], d)
<1> DEFINE row == trading[s]
           claim == row.claims[d]
           admin == claim.gross - claim.user
           new == Taken(row, d)
<1>1. /\ Initialized(s) /\ row.model = "V2" /\ claim.status = "PENDING"
      /\ trading' = [trading EXCEPT ![s].claims[d].status = "CLAIMED",
                                    ![s].credited = @ + claim.user,
                                    ![s].recognized = @ + admin]
      /\ books' = PostSettlement(books, claim.user, admin)
      /\ UNCHANGED <<Others, canonical>>
  BY DEF Claim, Others, outside
<1>2. /\ trading \in [Subs -> Rows \cup {NotInitialized}] /\ row \in Rows
      /\ RowOK(s, row) /\ Closed(row) /\ BooksMatch
  BY <1>1 DEF TradingInv, RowOK
<1>3. trading' = [trading EXCEPT ![s] = new]
  BY <1>1, <1>2 DEF Taken
<1>4. claim.user \in Nat /\ admin \in Nat /\ RowOK(s, new) /\ Closed(new)
  BY <1>1, <1>2, TakenKeepsRow
<1>5. new \in Rows /\ new.credited = row.credited + claim.user /\ row.credited \in Nat
  <2>1. row.credited \in Nat
    BY <1>2 DEF Rows
  <2>2. row.claims[d].user \in Nat /\ row.claims[d].gross - row.claims[d].user \in Nat
    BY <1>4
  <2> HIDE DEF row
  <2> QED BY <1>2, <2>1, <2>2, TakenFields
<1>6. CreditedTo[s] = row.credited
  BY <1>1 DEF CreditedTo
<1>7. /\ books' \in Accounts /\ books'.expense = books'.earnings + books'.profit
      /\ books'.earnings - new.credited = books.earnings - CreditedTo[s]
  <2> DEFINE user == claim.user
  <2> HIDE DEF user, admin
  <2>1. user \in Nat /\ admin \in Nat
    BY <1>4 DEF user
  <2>2. /\ books.expense \in Nat /\ books.earnings \in Nat /\ books.profit \in Nat
        /\ books.expense = books.earnings + books.profit
    BY <1>2 DEF BooksMatch, Accounts
  <2>3. books' = [expense |-> books.expense + user + admin, earnings |-> books.earnings + user,
                  profit |-> books.profit + admin]
    BY <1>1 DEF PostSettlement, user
  <2>4. new.credited = row.credited + user
    BY <1>5 DEF user
  <2> HIDE DEF new, row
  <2> QED BY <1>5, <1>6, <2>1, <2>2, <2>3, <2>4 DEF Accounts
<1>8. trading'[s] = new
  BY <1>2, <1>3
<1> HIDE DEF new
<1> QED BY <1>1, <1>3, <1>4, <1>5, <1>7, <1>8, RowChange DEF new

\* The generator, the administrator and the clock.
LEMMA BatchesAreOfPackages ==
  ASSUME NEW t \in Nat
  PROVE  /\ \A todo \in Batch(t) : todo \in Seq(Subs)
         /\ \A todo \in RecoveryBatch(t) : todo \in Seq(Subs)
<1>1. ASSUME NEW S \in SUBSET Subs, NEW q \in SetToSeqs(S)
      PROVE  SubSeq(q, 1, Least(BatchLimit, Cardinality(S))) \in Seq(Subs)
  <2> DEFINE n == Cardinality(S)
             m == Least(BatchLimit, n)
  <2>1. n \in Nat
    <3>1. IsFiniteSet(Subs)
      BY TradingAssumption DEF TradingAssumption
    <3>2. IsFiniteSet(S)
      BY <3>1, FS_Subset
    <3> QED BY <3>2, FS_CardinalityType
  <2>2. q \in [1 .. n -> S]
    BY DEF SetToSeqs
  <2>3. BatchLimit \in Nat
    BY TradingAssumption DEF TradingAssumption
  <2> HIDE DEF n
  <2>4. m \in Nat /\ m <= n
    BY <2>1, <2>3 DEF Least
  <2> HIDE DEF m
  <2>5. \A i \in 1 .. m : q[i] \in Subs
    BY <2>1, <2>2, <2>4
  <2>6. SubSeq(q, 1, m) = [i \in 1 .. m |-> q[i]]
    BY <2>4
  <2>7. SubSeq(q, 1, m) \in Seq(Subs)
    BY <2>4, <2>5, <2>6
  <2> QED BY <2>7 DEF m, n
<1>2. ASSUME NEW todo \in Batch(t) PROVE todo \in Seq(Subs)
  <2>1. CASE Day(t) \notin enabledDays
    BY <1>2, <2>1 DEF Batch
  <2>2. CASE Day(t) \in enabledDays
    <3> DEFINE S == {s \in Subs : Listed(s, t)}
    <3>1. \E q \in SetToSeqs(S) : todo = SubSeq(q, 1, Least(BatchLimit, Cardinality(S)))
      BY <1>2, <2>2 DEF Batch, FirstOf
    <3>2. S \in SUBSET Subs
      OBVIOUS
    <3> HIDE DEF S
    <3> QED BY <1>1, <3>1, <3>2
  <2> QED BY <2>1, <2>2
<1>3. ASSUME NEW todo \in RecoveryBatch(t) PROVE todo \in Seq(Subs)
  <2> DEFINE S == {s \in Subs : /\ Initialized(s) /\ trading[s].status = "ACTIVE"
                                /\ trading[s].next = FinalDay(s) /\ EndsAt(s) <= t}
  <2>1. \E q \in SetToSeqs(S) : todo = SubSeq(q, 1, Least(BatchLimit, Cardinality(S)))
    BY <1>3 DEF RecoveryBatch, FirstOf
  <2>2. S \in SUBSET Subs
    OBVIOUS
  <2> HIDE DEF S
  <2> QED BY <1>1, <2>1, <2>2
<1> QED BY <1>2, <1>3

LEMMA PassSteps ==
  ASSUME TradingInv,
         \/ StartPass \/ ProcessNext \/ StartRecovery \/ RecoverNext \/ FinishPass \/ CrashPass
  PROVE  TradingInv' /\ CanonicalKept /\ UNCHANGED trading
<1>1. /\ Outside /\ CanonicalInv /\ now \in Nat /\ Day(now) \in Days
      /\ generator \in Passes /\ Day(generator.asOf) \in Days
      /\ generator.asOf \in Nat /\ generator.todo \in Seq(Subs)
  BY DEF TradingInv, CanonicalInv, Outside, Passes
<1>2. ASSUME CanonicalInv', CanonicalKept, generator' \in Passes, Day(generator'.asOf) \in Days,
             UNCHANGED <<now, trading, books, outside>>
      PROVE  TradingInv' /\ CanonicalKept /\ UNCHANGED trading
  <2>1. Outside'
    BY <1>1, <1>2 DEF Outside, outside
  <2> QED BY <1>2, <2>1, AddingKeeps
<1>3. ASSUME UNCHANGED canonical PROVE CanonicalInv' /\ CanonicalKept
  BY <1>1, <1>3, NothingWritten
<1>4. Idle \in Passes /\ Day(Idle.asOf) \in Days
  <2>1. Day(0) \in Days
    <3>1. MaxTime \in Nat
      BY Calendar
    <3> QED BY <3>1, DayOf
  <2> QED BY <2>1 DEF Idle, Passes
<1>5. generator.todo # <<>> =>
        Head(generator.todo) \in Subs /\ Tail(generator.todo) \in Seq(Subs)
  BY <1>1, HeadTailProperties
<1>6. generator.todo # <<>> =>
        LET rest == [generator EXCEPT !.todo = Tail(@)]
        IN rest \in Passes /\ Day(rest.asOf) \in Days
  BY <1>1, <1>5 DEF Passes
<1>7. CASE StartPass
  <2>1. PICK todo \in Batch(now) : generator' = [phase |-> "BATCH", asOf |-> now, todo |-> todo]
    BY <1>7 DEF StartPass
  <2>2. todo \in Seq(Subs)
    BY <1>1, BatchesAreOfPackages
  <2>3. generator' \in Passes /\ Day(generator'.asOf) \in Days
    BY <1>1, <2>1, <2>2 DEF Passes
  <2> QED BY <1>2, <1>3, <1>7, <2>3 DEF StartPass
<1>8. CASE StartRecovery
  <2>1. PICK todo \in RecoveryBatch(now) :
          generator' = [phase |-> "RECOVERY", asOf |-> now, todo |-> todo]
    BY <1>8 DEF StartRecovery
  <2>2. todo \in Seq(Subs)
    BY <1>1, BatchesAreOfPackages
  <2>3. generator' \in Passes /\ Day(generator'.asOf) \in Days
    BY <1>1, <2>1, <2>2 DEF Passes
  <2> QED BY <1>2, <1>3, <1>8, <2>3 DEF StartRecovery
<1>9. CASE ProcessNext
  <2> DEFINE s == Head(generator.todo)
             asOf == generator.asOf
  <2>1. s \in Subs /\ asOf \in Nat /\ Day(asOf) \in Days /\ generator.todo # <<>>
        /\ UNCHANGED <<now, trading, books, outside>>
    BY <1>1, <1>5, <1>9 DEF ProcessNext
  <2>2. CASE ProcessSubscription(s, asOf) /\ generator' = [generator EXCEPT !.todo = Tail(@)]
    <3>1. CanonicalInv' /\ CanonicalKept
      <4> HIDE DEF s, asOf
      <4> QED BY <1>1, <2>1, <2>2, ProcessKeeps
    <3> QED BY <1>2, <1>6, <2>1, <2>2, <3>1
  <2>3. CASE generator' = Idle /\ UNCHANGED canonical
    BY <1>2, <1>3, <1>4, <2>1, <2>3
  <2> QED BY <1>9, <2>2, <2>3 DEF ProcessNext
<1>10. CASE RecoverNext
  <2> DEFINE s == Head(generator.todo)
             asOf == generator.asOf
             missing == ToRecover(s, asOf)
  <2>1. s \in Subs /\ asOf \in Nat /\ generator.todo # <<>>
        /\ UNCHANGED <<now, trading, books, outside>>
    BY <1>1, <1>5, <1>10 DEF RecoverNext
  <2>2. ASSUME NEW k \in missing, \A j \in missing : k <= j, RecoverSlot(s, k)
        PROVE  TradingInv' /\ CanonicalKept /\ UNCHANGED trading
    <3>1. missing = MissingSlots(s, asOf)
      BY <2>2 DEF ToRecover
    <3>2. PICK drawn \in Drawn({k}) : Write(s, FinalDay(s), drawn)
      BY <2>2 DEF RecoverSlot
    <3>3. CanonicalInv' /\ CanonicalKept
      <4>1. k \in MissingSlots(s, asOf) /\ \A j \in MissingSlots(s, asOf) : k <= j
        BY <2>2, <3>1
      <4> HIDE DEF s, asOf, missing
      <4> QED BY <1>1, <2>1, <3>2, <4>1, RecoveryKeeps
    <3>4. UNCHANGED generator
      BY <2>2 DEF RecoverSlot
    <3> QED BY <1>1, <1>2, <2>1, <3>3, <3>4
  <2>3. CASE generator' = [generator EXCEPT !.todo = Tail(@)] /\ UNCHANGED canonical
    BY <1>2, <1>3, <1>6, <2>1, <2>3
  <2> QED BY <1>10, <2>2, <2>3 DEF RecoverNext
<1>11. CASE FinishPass
  BY <1>2, <1>3, <1>4, <1>11 DEF FinishPass
<1>12. CASE CrashPass
  BY <1>2, <1>3, <1>4, <1>12 DEF CrashPass
<1> QED BY <1>7, <1>8, <1>9, <1>10, <1>11, <1>12

LEMMA AdminKeeps ==
  ASSUME TradingInv, NEW s \in Subs, AdminActivity(s)
  PROVE  TradingInv' /\ CanonicalKept /\ UNCHANGED trading
<1>1. CanonicalInv /\ Outside /\ now \in Nat /\ Day(now) \in Days
  BY DEF TradingInv, CanonicalInv, Outside
<1>2. ProcessSubscription(s, now) /\ UNCHANGED <<now, trading, books, generator, outside>>
  BY DEF AdminActivity
<1>3. CanonicalInv' /\ CanonicalKept
  BY <1>1, <1>2, ProcessKeeps
<1>4. Outside'
  BY <1>1, <1>2 DEF Outside, outside
<1> QED BY <1>2, <1>3, <1>4, AddingKeeps

LEMMA TickKeeps ==
  ASSUME TradingInv, Tick
  PROVE  TradingInv' /\ CanonicalKept /\ UNCHANGED trading
<1>1. CanonicalInv /\ Outside /\ now \in Nat
  BY DEF TradingInv, CanonicalInv, Outside
<1>2. now < MaxTime /\ now' = now + 1 /\ UNCHANGED <<canonical, trading, books, generator, outside>>
  BY DEF Tick
<1>3. now' \in Nat /\ Day(now') \in Days
  <2>1. MaxTime \in Nat
    BY Calendar
  <2>2. now + 1 \in Nat /\ now + 1 <= MaxTime
    BY <1>1, <1>2, <2>1
  <2> QED BY <1>2, <2>2, DayOf
<1>4. Outside'
  BY <1>1, <1>2, <1>3 DEF Outside, outside
<1>5. CanonicalInv' /\ CanonicalKept
  BY <1>1, <1>2, NothingWritten
<1> QED BY <1>2, <1>4, <1>5, AddingKeeps
-----------------------------------------------------------------------------
(* The initial states.                                                      *)

\* Nothing is begun but, perhaps, one row.
LEMMA NothingElse ==
  ASSUME NEW s \in Subs, NEW row \in Rows, NEW other,
         other = [x \in Subs |-> IF x = s THEN row ELSE NotInitialized]
  PROVE  /\ other \in [Subs -> Rows \cup {NotInitialized}] /\ other[s] = row
         /\ \A x \in Subs : x # s => other[x].status = "NONE"
BY DEF NotInitialized

\* A first day begun in the old way.
LEMMA LegacyRowIsRight ==
  ASSUME NEW s \in Subs, s \in Legacy, model[s] = "V1", NEW p \in LegacyRows(s)
  PROVE  /\ p.row \in Rows /\ RowOK(s, p.row) /\ Closed(p.row)
         /\ p.books \in Accounts /\ p.books.expense = p.books.earnings + p.books.profit
         /\ p.books.earnings = p.row.credited
<1> DEFINE fresh == [row |-> FreshRow(s), go |-> TRUE, refused |-> FALSE,
                     books |-> [expense |-> 0, earnings |-> 0, profit |-> 0]]
           d == FirstDay(s)
           target == DayTarget(FreshRow(s), d)
<1>1. /\ FreshRow(s) \in Rows /\ RowOK(s, FreshRow(s)) /\ Closed(FreshRow(s))
      /\ FreshRow(s).credited = 0 /\ FreshRow(s).next = d
      /\ FreshRow(s).model = "V1" /\ \A x \in Days : FreshRow(s).trades[x] = <<>>
      /\ FreshRow(s).progress = 0
  BY FreshIsRight
<1> DEFINE row == FreshRow(s)
<1>2. PICK raw \in Results :
        p = Settle(fresh, s, d, target, NormalProgress(row, target, raw),
                   [result |-> NormalProgress(row, target, raw), user |-> 0, linked |-> FALSE])
  BY DEF LegacyRows
<1> DEFINE progress == NormalProgress(row, target, raw)
           trade == [result |-> progress, user |-> 0, linked |-> FALSE]
<1> HIDE DEF row
<1>3. /\ fresh \in Transactions /\ fresh.row = row
      /\ fresh.books = [expense |-> 0, earnings |-> 0, profit |-> 0]
  BY <1>1 DEF Transactions, Accounts, row
<1>4. target = GrossFor(NetThrough(s, d))
  BY <1>1, DayTargetIs DEF row
<1>5. d \in Days /\ Slots \in Nat /\ Slots >= 2 /\ row.trades[d] = <<>>
      /\ d \in ActivationDay(s) .. FinalDay(s) /\ ActivationDay(s) \in ActivationDay(s) .. FinalDay(s)
      /\ ActivationDay(s) < d
  <2>1. Slots >= 2
    BY TradingAssumption DEF TradingAssumption
  <2> QED BY <1>1, <2>1, Calendar, DaysFinite DEF row
<1> HIDE DEF d, target
<1>6. target \in Nat /\ target > 0
  <2>1. d \in ActivationDay(s) .. FinalDay(s) /\ ActivationDay(s) \in Nat
    BY <1>5, Calendar
  <2>2. /\ GrossFor(NetThrough(s, ActivationDay(s))) \in Nat
        /\ GrossFor(NetThrough(s, d)) \in Nat
        /\ GrossFor(NetThrough(s, ActivationDay(s))) < GrossFor(NetThrough(s, d))
    BY <1>5, <2>1, TargetsGrow
  <2> QED BY <1>4, <2>2
<1>7. progress \in Int /\ progress < target
  <2>1. raw \in Int /\ row.progress \in Int
    BY <1>1, TradingAssumption DEF TradingAssumption, row
  <2> QED BY <1>6, <2>1, RoomIsLeft
<1> HIDE DEF progress
<1>8. trade \in Trades /\ trade.linked = FALSE
  BY <1>7 DEF Trades
<1> HIDE DEF trade, fresh
<1>9. ComesNext(s, fresh.row, target, progress, trade)
  BY <1>1, <1>3, <1>4, <1>5, <1>6, <1>7, <1>8 DEF ComesNext, row
<1>10. p = Settle(fresh, s, fresh.row.next, target, progress, trade)
  BY <1>1, <1>2, <1>3 DEF progress, trade, fresh, row
<1>11. SettledSoundly(s, fresh, p, trade)
  BY <1>3, <1>7, <1>8, <1>9, <1>10, SettleKeeps
<1> DEFINE user == p.row.credited - fresh.row.credited
           trade1 == [trade EXCEPT !.user = user]
<1>12. /\ p \in Transactions /\ RowOK(s, p.row) /\ p.row.next = d /\ p.row.model = "V1"
       /\ user \in Int
       /\ p.row.trades = Appended(row, d, trade1)
       /\ p.books.expense - p.books.earnings - p.books.profit =
            fresh.books.expense - fresh.books.earnings - fresh.books.profit
       /\ p.books.earnings - p.row.credited = fresh.books.earnings - row.credited
  BY <1>1, <1>3, <1>11 DEF SettledSoundly, row
<1> HIDE DEF user
<1>13. trade1 \in Trades
  BY <1>8, <1>12 DEF Trades
<1> HIDE DEF trade1
<1>14. p.row \in Rows /\ p.books \in Accounts
  BY <1>12 DEF Transactions
<1>15. Len(p.row.trades[d]) = 1
  <2>1. Len(p.row.trades[d]) = Len(row.trades[d]) + 1
    <3>1. row \in Rows
      BY <1>1 DEF row
    <3> DEFINE new == p.row
    <3>2. new.trades = Appended(row, d, trade1)
      BY <1>12
    <3> HIDE DEF new, row, d
    <3>3. d \in Days
      BY <1>5
    <3>4. Len(new.trades[d]) = Len(row.trades[d]) + 1
      BY <1>13, <3>1, <3>2, <3>3, AppendedRow
    <3> QED BY <3>4 DEF new
  <2> QED BY <1>5, <2>1
<1>16. Closed(p.row)
  BY <1>5, <1>12, <1>15 DEF Closed
<1>17. p.books.expense = p.books.earnings + p.books.profit /\ p.books.earnings = p.row.credited
  <2>1. /\ p.books.expense \in Nat /\ p.books.earnings \in Nat /\ p.books.profit \in Nat
        /\ p.row.credited \in Nat
    BY <1>14 DEF Accounts, Rows
  <2>2. /\ p.books.expense - p.books.earnings - p.books.profit = 0
        /\ p.books.earnings - p.row.credited = 0
    BY <1>1, <1>3, <1>12 DEF row
  <2> QED BY <2>1, <2>2
<1> QED BY <1>12, <1>14, <1>16, <1>17

LEMMA TradingInit == Init => TradingInv
<1> SUFFICES ASSUME Init PROVE TradingInv
  OBVIOUS
<1>1. /\ model \in [Subs -> Models] /\ enabledDays \in Calendars /\ abroad \in Abroad
      /\ canonical = [s \in Subs |-> [d \in Days |-> << >>]] /\ generator = Idle
  BY DEF Init
<1>2. CanonicalInv
  <2>1. ASSUME NEW s \in Subs PROVE DOMAIN canonical[s] = Days /\ CanonicalOK(s)
    <3>1. \A d \in Days : canonical[s][d] = << >> /\ DOMAIN canonical[s][d] = {}
      BY <1>1
    <3>2. << >> \in [{} -> Events] /\ {} \in SUBSET (1 .. Slots)
      OBVIOUS
    <3>3. DOMAIN canonical[s] = Days
      BY <1>1
    <3> QED BY <3>1, <3>2, <3>3 DEF CanonicalOK
  <2> QED BY <1>1, <2>1 DEF CanonicalInv
<1>3. generator \in Passes /\ Day(generator.asOf) \in Days
  <2>1. Day(0) \in Days
    BY Calendar, DayOf
  <2> QED BY <1>1, <2>1 DEF Idle, Passes
<1>4. IsFiniteSet(Subs)
  BY TradingAssumption DEF TradingAssumption
<1>5. CASE now = 0 /\ trading = [s \in Subs |-> NotInitialized] /\ books = NotBegun.books
  <2>1. \A s \in Subs : ~Initialized(s)
    BY <1>5 DEF Initialized, NotInitialized
  <2> DEFINE zero == [s \in Subs |-> 0]
  <2>2. CreditedTo = zero
    BY <2>1 DEF CreditedTo
  <2>3. SumFunction(zero) = 0
    BY <1>4, TotalZero
  <2>4. BooksMatch
    BY <1>5, <2>2, <2>3 DEF BooksMatch, NotBegun, Accounts
  <2>5. Day(now) \in Days /\ now \in Nat
    BY <1>5, Calendar, DayOf
  <2> QED BY <1>1, <1>2, <1>3, <1>5, <2>1, <2>4, <2>5 DEF TradingInv, Outside, CanonicalInv
<1>6. ASSUME NEW s \in {x \in Legacy : model[x] = "V1"}, NEW p \in LegacyRows(s),
             now = SlotTime(FirstDay(s), 1),
             trading = [x \in Subs |-> IF x = s THEN p.row ELSE NotInitialized],
             books = p.books
      PROVE  TradingInv
  <2>1. s \in Subs /\ model[s] = "V1"
    BY TradingAssumption DEF TradingAssumption
  <2>2. /\ p.row \in Rows /\ RowOK(s, p.row) /\ Closed(p.row)
        /\ p.books \in Accounts /\ p.books.expense = p.books.earnings + p.books.profit
        /\ p.books.earnings = p.row.credited
    BY <2>1, LegacyRowIsRight
  <2>3. /\ trading \in [Subs -> Rows \cup {NotInitialized}] /\ trading[s] = p.row
        /\ \A x \in Subs : x # s => trading[x].status = "NONE"
    BY <1>6, <2>1, <2>2, NothingElse
  <2>4. \A x \in Subs : Initialized(x) => x = s
    BY <2>3 DEF Initialized
  <2>5. \A x \in Subs : Initialized(x) => RowOK(x, trading[x]) /\ Closed(trading[x])
    BY <2>2, <2>3, <2>4
  <2>6. BooksMatch
    <3> DEFINE zero == [x \in Subs |-> 0]
               f == CreditedTo
    <3>1. p.row.credited \in Nat /\ p.row.status # "NONE"
      BY <2>2 DEF Rows
    <3>2. f[s] = p.row.credited /\ \A x \in Subs \ {s} : f[x] = 0
      BY <2>1, <2>3, <2>4, <3>1 DEF CreditedTo, Initialized
    <3>3. f \in [Subs -> Int]
      <4>1. \A x \in Subs : f[x] \in Int
        BY <3>1, <3>2
      <4>2. f = [x \in Subs |-> f[x]]
        BY DEF CreditedTo
      <4> HIDE DEF f
      <4> QED BY <4>1, <4>2
    <3>4. SumFunction(zero) = 0
      BY <1>4, TotalZero
    <3>5. zero \in [Subs -> Int] /\ zero[s] = 0 /\ \A x \in Subs \ {s} : f[x] = zero[x]
      BY <2>1, <3>2
    <3> HIDE DEF zero, f
    <3>6. SumFunction(f) = SumFunction(zero) + f[s] - zero[s]
      BY <1>4, <2>1, <3>3, <3>5, TotalChange
    <3>7. SumFunction(f) = p.row.credited
      BY <3>1, <3>2, <3>4, <3>5, <3>6
    <3> QED BY <1>6, <2>2, <3>7 DEF BooksMatch, f
  <2>7. now \in Nat /\ Day(now) \in Days
    <3> DEFINE d == FirstDay(s)
    <3>1. d \in Days /\ d \in Nat /\ DayLength \in Nat /\ DayLength > 0
          /\ SlotAt[1] \in 0 .. DayLength - 1
      BY <2>1, Calendar, DaysFinite
    <3> HIDE DEF d
    <3>2. d * DayLength \in Nat
      BY <3>1
    <3>3. now = d * DayLength + SlotAt[1]
      BY <1>6 DEF SlotTime, d
    <3>4. now \in Nat /\ DayLength * d <= now /\ now < DayLength * d + DayLength
      BY <3>1, <3>2, <3>3
    <3>5. now \div DayLength = d
      BY <3>1, <3>4, DivUnique
    <3> QED BY <3>1, <3>4, <3>5 DEF Day
  <2> QED BY <1>1, <1>2, <1>3, <2>3, <2>5, <2>6, <2>7 DEF TradingInv, Outside, CanonicalInv
<1> QED BY <1>5, <1>6 DEF Init
-----------------------------------------------------------------------------
(* The theorems.                                                            *)

\* Every step of the specification keeps the invariant.
LEMMA TradingStep == TradingInv /\ [Next]_vars => TradingInv'
<1> SUFFICES ASSUME TradingInv, [Next]_vars PROVE TradingInv'
  OBVIOUS
<1>1. ASSUME NEW s \in Subs, InitializeLifecycle(s) PROVE TradingInv'
  BY <1>1, InitializeKeeps
<1>2. ASSUME NEW s \in Subs, Reconcile(s) PROVE TradingInv'
  BY <1>2, ReconcileKeeps
<1>3. ASSUME NEW s \in Subs, AdminActivity(s) PROVE TradingInv'
  BY <1>3, AdminKeeps
<1>4. ASSUME NEW s \in Subs, NEW d \in Days, Claim(s, d) PROVE TradingInv'
  BY <1>4, ClaimKeeps
<1>5. CASE StartPass \/ ProcessNext \/ StartRecovery \/ RecoverNext \/ FinishPass \/ CrashPass
  BY <1>5, PassSteps
<1>6. CASE Tick
  BY <1>6, TickKeeps
<1>7. CASE UNCHANGED vars
  <2>1. UNCHANGED <<now, model, enabledDays, abroad, canonical, trading, books, generator>>
    BY <1>7 DEF vars
  <2>2. Outside /\ CanonicalInv
    BY DEF TradingInv, CanonicalInv
  <2>3. CanonicalInv' /\ CanonicalKept
    BY <2>1, <2>2, NothingWritten
  <2>4. Outside'
    BY <2>1, <2>2 DEF Outside
  <2> QED BY <2>1, <2>3, <2>4, AddingKeeps
<1> QED BY <1>1, <1>2, <1>3, <1>4, <1>5, <1>6, <1>7 DEF Next, Working

THEOREM TradingInvariant == TradingSpec => []TradingInv
<1>1. Init => TradingInv
  BY TradingInit
<1>2. TradingInv /\ [Next]_vars => TradingInv'
  BY TradingStep
<1> QED BY <1>1, <1>2, PTL DEF TradingSpec

\* Rows, claims, balances and canonical trades stay in their types: no
\* transaction of settlement, however many slots and days it covers, posts a
\* negative amount or leaves the row outside of its days.
THEOREM TradingTyped == TradingSpec => []TradingTypeOK
<1>1. TradingInv => TradingTypeOK
  <2> SUFFICES ASSUME TradingInv PROVE TradingTypeOK
    OBVIOUS
  <2>1. now \in Nat /\ Day(now) \in Days /\ enabledDays \in Calendars /\ abroad \in Abroad
        /\ generator \in Passes
    BY DEF TradingInv, Outside
  <2>2. ASSUME NEW s \in Subs, NEW d \in Days, NEW k \in DOMAIN canonical[s][d]
        PROVE  k \in 1 .. Slots /\ canonical[s][d][k] \in [result : Int, planned : BOOLEAN]
    <3>1. CanonicalOK(s)
      BY DEF TradingInv
    <3>2. PICK ks \in SUBSET (1 .. Slots) : canonical[s][d] \in [ks -> Events]
      BY <3>1 DEF CanonicalOK
    <3> QED BY <3>2 DEF Events
  <2>3. ASSUME NEW s \in Subs, Initialized(s)
        PROVE  /\ trading[s].status \in {"ACTIVE", "COMPLETED"}
               /\ trading[s].next \in FirstDay(s) .. FinalDay(s)
               /\ trading[s].credited \in Nat /\ trading[s].recognized \in Nat
    <3>1. RowOK(s, trading[s])
      BY <2>3 DEF TradingInv
    <3> QED BY <3>1 DEF RowOK, Rows, DaysInOrder
  <2>4. books \in Accounts
    BY DEF TradingInv, BooksMatch
  <2>5. generator.phase \in {"IDLE", "BATCH", "RECOVERY"} /\ Range(generator.todo) \subseteq Subs
    <3>1. generator.phase \in {"IDLE", "BATCH", "RECOVERY"} /\ generator.todo \in Seq(Subs)
      BY <2>1 DEF Passes
    <3> DEFINE todo == generator.todo
    <3>2. todo \in Seq(Subs)
      BY <3>1
    <3> HIDE DEF todo
    <3>3. DOMAIN todo = 1 .. Len(todo)
      BY <3>2, LenProperties
    <3>4. \A k \in DOMAIN todo : todo[k] \in Subs
      BY <3>2, <3>3, ElementOfSeq
    <3> QED BY <3>1, <3>4 DEF Range, todo
  <2> QED BY <2>1, <2>2, <2>3, <2>4, <2>5 DEF TradingTypeOK, Accounts
<1> QED BY <1>1, TradingInvariant, PTL

\* The earnings of the wallet are the credits of settled V1 trades and of the
\* claims taken, each once, and claims are those of the settled V2 days.
THEOREM EarningsAreHistory == TradingSpec => []EarningsMatchHistory
<1>1. TradingInv => EarningsMatchHistory
  <2> SUFFICES ASSUME TradingInv PROVE EarningsMatchHistory
    OBVIOUS
  <2>1. BooksMatch /\ \A s \in Subs : Initialized(s) => RowOK(s, trading[s]) /\ Closed(trading[s])
    BY DEF TradingInv
  <2>2. \A s \in Subs : Initialized(s) =>
          trading[s].credited = CreditedByTrades(trading[s]) + ClaimedOf(trading[s])
    BY <2>1 DEF RowOK, SumsMatch
  <2>3. ASSUME NEW s \in Subs, IsV2(s), NEW d \in Days
        PROVE  LET claim == trading[s].claims[d]
                   trades == trading[s].trades[d]
               IN /\ claim.status # "NONE" <=> Len(trades) = Slots
                  /\ claim.status # "NONE" =>
                       claim.gross = Total(trades) /\ claim.user \in 1 .. claim.gross
    <3> DEFINE row == trading[s]
    <3>1. /\ RowOK(s, row) /\ Closed(row) /\ row.model = "V2" /\ DaysInOrder(s, row)
          /\ ClaimsMatch(s, row) /\ row \in Rows
      BY <2>1, <2>3 DEF IsV2, RowOK
    <3>2. Len(row.trades[d]) = Slots => row.claims[d].status # "NONE"
      <4>1. CASE d \in FirstDay(s) .. row.next - 1
        BY <3>1, <4>1 DEF ClaimsMatch
      <4>2. CASE d = row.next
        BY <3>1, <4>2 DEF Closed
      <4>3. CASE d \notin FirstDay(s) .. row.next - 1 /\ d # row.next
        <5> DEFINE next == row.next
        <5>1. next \in FirstDay(s) .. FinalDay(s) /\ d \in Nat
              /\ FirstDay(s) \in Nat /\ FinalDay(s) \in Nat
          BY <3>1, DaysFinite, Calendar DEF DaysInOrder
        <5>2. d \notin FirstDay(s) .. next - 1 /\ d # next
          BY <4>3
        <5> HIDE DEF next
        <5>3. d \notin FirstDay(s) .. next
          BY <5>1, <5>2
        <5>4. row.trades[d] = <<>>
          BY <3>1, <5>3 DEF DaysInOrder, next
        <5> QED BY <5>4, Calendar
      <4> QED BY <4>1, <4>2, <4>3
    <3> QED BY <3>1, <3>2 DEF ClaimsMatch
  <2>4. ClaimsMatchDays
    BY <2>3 DEF ClaimsMatchDays
  <2> QED BY <2>1, <2>2, <2>4 DEF EarningsMatchHistory, BooksMatch
<1> QED BY <1>1, TradingInvariant, PTL

\* A V1 day that is over has paid the net amounts of the days so far to the
\* unit, and the day under way not more than that.
THEOREM DaysArePaid == TradingSpec => []DaysPayTheirTarget
<1>1. TradingInv => DaysPayTheirTarget
  <2> SUFFICES ASSUME TradingInv, NEW s \in Subs, Initialized(s), trading[s].model = "V1"
               PROVE  LET row == trading[s]
                          over == IF row.status = "COMPLETED" THEN FinalDay(s) ELSE row.next - 1
                      IN /\ row.credited >= NetThrough(s, over)
                         /\ row.credited <= NetThrough(s, IF row.trades[row.next] = <<>> THEN over
                                                            ELSE Least(over + 1, FinalDay(s)))
                         /\ row.status = "COMPLETED" =>
                              row.credited + row.recognized = LifetimeGross(s)
    BY DEF DaysPayTheirTarget
  <2> DEFINE row == trading[s]
             d == row.next
             settled == row.credited + row.recognized
             low == GrossFor(NetThrough(s, d - 1))
             target == GrossFor(NetThrough(s, d))
  <2>1. RowOK(s, row) /\ row \in Rows
    BY DEF TradingInv, RowOK
  <2>2. DaysInOrder(s, row) /\ EarnedSoFar(s, row)
    BY <2>1 DEF RowOK
  <2>3. /\ row.credited = Share(settled) /\ settled \in low .. target
        /\ Len(row.trades[d]) = 0 => settled = low
        /\ Len(row.trades[d]) = Slots => settled = target
    BY <2>2 DEF EarnedSoFar
  <2>4. /\ d \in FirstDay(s) .. FinalDay(s)
        /\ row.status = "COMPLETED" <=> d = FinalDay(s) /\ Len(row.trades[d]) = Slots
    BY <2>2 DEF DaysInOrder
  <2>5. row.credited \in Nat /\ row.recognized \in Nat
    BY <2>1 DEF Rows
  <2> HIDE DEF row
  <2> HIDE DEF d
  <2>6. /\ d - 1 \in ActivationDay(s) .. FinalDay(s) /\ d \in d - 1 .. FinalDay(s)
        /\ d \in Nat /\ FinalDay(s) \in Nat /\ (d - 1) + 1 = d
        /\ d \in ActivationDay(s) .. FinalDay(s)
    BY <2>4, Calendar
  <2>7. /\ low \in Nat /\ target \in Nat /\ low <= target
        /\ Share(low) = NetThrough(s, d - 1) /\ Share(target) = NetThrough(s, d)
    BY <2>6, TargetsGrow
  <2>8. settled \in Nat
    BY <2>5
  <2> HIDE DEF settled, low
  <2>9. target = LifetimeGross(s) \/ d # FinalDay(s)
    BY DEF LifetimeGross
  <2> HIDE DEF target
  <2>10. Share(low) <= Share(settled) /\ Share(settled) <= Share(target)
         /\ Share(low) \in Nat /\ Share(settled) \in Nat /\ Share(target) \in Nat
    <3>1. low <= settled /\ settled <= target
      BY <2>3, <2>7, <2>8
    <3>2. Share(low) <= Share(settled) /\ Share(settled) <= Share(target)
      BY <2>7, <2>8, <3>1, SharesGrow
    <3>3. Share(low) \in Nat /\ Share(settled) \in Nat /\ Share(target) \in Nat
      BY <2>7, <2>8, ShareParts
    <3> QED BY <3>2, <3>3
  <2>11. CASE row.status = "COMPLETED"
    <3>1. d = FinalDay(s) /\ settled = target /\ row.trades[d] # <<>>
      BY <2>3, <2>4, <2>11, Calendar
    <3>2. Least(FinalDay(s) + 1, FinalDay(s)) = FinalDay(s)
      BY <2>6 DEF Least
    <3>3. row.credited = NetThrough(s, FinalDay(s))
      BY <2>3, <2>7, <3>1
    <3>4. row.credited + row.recognized = LifetimeGross(s)
      BY <2>9, <3>1 DEF settled
    <3> QED BY <2>5, <2>11, <3>1, <3>2, <3>3, <3>4 DEF row, d
  <2>12. CASE row.status # "COMPLETED"
    <3>1. row.credited >= NetThrough(s, d - 1)
      BY <2>3, <2>5, <2>7, <2>10
    <3>2. CASE row.trades[d] = <<>>
      <4>1. row.credited = NetThrough(s, d - 1)
        BY <2>3, <2>7, <3>2
      <4> QED BY <2>5, <2>12, <3>1, <3>2, <4>1 DEF row, d
    <3>3. CASE row.trades[d] # <<>>
      <4>1. Least((d - 1) + 1, FinalDay(s)) = d
        BY <2>6 DEF Least
      <4>2. row.credited <= NetThrough(s, d)
        BY <2>3, <2>5, <2>7, <2>10
      <4> QED BY <2>12, <3>1, <3>3, <4>1, <4>2 DEF row, d
    <3> QED BY <3>2, <3>3
  <2> QED BY <2>11, <2>12
<1> QED BY <1>1, TradingInvariant, PTL

\* No day mixes trades of the two generators, days are settled in order and
\* without gaps, and a linked trade stands for the canonical one of its slot.
THEOREM TradesMatchTheirSource == TradingSpec => []TradesHaveTheirSource
<1>1. TradingInv => TradesHaveTheirSource
  <2> SUFFICES ASSUME TradingInv, NEW s \in Subs, Initialized(s), NEW d \in Days
               PROVE  LET trades == trading[s].trades[d]
                      IN /\ trades # <<>> => d \in FirstDay(s) .. trading[s].next
                         /\ d \in FirstDay(s) .. trading[s].next - 1 => Len(trades) = Slots
                         /\ \A j, k \in DOMAIN trades : trades[j].linked = trades[k].linked
                         /\ \A k \in DOMAIN trades : trades[k].linked =>
                              /\ k \in DOMAIN canonical[s][d]
                              /\ trades[k].result = canonical[s][d][k].result
    BY DEF TradesHaveTheirSource
  <2>1. DaysInOrder(s, trading[s]) /\ SourcesMatch(s, trading[s])
    BY DEF TradingInv, RowOK
  <2> QED BY <2>1 DEF DaysInOrder, SourcesMatch
<1> QED BY <1>1, TradingInvariant, PTL

\* The checks of the financial snapshot never refuse a V1 package, by either
\* generator and whatever was drawn, and a V2 package is refused only for a
\* canonical trade that is not the planned one.
THEOREM NobodyIsStuck == TradingSpec => []NeverStuck
<1>1. TradingInv => NeverStuck
  <2> SUFFICES ASSUME TradingInv, NEW s \in Subs, Initialized(s), trading[s].status = "ACTIVE"
               PROVE  IF trading[s].model = "V1"
                        THEN /\ ~BegunBothWays(s)
                             /\ IF BegunWithoutSource(s)
                                  THEN \A raws \in [1 .. Slots -> Results] :
                                         ~LegacyOutcome(s, raws).refused
                                  ELSE ~V1Outcome(s).refused
                        ELSE V2Outcome(s).refused => Unplanned(s)
    BY DEF NeverStuck, Unplanned
  <2>1. RowOK(s, trading[s]) /\ trading[s] \in Rows
    BY DEF TradingInv, RowOK
  <2>2. SourcesMatch(s, trading[s]) /\ trading[s].next \in Days /\ trading[s].model \in {"V1", "V2"}
    BY <2>1 DEF RowOK, Rows
  <2>3. ~BegunBothWays(s)
    BY <2>2 DEF BegunBothWays, SourcesMatch
  <2>4. ASSUME NEW by, PathFits(trading[s], by), DaysDue(s, by).refused
        PROVE  by.path = "V2" /\ Unplanned(s)
    BY <2>4, OutcomeIs DEF Going
  <2>5. CASE trading[s].model = "V1" /\ BegunWithoutSource(s)
    <3>1. ASSUME NEW raws \in [1 .. Slots -> Results] PROVE ~LegacyOutcome(s, raws).refused
      <4> DEFINE by == [path |-> "LEGACY", raws |-> raws]
      <4>1. PathFits(trading[s], by) /\ by.path # "V2"
        BY <2>1, <2>5, BeginsOnPath
      <4>2. LegacyOutcome(s, raws) = DaysDue(s, by)
        BY DEF LegacyOutcome
      <4> HIDE DEF by
      <4> QED BY <2>4, <4>1, <4>2
    <3> QED BY <2>3, <2>5, <3>1
  <2>6. CASE trading[s].model = "V1" /\ ~BegunWithoutSource(s)
    <3>1. PathFits(trading[s], [path |-> "V1"])
      BY <2>1, <2>3, <2>6, BeginsOnPath
    <3>2. ~DaysDue(s, [path |-> "V1"]).refused
      BY <2>4, <3>1
    <3> QED BY <2>3, <2>6, <3>2 DEF V1Outcome
  <2>7. CASE trading[s].model = "V2"
    <3>1. PathFits(trading[s], [path |-> "V2"])
      BY <2>1, <2>7, BeginsOnPath
    <3>2. DaysDue(s, [path |-> "V2"]).refused => Unplanned(s)
      BY <2>4, <3>1
    <3> QED BY <2>7, <3>2 DEF V2Outcome
  <2> QED BY <2>2, <2>5, <2>6, <2>7
<1> QED BY <1>1, TradingInvariant, PTL

\* What a row and what comes after it have in common.
RowKept(row, new) ==
  \A d \in Days :
    /\ IsPrefix(row.trades[d], new.trades[d])
    /\ LET claim == row.claims[d] IN
         claim.status # "NONE" =>
           /\ new.claims[d].gross = claim.gross
           /\ new.claims[d].user = claim.user
           /\ claim.status = "CLAIMED" => new.claims[d].status = "CLAIMED"
    /\ row.status = "COMPLETED" => new.status = "COMPLETED"

\* A row that grows by settlements keeps what it had.
LEMMA GrowingIsKept ==
  ASSUME NEW s \in Subs, trading[s] \in Rows, trading[s].status # "COMPLETED",
         NEW new \in Rows, HistoryFrom(s, new)
  PROVE  RowKept(trading[s], new)
<1> DEFINE row == trading[s]
<1>1. ASSUME NEW d \in Days
      PROVE  /\ Begins(row.trades[d], new.trades[d])
             /\ row.claims[d].status # "NONE" => new.claims[d] = row.claims[d]
             /\ row.trades[d] \in Seq(Trades) /\ new.trades[d] \in Seq(Trades)
  BY DEF HistoryFrom, Rows
<1>2. ASSUME NEW d \in Days PROVE IsPrefix(row.trades[d], new.trades[d])
  <2> DEFINE q == row.trades[d]
             r == new.trades[d]
  <2>1. q \in Seq(Trades) /\ r \in Seq(Trades) /\ Begins(q, r)
    BY <1>1
  <2> HIDE DEF q, r
  <2>2. IsPrefix(q, r)
    BY <2>1, BeginsIsPrefix
  <2> QED BY <2>2 DEF q, r
<1> QED BY <1>1, <1>2 DEF RowKept

LEMMA SameIsKept ==
  ASSUME NEW row \in Rows
  PROVE  RowKept(row, row)
<1>1. ASSUME NEW d \in Days PROVE IsPrefix(row.trades[d], row.trades[d])
  <2> DEFINE q == row.trades[d]
  <2>1. q \in Seq(Trades)
    BY DEF Rows
  <2> HIDE DEF q
  <2>2. Len(q) \in Nat /\ Begins(q, q)
    BY <2>1, LenProperties DEF Begins
  <2>3. IsPrefix(q, q)
    BY <2>1, <2>2, BeginsIsPrefix
  <2> QED BY <2>3 DEF q
<1> QED BY <1>1 DEF RowKept

\* A claim taken stands for what it stood for.
LEMMA TakenIsKept ==
  ASSUME NEW s \in Subs, NEW row \in Rows, RowOK(s, row), Closed(row), row.model = "V2",
         NEW d \in Days, row.claims[d].status = "PENDING"
  PROVE  RowKept(row, Taken(row, d))
<1> DEFINE new == Taken(row, d)
<1>1. row.claims[d].user \in Nat /\ row.claims[d].gross - row.claims[d].user \in Nat
  BY TakenKeepsRow
<1>2. /\ new.status = row.status /\ new.trades = row.trades
      /\ new.claims[d].status = "CLAIMED" /\ new.claims[d].gross = row.claims[d].gross
      /\ new.claims[d].user = row.claims[d].user
      /\ \A x \in Days : x # d => new.claims[x] = row.claims[x]
  BY <1>1, TakenFields
<1> HIDE DEF new
<1>3. RowKept(row, row)
  BY SameIsKept
<1>4. ASSUME NEW x \in Days
      PROVE  /\ IsPrefix(row.trades[x], new.trades[x])
             /\ row.claims[x].status # "NONE" =>
                  /\ new.claims[x].gross = row.claims[x].gross
                  /\ new.claims[x].user = row.claims[x].user
                  /\ row.claims[x].status = "CLAIMED" => new.claims[x].status = "CLAIMED"
             /\ row.status = "COMPLETED" => new.status = "COMPLETED"
  <2>1. IsPrefix(row.trades[x], row.trades[x])
    BY <1>3 DEF RowKept
  <2>2. CASE x = d
    BY <1>2, <2>1, <2>2
  <2>3. CASE x # d
    BY <1>2, <2>1, <2>3
  <2> QED BY <2>2, <2>3
<1>5. RowKept(row, new)
  BY <1>4 DEF RowKept
<1> QED BY <1>5 DEF new

RowsKept == \A s \in Subs : Initialized(s) => RowKept(trading[s], trading'[s])

\* What is kept when only the row of one package is written.
LEMMA OneRowIsKept ==
  ASSUME TradingInv, NEW s \in Subs, Initialized(s) => RowKept(trading[s], trading'[s]),
         \A x \in Subs : x # s => trading'[x] = trading[x], UNCHANGED canonical
  PROVE  RowsKept /\ CanonicalKept
<1>1. ASSUME NEW x \in Subs, Initialized(x) PROVE trading[x] \in Rows
  BY <1>1 DEF TradingInv, RowOK
<1>2. ASSUME NEW x \in Subs, Initialized(x) PROVE RowKept(trading[x], trading'[x])
  <2>1. CASE x = s
    BY <1>2, <2>1
  <2>2. CASE x # s
    BY <1>1, <1>2, <2>2, SameIsKept
  <2> QED BY <2>1, <2>2
<1>3. CanonicalKept
  BY DEF CanonicalKept
<1> QED BY <1>2, <1>3 DEF RowsKept

\* What every step keeps.
LEMMA StepsKeepHistory ==
  ASSUME TradingInv, TradingInv', [Next]_vars
  PROVE  RowsKept /\ CanonicalKept
<1>1. trading \in [Subs -> Rows \cup {NotInitialized}]
  BY DEF TradingInv
<1>2. ASSUME NEW s \in Subs, Initialized(s)
      PROVE  trading[s] \in Rows /\ RowOK(s, trading[s]) /\ Closed(trading[s])
  BY <1>2 DEF TradingInv, RowOK
<1>3. ASSUME UNCHANGED trading PROVE RowsKept
  BY <1>2, <1>3, SameIsKept DEF RowsKept
<1>4. ASSUME NEW s \in Subs, InitializeLifecycle(s) PROVE RowsKept /\ CanonicalKept
  <2>1. ~Initialized(s) /\ trading' = [trading EXCEPT ![s] = FreshRow(s)] /\ UNCHANGED canonical
    BY <1>4 DEF InitializeLifecycle
  <2>2. \A x \in Subs : x # s => trading'[x] = trading[x]
    BY <1>1, <2>1
  <2> QED BY <2>1, <2>2, OneRowIsKept
<1>5. ASSUME NEW s \in Subs, Reconcile(s) PROVE RowsKept /\ CanonicalKept
  <2>1. /\ Initialized(s) /\ trading[s].status = "ACTIVE" /\ UNCHANGED canonical
        /\ \E row : trading' = [trading EXCEPT ![s] = row]
    BY <1>5 DEF Reconcile, ReconcileV2, ReconcileCanonical, ReconcileLegacy, Commit
  <2>2. \A x \in Subs : x # s => trading'[x] = trading[x]
    BY <1>1, <2>1
  <2>3. HistoryFrom(s, trading'[s]) /\ trading'[s] \in Rows
    BY <1>5, ReconcileKeeps
  <2>4. RowKept(trading[s], trading'[s])
    BY <1>2, <2>1, <2>3, GrowingIsKept
  <2> QED BY <2>1, <2>2, <2>4, OneRowIsKept
<1>6. ASSUME NEW s \in Subs, NEW d \in Days, Claim(s, d) PROVE RowsKept /\ CanonicalKept
  <2>1. /\ Initialized(s) /\ trading[s].model = "V2" /\ trading[s].claims[d].status = "PENDING"
        /\ UNCHANGED canonical
    BY <1>6 DEF Claim
  <2>2. \A x \in Subs : x # s => trading'[x] = trading[x]
    <3>1. \E row : trading' = [trading EXCEPT ![s] = row]
      BY <1>1, <1>6 DEF Claim
    <3> QED BY <1>1, <3>1
  <2>3. trading'[s] = Taken(trading[s], d)
    BY <1>6, ClaimKeeps
  <2>4. RowKept(trading[s], trading'[s])
    BY <1>2, <2>1, <2>3, TakenIsKept
  <2> QED BY <2>1, <2>2, <2>4, OneRowIsKept
<1>7. CASE StartPass \/ ProcessNext \/ StartRecovery \/ RecoverNext \/ FinishPass \/ CrashPass
  BY <1>3, <1>7, PassSteps
<1>8. ASSUME NEW s \in Subs, AdminActivity(s) PROVE RowsKept /\ CanonicalKept
  BY <1>3, <1>8, AdminKeeps
<1>9. CASE Tick
  BY <1>3, <1>9, TickKeeps
<1>10. CASE UNCHANGED vars
  BY <1>3, <1>10 DEF vars, CanonicalKept
<1> QED BY <1>4, <1>5, <1>6, <1>7, <1>8, <1>9, <1>10 DEF Next, Working

\* History is only added to: a canonical trade, a settled trade and a claim
\* are never rewritten, a claim taken stays taken, a package stays completed.
THEOREM HistoryIsNeverRewritten == TradingSpec => HistoryIsKept
<1>1. TradingInv /\ TradingInv' /\ [Next]_vars =>
        \A s \in Subs, d \in Days :
          /\ \A k \in DOMAIN canonical[s][d] :
               k \in DOMAIN canonical'[s][d] /\ canonical'[s][d][k] = canonical[s][d][k]
          /\ Initialized(s) =>
               /\ IsPrefix(trading[s].trades[d], trading'[s].trades[d])
               /\ LET claim == trading[s].claims[d] IN
                    claim.status # "NONE" =>
                      /\ trading'[s].claims[d].gross = claim.gross
                      /\ trading'[s].claims[d].user = claim.user
                      /\ claim.status = "CLAIMED" => trading'[s].claims[d].status = "CLAIMED"
               /\ trading[s].status = "COMPLETED" => trading'[s].status = "COMPLETED"
  BY StepsKeepHistory DEF RowsKept, RowKept, CanonicalKept
<1> QED BY <1>1, TradingInvariant, PTL DEF TradingSpec, HistoryIsKept
=============================================================================
