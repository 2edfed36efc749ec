------------------------- MODULE AwardRewardsProofs -------------------------
(***************************************************************************)
(* Proofs about team business awards, for every number of members, kinds   *)
(* and levels, every acyclic tree and every sequence of policies.          *)
(*                                                                         *)
(* A package serves one track of a member only because a track counts from *)
(* its start and the next one starts when it is closed.  It serves one     *)
(* level only, while no team is moved, because the levels of a team have   *)
(* nobody in common, which is a fact about trees without cycles.           *)
(***************************************************************************)
EXTENDS AwardRewards, Totals, SequenceTheorems

-----------------------------------------------------------------------------
(* The levels of a team.                                                    *)

\* level holds the levels of the team of m in a tree, down to level l.
IsLevels(level, tree, m, l) ==
  level = [n \in 0 .. l |->
             IF n = 0 THEN {m} ELSE {u \in Members : tree[u] \in level[n - 1]}]

Team(tree, m, l) == (CHOOSE level : IsLevels(level, tree, m, l))[l]

LEMMA TeamIs ==
  ASSUME NEW m, NEW l
  PROVE  TeamLevel(m, l) = Team(sponsor, m, l)
BY DEF TeamLevel, Team, IsLevels

LEMMA LevelsExist ==
  ASSUME NEW tree, NEW m, NEW l \in Nat
  PROVE  \E level : IsLevels(level, tree, m, l)
<1> DEFINE Bad == {k \in 0 .. l : ~ \E level : IsLevels(level, tree, m, k)}
<1>1. SUFFICES ASSUME Bad # {} PROVE FALSE
  <2>1. l \in 0 .. l
    OBVIOUS
  <2> QED BY <2>1
<1>2. PICK k \in Bad : \A j \in 0 .. (k - 1) : j \notin Bad
  <2> HIDE DEF Bad
  <2>1. Bad \in SUBSET (0 .. l)
    BY DEF Bad
  <2> QED BY <1>1, <2>1, SmallestNumber
<1>3. k \in 0 .. l /\ ~ \E level : IsLevels(level, tree, m, k)
  OBVIOUS
<1>4. CASE k = 0
  <2> DEFINE level == [n \in 0 .. 0 |-> {m}]
  <2>1. IsLevels(level, tree, m, 0)
    BY DEF IsLevels
  <2> QED BY <1>3, <1>4, <2>1
<1>5. CASE k # 0
  <2>1. k - 1 \in 0 .. (k - 1) /\ k - 1 \in 0 .. l
    BY <1>3, <1>5
  <2>2. PICK low : IsLevels(low, tree, m, k - 1)
    BY <1>2, <2>1
  <2> DEFINE level == [n \in 0 .. k |->
                         IF n = 0 THEN {m} ELSE {u \in Members : tree[u] \in low[n - 1]}]
  <2>3. ASSUME NEW n \in 0 .. (k - 1) PROVE level[n] = low[n]
    <3>1. n \in 0 .. k
      BY <1>3
    <3>2. level[n] = IF n = 0 THEN {m} ELSE {u \in Members : tree[u] \in low[n - 1]}
      BY <3>1
    <3>3. low[n] = IF n = 0 THEN {m} ELSE {u \in Members : tree[u] \in low[n - 1]}
      BY <2>2 DEF IsLevels
    <3> HIDE DEF level
    <3> QED BY <3>2, <3>3
  <2>4. level = [n \in 0 .. k |->
                   IF n = 0 THEN {m} ELSE {u \in Members : tree[u] \in level[n - 1]}]
    <3>1. \A n \in 0 .. k : n # 0 => n - 1 \in 0 .. (k - 1)
      BY <1>3
    <3>2. \A n \in 0 .. k : n # 0 => level[n - 1] = low[n - 1]
      BY <2>3, <3>1
    <3> QED BY <3>2
  <2> HIDE DEF level
  <2>5. IsLevels(level, tree, m, k)
    BY <2>4 DEF IsLevels
  <2> QED BY <1>3, <2>5
<1> QED BY <1>4, <1>5

\* Down to different depths the levels are the same.
LEMMA LevelsAgree ==
  ASSUME NEW tree, NEW m, NEW k \in Nat, NEW l \in Nat, k <= l,
         NEW f, NEW g, IsLevels(f, tree, m, k), IsLevels(g, tree, m, l)
  PROVE  f[k] = g[k]
<1> DEFINE Bad == {j \in 0 .. k : f[j] # g[j]}
<1>1. SUFFICES ASSUME Bad # {} PROVE FALSE
  <2>1. k \in 0 .. k
    OBVIOUS
  <2> QED BY <2>1
<1>2. PICK j \in Bad : \A i \in 0 .. (j - 1) : i \notin Bad
  <2> HIDE DEF Bad
  <2>1. Bad \in SUBSET (0 .. k)
    BY DEF Bad
  <2> QED BY <1>1, <2>1, SmallestNumber
<1>3. j \in 0 .. k /\ f[j] # g[j] /\ j \in 0 .. l
  OBVIOUS
<1>4. /\ f[j] = IF j = 0 THEN {m} ELSE {u \in Members : tree[u] \in f[j - 1]}
      /\ g[j] = IF j = 0 THEN {m} ELSE {u \in Members : tree[u] \in g[j - 1]}
  BY <1>3 DEF IsLevels
<1>5. CASE j = 0
  BY <1>3, <1>4, <1>5
<1>6. CASE j # 0
  <2>1. j - 1 \in 0 .. (j - 1) /\ j - 1 \in 0 .. k
    BY <1>3, <1>6
  <2>2. f[j - 1] = g[j - 1]
    BY <1>2, <2>1
  <2> QED BY <1>3, <1>4, <1>6, <2>2
<1> QED BY <1>5, <1>6

LEMMA TeamStarts ==
  ASSUME NEW tree, NEW m
  PROVE  Team(tree, m, 0) = {m}
<1> DEFINE level == CHOOSE level : IsLevels(level, tree, m, 0)
<1>1. IsLevels(level, tree, m, 0)
  BY LevelsExist
<1>2. Team(tree, m, 0) = level[0]
  BY DEF Team
<1> HIDE DEF level
<1>3. level[0] = {m}
  BY <1>1 DEF IsLevels
<1> QED BY <1>2, <1>3

\* The next level holds those who are sponsored from the one above.
LEMMA TeamNext ==
  ASSUME NEW tree, NEW m, NEW l \in Nat \ {0}
  PROVE  Team(tree, m, l) = {u \in Members : tree[u] \in Team(tree, m, l - 1)}
<1> DEFINE f == CHOOSE level : IsLevels(level, tree, m, l - 1)
           g == CHOOSE level : IsLevels(level, tree, m, l)
<1>1. IsLevels(f, tree, m, l - 1)
  <2>1. l - 1 \in Nat
    OBVIOUS
  <2> QED BY <2>1, LevelsExist
<1>2. IsLevels(g, tree, m, l)
  BY LevelsExist
<1>3. Team(tree, m, l - 1) = f[l - 1] /\ Team(tree, m, l) = g[l]
  BY DEF Team
<1> HIDE DEF f, g
<1>4. f[l - 1] = g[l - 1]
  <2>1. l - 1 \in Nat /\ l - 1 <= l
    OBVIOUS
  <2> QED BY <1>1, <1>2, <2>1, LevelsAgree
<1>5. g[l] = {u \in Members : tree[u] \in g[l - 1]}
  <2>1. l \in 0 .. l /\ l # 0
    OBVIOUS
  <2> QED BY <1>2, <2>1 DEF IsLevels
<1> QED BY <1>3, <1>4, <1>5

LEMMA TeamMembers ==
  ASSUME NEW tree, NEW m \in Members, NEW l \in Nat
  PROVE  Team(tree, m, l) \subseteq Members
<1>1. CASE l = 0
  BY <1>1, TeamStarts
<1>2. CASE l # 0
  BY <1>2, TeamNext
<1> QED BY <1>1, <1>2

\* Nobody is in the own team: otherwise the team down to the member would be
\* a set that nobody's sponsor is outside of.
LEMMA NotInOwnTeam ==
  ASSUME NEW tree, Acyclic(tree), NEW m \in Members, NEW l \in Nat \ {0}
  PROVE  m \notin Team(tree, m, l)
<1> SUFFICES ASSUME m \in Team(tree, m, l) PROVE FALSE
  OBVIOUS
<1> DEFINE S == {v \in Members : \E j \in 1 .. l : v \in Team(tree, m, j)}
<1>1. m \in S
  BY l \in 1 .. l
<1>2. ASSUME NEW v \in S PROVE tree[v] \in S
  <2>1. PICK j \in 1 .. l : v \in Team(tree, m, j)
    OBVIOUS
  <2>2. j \in Nat \ {0} /\ j - 1 \in Nat
    OBVIOUS
  <2>3. tree[v] \in Team(tree, m, j - 1)
    BY <2>1, <2>2, TeamNext
  <2>4. CASE j = 1
    <3>1. tree[v] = m
      BY <2>3, <2>4, TeamStarts
    <3> QED BY <1>1, <3>1
  <2>5. CASE j # 1
    <3>1. j - 1 \in 1 .. l
      BY <2>5
    <3>2. tree[v] \in Members
      BY <2>2, <2>3, TeamMembers
    <3> QED BY <2>3, <3>1, <3>2
  <2> QED BY <2>4, <2>5
<1>3. S \in SUBSET Members /\ S # {}
  BY <1>1
<1> HIDE DEF S
<1> QED BY <1>2, <1>3 DEF Acyclic

\* Nobody is on two levels of a team.
LEMMA LevelsApart ==
  ASSUME NEW tree, Acyclic(tree), NEW m \in Members, NEW k \in Nat, NEW l \in Nat, k < l
  PROVE  Team(tree, m, k) \cap Team(tree, m, l) = {}
<1> DEFINE d == l - k
           Bad == {j \in 0 .. k : \E u : u \in Team(tree, m, j) /\ u \in Team(tree, m, j + d)}
<1>1. SUFFICES ASSUME Bad # {} PROVE FALSE
  <2>1. k \in 0 .. k /\ k + d = l
    OBVIOUS
  <2> HIDE DEF d
  <2> QED BY <2>1
<1>2. PICK j \in Bad : \A i \in 0 .. (j - 1) : i \notin Bad
  <2> HIDE DEF Bad
  <2>1. Bad \in SUBSET (0 .. k)
    BY DEF Bad
  <2> QED BY <1>1, <2>1, SmallestNumber
<1>3. PICK u : u \in Team(tree, m, j) /\ u \in Team(tree, m, j + d)
  OBVIOUS
<1>4. j \in 0 .. k /\ d \in Nat \ {0}
  OBVIOUS
<1> HIDE DEF d
<1>5. CASE j = 0
  <2>1. u = m /\ j + d = d
    BY <1>3, <1>4, <1>5, TeamStarts
  <2> QED BY <1>3, <1>4, <2>1, NotInOwnTeam
<1>6. CASE j # 0
  <2>1. /\ j \in Nat \ {0} /\ j + d \in Nat \ {0} /\ (j + d) - 1 = (j - 1) + d
        /\ j - 1 \in 0 .. (j - 1) /\ j - 1 \in 0 .. k
    BY <1>4, <1>6
  <2>2. tree[u] \in Team(tree, m, j - 1)
    BY <1>3, <2>1, TeamNext
  <2>3. tree[u] \in Team(tree, m, (j - 1) + d)
    <3>1. tree[u] \in Team(tree, m, (j + d) - 1)
      BY <1>3, <2>1, TeamNext
    <3> QED BY <2>1, <3>1
  <2>4. j - 1 \in Bad
    BY <2>1, <2>2, <2>3
  <2> QED BY <1>2, <2>1, <2>4
<1> QED BY <1>5, <1>6

\* A sponsor above whom the member is not makes no cycle.
LEMMA MoveKeepsAcyclic ==
  ASSUME NEW tree \in [Members -> Members \cup {0}], Acyclic(tree),
         NEW m \in Members, NEW s \in Members,
         NEW above \in SUBSET (Members \ {m}), s \in above,
         \A u \in above : tree[u] \in above \cup {0}
  PROVE  Acyclic([tree EXCEPT ![m] = s])
<1> DEFINE moved == [tree EXCEPT ![m] = s]
<1>1. 0 \notin Members
  BY AwardRewardsAssumption
<1>2. moved[m] = s /\ \A u \in Members : u # m => moved[u] = tree[u]
  OBVIOUS
<1> HIDE DEF moved
<1> SUFFICES ASSUME NEW S \in SUBSET Members, S # {}, \A u \in S : moved[u] \in S
             PROVE  FALSE
  BY DEF Acyclic, moved
<1>3. CASE m \notin S
  <2>1. \A u \in S : tree[u] \in S
    BY <1>2, <1>3
  <2> QED BY <2>1 DEF Acyclic
<1>4. CASE m \in S
  <2> DEFINE T == S \cap above
  <2>1. s \in T
    BY <1>2, <1>4
  <2>2. ASSUME NEW u \in T PROVE tree[u] \in T
    <3>1. u # m /\ u \in S /\ u \in above
      OBVIOUS
    <3>2. tree[u] \in S
      BY <1>2, <3>1
    <3> QED BY <1>1, <3>1, <3>2
  <2>3. T \in SUBSET Members /\ T # {}
    BY <2>1
  <2> HIDE DEF T
  <2> QED BY <2>2, <2>3 DEF Acyclic
<1> QED BY <1>3, <1>4

-----------------------------------------------------------------------------
(* The invariant, on the values that the operations compute with.           *)

\* Business of packages.
Spent(pkgs) == [i \in DOMAIN pkgs |-> Price[pkgs[i].kind]]
BusinessIn(pkgs, S) == SumFunctionOnSet(Spent(pkgs), S)

\* What counts for a level of a track.
Counted(pkgs, tree, track, l) ==
  {i \in track.startedAt .. Len(pkgs) : pkgs[i].user \in Team(tree, track.user, l)}

\* A member's tracks follow each other.
OneAfterAnother(all) ==
  \A i, j \in DOMAIN all : all[i].user = all[j].user /\ i < j =>
    all[i].kind # all[j].kind /\ all[i].order < all[j].order /\ ~all[i].open

\* Unless a team has moved since, what a running track has achieved is there.
EarnedSoFar(all, pkgs, tree, moved) ==
  \A i \in DOMAIN all :
    all[i].open /\ (\A t \in moved : t < all[i].startedAt) =>
      \A l \in all[i].achieved :
        all[i].required[l] <= BusinessIn(pkgs, Counted(pkgs, tree, all[i], l))

TracksOK(all, pkgs, tree, moved) ==
  /\ all \in Seq(TrackRows)
  /\ OneAfterAnother(all)
  /\ \A i \in DOMAIN all : all[i].startedAt <= Len(pkgs) + 1
  /\ EarnedSoFar(all, pkgs, tree, moved)

\* One event for each closed track and for no other, credited once.
EventsOK(all, evs, credited) ==
  /\ evs \in Seq(EventRows) /\ credited \in [Members -> Nat]
  /\ \A e \in DOMAIN evs :
       /\ evs[e].track \in DOMAIN all
       /\ all[evs[e].track].user = evs[e].user /\ ~all[evs[e].track].open
  /\ \A e, f \in DOMAIN evs : evs[e].track = evs[f].track => e = f
  /\ \A i \in DOMAIN all : ~all[i].open => \E e \in DOMAIN evs : evs[e].track = i
  /\ \A m \in Members :
       credited[m] = SumFunctionOnSet([e \in DOMAIN evs |-> evs[e].amount],
                                      {e \in DOMAIN evs : evs[e].user = m})

\* The packages that levels were achieved with: bought since the track started
\* and before the next one of the member did, and unless a team has moved
\* since, by members who are on that level.
MetOK(all, pkgs, tree, moved) ==
  \A i \in DOMAIN all : \A l \in Levels :
    /\ all[i].met[l] \subseteq all[i].startedAt .. Len(pkgs)
    /\ \A j \in DOMAIN all : all[j].user = all[i].user /\ i < j =>
         \A p \in all[i].met[l] : p < all[j].startedAt
    /\ (\A t \in moved : t < all[i].startedAt) =>
         \A p \in all[i].met[l] : pkgs[p].user \in Team(tree, all[i].user, l)

RowsOK(all, evs, credited, pkgs, tree, moved) ==
  TracksOK(all, pkgs, tree, moved) /\ EventsOK(all, evs, credited) /\ MetOK(all, pkgs, tree, moved)

AwardInv ==
  /\ AwardTypeOK
  /\ Acyclic(sponsor)
  /\ RowsOK(tracks, events, wallet, packages, sponsor, movedAt)

-----------------------------------------------------------------------------
(* Business.                                                                *)

LEMMA Spending ==
  ASSUME NEW pkgs \in Seq(PackageRows)
  PROVE  /\ Len(pkgs) \in Nat /\ DOMAIN pkgs = 1 .. Len(pkgs) /\ IsFiniteSet(DOMAIN pkgs)
         /\ \A i \in DOMAIN pkgs :
              /\ pkgs[i].user \in Members /\ pkgs[i].kind \in Kinds
              /\ Spent(pkgs)[i] = Price[pkgs[i].kind] /\ Spent(pkgs)[i] \in Nat
<1>1. Len(pkgs) \in Nat /\ DOMAIN pkgs = 1 .. Len(pkgs)
  BY LenProperties
<1>2. IsFiniteSet(DOMAIN pkgs)
  BY <1>1, FS_Interval
<1>3. ASSUME NEW i \in DOMAIN pkgs
      PROVE  /\ pkgs[i].user \in Members /\ pkgs[i].kind \in Kinds
             /\ Spent(pkgs)[i] = Price[pkgs[i].kind] /\ Spent(pkgs)[i] \in Nat
  <2>1. pkgs[i] \in PackageRows
    BY <1>1, ElementOfSeq
  <2>2. Price \in [Kinds -> Nat]
    BY AwardRewardsAssumption
  <2> QED BY <2>1, <2>2 DEF PackageRows, Spent
<1> QED BY <1>1, <1>2, <1>3

LEMMA BusinessGrows ==
  ASSUME NEW pkgs \in Seq(PackageRows), NEW S \in SUBSET DOMAIN pkgs, NEW T \in SUBSET S
  PROVE  /\ BusinessIn(pkgs, T) \in Nat /\ BusinessIn(pkgs, S) \in Nat
         /\ BusinessIn(pkgs, T) <= BusinessIn(pkgs, S)
<1>1. IsFiniteSet(S)
  BY Spending, FS_Subset
<1>2. \A i \in S : Spent(pkgs)[i] \in Nat
  BY Spending
<1> QED BY <1>1, <1>2, SumGrows DEF BusinessIn

\* pkgs has become more, and what was there are the same purchases.
Extends(more, pkgs) ==
  /\ Len(pkgs) <= Len(more)
  /\ \A i \in DOMAIN pkgs : more[i].user = pkgs[i].user /\ more[i].kind = pkgs[i].kind

LEMMA BusinessStays ==
  ASSUME NEW pkgs \in Seq(PackageRows), NEW more \in Seq(PackageRows), Extends(more, pkgs),
         NEW S \in SUBSET DOMAIN pkgs
  PROVE  BusinessIn(more, S) = BusinessIn(pkgs, S)
<1>1. IsFiniteSet(S)
  BY Spending, FS_Subset
<1>2. ASSUME NEW i \in S PROVE Spent(more)[i] = Spent(pkgs)[i]
  <2>1. i \in DOMAIN pkgs /\ i \in DOMAIN more
    BY Spending DEF Extends
  <2>2. Spent(more)[i] = Price[more[i].kind] /\ Spent(pkgs)[i] = Price[pkgs[i].kind]
    BY <2>1, Spending
  <2> QED BY <2>1, <2>2 DEF Extends
<1> QED BY <1>1, <1>2, SumSame DEF BusinessIn

LEMMA CountedAre ==
  ASSUME NEW pkgs \in Seq(PackageRows), NEW tree, NEW track \in TrackRows, NEW l
  PROVE  Counted(pkgs, tree, track, l) \in SUBSET DOMAIN pkgs
<1>1. track.startedAt \in Nat \ {0}
  BY DEF TrackRows
<1> QED BY <1>1, Spending DEF Counted

\* More business for a track.
LEMMA ExtensionGrows ==
  ASSUME NEW pkgs \in Seq(PackageRows), NEW more \in Seq(PackageRows), Extends(more, pkgs),
         NEW tree, NEW track \in TrackRows, NEW l \in Levels
  PROVE  /\ BusinessIn(pkgs, Counted(pkgs, tree, track, l)) \in Nat
         /\ BusinessIn(more, Counted(more, tree, track, l)) \in Nat
         /\ BusinessIn(pkgs, Counted(pkgs, tree, track, l))
              <= BusinessIn(more, Counted(more, tree, track, l))
<1>1. /\ Len(pkgs) \in Nat /\ Len(more) \in Nat /\ Len(pkgs) <= Len(more)
      /\ DOMAIN pkgs = 1 .. Len(pkgs) /\ DOMAIN more = 1 .. Len(more)
      /\ \A i \in DOMAIN pkgs : more[i].user = pkgs[i].user
  BY Spending DEF Extends
<1>2. track.startedAt \in Nat \ {0}
  BY DEF TrackRows
<1>3. Counted(pkgs, tree, track, l) \in SUBSET Counted(more, tree, track, l)
  BY <1>1, <1>2 DEF Counted
<1>4. /\ Counted(pkgs, tree, track, l) \in SUBSET DOMAIN pkgs
      /\ Counted(more, tree, track, l) \in SUBSET DOMAIN more
  BY CountedAre
<1>5. BusinessIn(more, Counted(pkgs, tree, track, l))
        = BusinessIn(pkgs, Counted(pkgs, tree, track, l))
  BY <1>4, BusinessStays
<1> QED BY <1>3, <1>4, <1>5, BusinessGrows

-----------------------------------------------------------------------------
(* Starting a track.                                                        *)

\* A sequence with one more element.
LEMMA AppendIs ==
  ASSUME NEW S, NEW s \in Seq(S), NEW x
  PROVE  /\ Len(s) \in Nat /\ DOMAIN s = 1 .. Len(s)
         /\ DOMAIN Append(s, x) = 1 .. Len(s) + 1 /\ Append(s, x)[Len(s) + 1] = x
         /\ \A i \in DOMAIN s : Append(s, x)[i] = s[i]
BY LenProperties

\* What startTrack may do: nothing, or add a track from zero that comes after
\* all the member has had.
Starts(new, all, m, n) ==
  \/ new = all
  \/ \E t \in TrackRows :
       /\ new = Append(all, t)
       /\ t.user = m /\ t.open /\ t.startedAt = n + 1
       /\ \A i \in DOMAIN all : all[i].user = m =>
            all[i].kind # t.kind /\ all[i].order < t.order
       /\ \A l \in t.achieved : t.required[l] = 0
       /\ \A l \in Levels : t.met[l] = {}

LEMMA TrackFields ==
  ASSUME NEW all \in Seq(TrackRows)
  PROVE  /\ Len(all) \in Nat /\ DOMAIN all = 1 .. Len(all)
         /\ \A i \in DOMAIN all :
              /\ all[i] \in TrackRows
              /\ all[i].user \in Members /\ all[i].kind \in Kinds
              /\ all[i].order \in Nat /\ all[i].award \in Nat
              /\ all[i].required \in [Levels -> Nat] /\ all[i].startedAt \in Nat \ {0}
              /\ all[i].open \in BOOLEAN /\ all[i].business \in [Levels -> Nat]
              /\ all[i].achieved \subseteq Levels /\ all[i].met \in [Levels -> SUBSET Nat]
<1>1. Len(all) \in Nat /\ DOMAIN all = 1 .. Len(all)
  BY LenProperties
<1>2. \A i \in DOMAIN all : all[i] \in TrackRows
  BY <1>1, ElementOfSeq
<1> QED BY <1>1, <1>2 DEF TrackRows

LEMMA EventFields ==
  ASSUME NEW evs \in Seq(EventRows)
  PROVE  /\ Len(evs) \in Nat /\ DOMAIN evs = 1 .. Len(evs) /\ IsFiniteSet(DOMAIN evs)
         /\ \A e \in DOMAIN evs :
              evs[e].track \in Nat /\ evs[e].user \in Members /\ evs[e].amount \in Nat
<1>1. Len(evs) \in Nat /\ DOMAIN evs = 1 .. Len(evs)
  BY LenProperties
<1>2. IsFiniteSet(DOMAIN evs)
  BY <1>1, FS_Interval
<1>3. \A e \in DOMAIN evs : evs[e] \in EventRows
  BY <1>1, ElementOfSeq
<1> QED BY <1>1, <1>2, <1>3 DEF EventRows

\* Every track of a member has a place in the order up to the largest.
LEMMA OrdersBelow ==
  ASSUME NEW all \in Seq(TrackRows), NEW m
  PROVE  MaxOrder(all, m) \in Nat /\ \A i \in TracksOf(all, m) : all[i].order <= MaxOrder(all, m)
<1> DEFINE own == TracksOf(all, m)
           f == [i \in own |-> all[i].order]
           orders == {f[i] : i \in own}
           S == {0} \cup {all[i].order : i \in own}
<1>1. IsFiniteSet(own) /\ own \subseteq DOMAIN all
  <2>1. IsFiniteSet(DOMAIN all)
    <3>1. Len(all) \in Nat /\ DOMAIN all = 1 .. Len(all)
      BY TrackFields
    <3> QED BY <3>1, FS_Interval
  <2> QED BY <2>1, FS_Subset DEF TracksOf
<1>2. IsFiniteSet(orders)
  <2>1. DOMAIN f = own /\ f = [i \in own |-> f[i]]
    OBVIOUS
  <2> HIDE DEF f, own
  <2> QED BY <1>1, <2>1, ImageFinite
<1>3. S = orders \cup {0}
  OBVIOUS
<1>4. IsFiniteSet(S)
  <2> HIDE DEF S, orders
  <2> QED BY <1>2, <1>3, FS_AddElement
<1>5. S \subseteq Nat /\ 0 \in S /\ \A i \in own : all[i].order \in S
  BY <1>1, TrackFields
<1>6. MaxOrder(all, m) = Max(S)
  BY DEF MaxOrder
<1> HIDE DEF S
<1>7. Max(S) \in S /\ \A x \in S : x <= Max(S)
  <2>1. S # {} /\ S \subseteq Int
    BY <1>5
  <2> QED BY <1>4, <2>1, MaxOf
<1> QED BY <1>5, <1>6, <1>7

LEMMA StartIs ==
  ASSUME AwardTypeOK, NEW all \in Seq(TrackRows), NEW m \in Members
  PROVE  Starts(StartTrack(all, m), all, m, Len(packages))
<1> DEFINE policy == Policies[effective]
           first == {k \in Candidates(all, m) :
                       \A j \in Candidates(all, m) : policy.order[k] <= policy.order[j]}
           k == CHOOSE k \in first : TRUE
           t == NewTrack(policy, m, k)
<1>1. StartTrack(all, m) = IF first = {} THEN all ELSE Append(all, t)
  BY DEF StartTrack
<1>2. SUFFICES ASSUME first # {} PROVE Starts(Append(all, t), all, m, Len(packages))
  BY <1>1 DEF Starts
<1>3. k \in Candidates(all, m)
  BY <1>2
<1>4. /\ k \in Kinds /\ effective > 0
      /\ policy.order[k] > MaxOrder(all, m) /\ \A i \in TracksOf(all, m) : all[i].kind # k
  BY <1>3 DEF Candidates, PolicyInEffect
<1>5. ValidMatrix(policy)
  <2>1. Policies \in Seq(Range(Policies)) /\ \A i \in DOMAIN Policies : ValidMatrix(Policies[i])
    BY AwardRewardsAssumption
  <2>2. effective \in DOMAIN Policies
    BY <1>4, <2>1, LenProperties DEF AwardTypeOK
  <2> QED BY <2>1, <2>2
<1>6. /\ policy.order \in [Kinds -> Nat] /\ policy.award \in [Kinds -> Nat]
      /\ policy.required \in [Kinds -> [Levels -> Nat]]
  BY <1>5 DEF ValidMatrix
<1>7. Now \in Nat \ {0} /\ Now = Len(packages) + 1
  <2>1. Len(packages) \in Nat
    BY LenProperties DEF AwardTypeOK
  <2> QED BY <2>1 DEF Now
<1> HIDE DEF k, first, policy
<1>8. /\ t = [user |-> m, kind |-> k, order |-> policy.order[k], award |-> policy.award[k],
              required |-> policy.required[k], startedAt |-> Now, open |-> TRUE,
              business |-> [l \in Levels |-> 0],
              achieved |-> {l \in Levels : policy.required[k][l] = 0},
              met |-> [l \in Levels |-> {}]]
  BY DEF NewTrack
<1>9. t \in TrackRows
  <2>1. [l \in Levels |-> 0] \in [Levels -> Nat]
    OBVIOUS
  <2>2. {l \in Levels : policy.required[k][l] = 0} \in SUBSET Levels
    OBVIOUS
  <2>3. [l \in Levels |-> {}] \in [Levels -> SUBSET Nat]
    OBVIOUS
  <2> QED BY <1>4, <1>6, <1>7, <1>8, <2>1, <2>2, <2>3 DEF TrackRows
<1>10. /\ t.user = m /\ t.open /\ t.startedAt = Len(packages) + 1 /\ t.kind = k
       /\ t.order = policy.order[k] /\ \A l \in t.achieved : t.required[l] = 0
       /\ \A l \in Levels : t.met[l] = {}
  BY <1>7, <1>8
<1>11. \A i \in DOMAIN all : all[i].user = m => all[i].kind # t.kind /\ all[i].order < t.order
  <2>1. SUFFICES ASSUME NEW i \in DOMAIN all, all[i].user = m
                 PROVE  all[i].kind # t.kind /\ all[i].order < t.order
    OBVIOUS
  <2>2. i \in TracksOf(all, m)
    BY <2>1 DEF TracksOf
  <2>3. all[i].order <= MaxOrder(all, m) /\ MaxOrder(all, m) \in Nat /\ all[i].order \in Nat
    BY <2>2, OrdersBelow, TrackFields
  <2> QED BY <1>4, <1>6, <1>10, <2>2, <2>3
<1> QED BY <1>9, <1>10, <1>11 DEF Starts

LEMMA StartKeeps ==
  ASSUME NEW pkgs \in Seq(PackageRows), NEW tree, NEW moved, NEW all, NEW evs, NEW credited,
         NEW m, RowsOK(all, evs, credited, pkgs, tree, moved),
         \A i \in DOMAIN all : all[i].user = m => ~all[i].open,
         NEW new, Starts(new, all, m, Len(pkgs))
  PROVE  RowsOK(new, evs, credited, pkgs, tree, moved)
<1>1. SUFFICES ASSUME NEW t \in TrackRows, new = Append(all, t),
                      t.user = m, t.open, t.startedAt = Len(pkgs) + 1,
                      \A i \in DOMAIN all : all[i].user = m =>
                        all[i].kind # t.kind /\ all[i].order < t.order,
                      \A l \in t.achieved : t.required[l] = 0,
                      \A l \in Levels : t.met[l] = {}
               PROVE  RowsOK(new, evs, credited, pkgs, tree, moved)
  BY DEF Starts
<1>2. /\ all \in Seq(TrackRows) /\ OneAfterAnother(all)
      /\ \A i \in DOMAIN all : all[i].startedAt <= Len(pkgs) + 1
      /\ EarnedSoFar(all, pkgs, tree, moved)
  BY DEF RowsOK, TracksOK
<1>3. Len(pkgs) \in Nat
  BY Spending
<1> DEFINE n == Len(all)
<1>4. /\ n \in Nat /\ DOMAIN all = 1 .. n /\ new \in Seq(TrackRows) /\ DOMAIN new = 1 .. n + 1
      /\ new[n + 1] = t /\ \A i \in 1 .. n : new[i] = all[i]
  BY <1>1, <1>2, AppendProperties, LenProperties
<1> HIDE DEF n
<1>5. ASSUME NEW i \in DOMAIN new
      PROVE  (i \in DOMAIN all /\ new[i] = all[i]) \/ (i = n + 1 /\ new[i] = t)
  <2>1. i \in 1 .. n \/ i = n + 1
    BY <1>4
  <2> QED BY <1>4, <2>1
<1>6. OneAfterAnother(new)
  <2> SUFFICES ASSUME NEW i \in DOMAIN new, NEW j \in DOMAIN new, new[i].user = new[j].user, i < j
               PROVE  new[i].kind # new[j].kind /\ new[i].order < new[j].order /\ ~new[i].open
    BY DEF OneAfterAnother
  <2>1. i \in DOMAIN all /\ new[i] = all[i]
    BY <1>4, <1>5
  <2>2. CASE j \in DOMAIN all
    <3>1. new[j] = all[j]
      BY <1>4, <2>2
    <3> QED BY <1>2, <2>1, <2>2, <3>1 DEF OneAfterAnother
  <2>3. CASE j = n + 1
    BY <1>1, <1>4, <2>1, <2>3
  <2> QED BY <1>5, <2>2, <2>3
<1>7. \A i \in DOMAIN new : new[i].startedAt <= Len(pkgs) + 1
  BY <1>1, <1>2, <1>3, <1>5
<1>8. EarnedSoFar(new, pkgs, tree, moved)
  <2> SUFFICES ASSUME NEW i \in DOMAIN new, new[i].open, \A x \in moved : x < new[i].startedAt,
                      NEW l \in new[i].achieved
               PROVE  new[i].required[l] <= BusinessIn(pkgs, Counted(pkgs, tree, new[i], l))
    BY DEF EarnedSoFar
  <2>1. CASE i \in DOMAIN all /\ new[i] = all[i]
    BY <1>2, <2>1 DEF EarnedSoFar
  <2>2. CASE new[i] = t
    <3>1. BusinessIn(pkgs, Counted(pkgs, tree, t, l)) \in Nat
      BY CountedAre, BusinessGrows
    <3> QED BY <1>1, <2>2, <3>1
  <2> QED BY <1>5, <2>1, <2>2
<1>9. EventsOK(new, evs, credited)
  <2>1. EventsOK(all, evs, credited)
    BY DEF RowsOK
  <2>2. /\ \A e \in DOMAIN evs :
             /\ evs[e].track \in DOMAIN new
             /\ new[evs[e].track].user = evs[e].user /\ ~new[evs[e].track].open
        /\ \A i \in DOMAIN new : ~new[i].open => \E e \in DOMAIN evs : evs[e].track = i
    BY <1>1, <1>4, <1>5, <2>1 DEF EventsOK
  <2> QED BY <2>1, <2>2 DEF EventsOK
<1>10. MetOK(new, pkgs, tree, moved)
  <2> SUFFICES ASSUME NEW i \in DOMAIN new, NEW l \in Levels
               PROVE  /\ new[i].met[l] \subseteq new[i].startedAt .. Len(pkgs)
                      /\ \A j \in DOMAIN new : new[j].user = new[i].user /\ i < j =>
                           \A p \in new[i].met[l] : p < new[j].startedAt
                      /\ (\A x \in moved : x < new[i].startedAt) =>
                           \A p \in new[i].met[l] : pkgs[p].user \in Team(tree, new[i].user, l)
    BY DEF MetOK
  <2>1. CASE i \in DOMAIN all /\ new[i] = all[i]
    <3>1. /\ all[i].met[l] \subseteq all[i].startedAt .. Len(pkgs)
          /\ \A j \in DOMAIN all : all[j].user = all[i].user /\ i < j =>
               \A p \in all[i].met[l] : p < all[j].startedAt
          /\ (\A x \in moved : x < all[i].startedAt) =>
               \A p \in all[i].met[l] : pkgs[p].user \in Team(tree, all[i].user, l)
      BY <2>1 DEF RowsOK, MetOK
    <3>2. all[i].startedAt \in Nat
      BY <1>2, <2>1, TrackFields
    <3>3. \A p \in all[i].met[l] : p < t.startedAt
      BY <1>1, <1>3, <3>1, <3>2
    <3> QED BY <1>5, <2>1, <3>1, <3>3
  <2>2. CASE new[i] = t
    BY <1>1, <2>2
  <2> QED BY <1>5, <2>1, <2>2
<1> QED BY <1>4, <1>6, <1>7, <1>8, <1>9, <1>10 DEF RowsOK, TracksOK

-----------------------------------------------------------------------------
(* Counting the business of a track.                                        *)

\* What recalculateProgress makes of a track.
Counts(new, track, pkgs, tree) ==
  /\ new \in TrackRows
  /\ new.user = track.user /\ new.kind = track.kind /\ new.order = track.order
  /\ new.award = track.award /\ new.required = track.required
  /\ new.startedAt = track.startedAt /\ new.open = track.open
  /\ \A l \in Levels : new.business[l] = BusinessIn(pkgs, Counted(pkgs, tree, track, l))
  /\ \A l \in new.achieved : l \in track.achieved \/ new.required[l] <= new.business[l]
  /\ \A l \in Levels : new.met[l] \in {track.met[l], Counted(pkgs, tree, track, l)}

LEMMA LevelBusinessIs ==
  ASSUME NEW track, NEW l
  PROVE  /\ LevelPackages(track, l) = Counted(packages, sponsor, track, l)
         /\ LevelBusiness(track, l) = BusinessIn(packages, Counted(packages, sponsor, track, l))
<1>1. TeamLevel(track.user, l) = Team(sponsor, track.user, l)
  BY TeamIs
<1>2. LevelPackages(track, l) = Counted(packages, sponsor, track, l)
  BY <1>1 DEF LevelPackages, Counted
<1> QED BY <1>2 DEF LevelBusiness, Business, BusinessIn, Spent

LEMMA RecalculatedIs ==
  ASSUME AwardTypeOK, NEW track \in TrackRows
  PROVE  Counts(Recalculated(track), track, packages, sponsor)
<1> DEFINE business == [l \in Levels |-> LevelBusiness(track, l)]
           reached == {l \in Levels : business[l] >= track.required[l]}
           met == [l \in Levels |-> IF l \in reached \ track.achieved
                                    THEN LevelPackages(track, l) ELSE track.met[l]]
           new == Recalculated(track)
<1>1. new = [track EXCEPT !.business = business, !.achieved = @ \cup reached, !.met = met]
  BY DEF Recalculated
<1>2. ASSUME NEW l \in Levels
      PROVE  /\ business[l] = BusinessIn(packages, Counted(packages, sponsor, track, l))
             /\ business[l] \in Nat
  <2>1. packages \in Seq(PackageRows)
    BY DEF AwardTypeOK
  <2>2. BusinessIn(packages, Counted(packages, sponsor, track, l)) \in Nat
    BY <2>1, CountedAre, BusinessGrows
  <2> QED BY <2>2, LevelBusinessIs
<1>3. business \in [Levels -> Nat]
  <2>1. business = [l \in Levels |-> business[l]]
    OBVIOUS
  <2> HIDE DEF business
  <2> QED BY <1>2, <2>1
<1>4. track.required \in [Levels -> Nat]
  BY DEF TrackRows
<1>5. reached \subseteq Levels /\ \A l \in reached : track.required[l] <= business[l]
  <2> HIDE DEF business
  <2> QED BY <1>3, <1>4
<1>6. /\ met \in [Levels -> SUBSET Nat]
      /\ \A l \in Levels : met[l] \in {track.met[l], Counted(packages, sponsor, track, l)}
  <2>1. ASSUME NEW l \in Levels
        PROVE  /\ met[l] \in {track.met[l], Counted(packages, sponsor, track, l)}
               /\ met[l] \in SUBSET Nat
    <3>1. track.met \in [Levels -> SUBSET Nat]
      BY DEF TrackRows
    <3>2. Counted(packages, sponsor, track, l) \in SUBSET Nat
      <4>1. packages \in Seq(PackageRows)
        BY DEF AwardTypeOK
      <4> QED BY <4>1, CountedAre, Spending
    <3>3. met[l] = IF l \in reached \ track.achieved
                   THEN LevelPackages(track, l) ELSE track.met[l]
      OBVIOUS
    <3> HIDE DEF met, reached
    <3> QED BY <3>1, <3>2, <3>3, LevelBusinessIs
  <2>2. met = [l \in Levels |-> met[l]]
    OBVIOUS
  <2> HIDE DEF met
  <2> QED BY <2>1, <2>2
<1> HIDE DEF business, reached, met, new
<1>7. new \in TrackRows
  BY <1>1, <1>3, <1>5, <1>6 DEF TrackRows
<1>8. /\ new.user = track.user /\ new.kind = track.kind /\ new.order = track.order
      /\ new.award = track.award /\ new.required = track.required
      /\ new.startedAt = track.startedAt /\ new.open = track.open
      /\ new.business = business /\ new.achieved = track.achieved \cup reached
      /\ new.met = met
  BY <1>1 DEF TrackRows
<1> QED BY <1>2, <1>5, <1>6, <1>7, <1>8 DEF Counts, new

LEMMA CountKeeps ==
  ASSUME NEW pkgs \in Seq(PackageRows), NEW tree, NEW moved, NEW all, NEW evs, NEW credited,
         RowsOK(all, evs, credited, pkgs, tree, moved),
         NEW i \in DOMAIN all, all[i].open, NEW t, Counts(t, all[i], pkgs, tree)
  PROVE  RowsOK([all EXCEPT ![i] = t], evs, credited, pkgs, tree, moved)
<1> DEFINE new == [all EXCEPT ![i] = t]
<1>1. /\ all \in Seq(TrackRows) /\ OneAfterAnother(all)
      /\ \A j \in DOMAIN all : all[j].startedAt <= Len(pkgs) + 1
      /\ EarnedSoFar(all, pkgs, tree, moved)
      /\ EventsOK(all, evs, credited) /\ MetOK(all, pkgs, tree, moved)
  BY DEF RowsOK, TracksOK
<1>2. /\ t \in TrackRows
      /\ t.user = all[i].user /\ t.kind = all[i].kind /\ t.order = all[i].order
      /\ t.required = all[i].required /\ t.startedAt = all[i].startedAt /\ t.open = all[i].open
      /\ \A l \in Levels : t.business[l] = BusinessIn(pkgs, Counted(pkgs, tree, all[i], l))
      /\ \A l \in t.achieved : l \in all[i].achieved \/ t.required[l] <= t.business[l]
      /\ t.achieved \subseteq Levels
      /\ \A l \in Levels : t.met[l] \in {all[i].met[l], Counted(pkgs, tree, all[i], l)}
  BY DEF Counts, TrackRows
<1>3. new \in Seq(TrackRows) /\ DOMAIN new = DOMAIN all
  BY <1>1, <1>2, ExceptSeq
<1>4. new[i] = t /\ \A j \in DOMAIN all : j # i => new[j] = all[j]
  OBVIOUS
<1> HIDE DEF new
<1>5. \A j \in DOMAIN new :
        /\ new[j].user = all[j].user /\ new[j].kind = all[j].kind /\ new[j].order = all[j].order
        /\ new[j].startedAt = all[j].startedAt /\ new[j].open = all[j].open
  BY <1>2, <1>3, <1>4
<1>6. OneAfterAnother(new)
  BY <1>1, <1>3, <1>5 DEF OneAfterAnother
<1>7. \A j \in DOMAIN new : new[j].startedAt <= Len(pkgs) + 1
  BY <1>1, <1>3, <1>5
<1>8. EarnedSoFar(new, pkgs, tree, moved)
  <2> SUFFICES ASSUME NEW j \in DOMAIN new, new[j].open, \A x \in moved : x < new[j].startedAt,
                      NEW l \in new[j].achieved
               PROVE  new[j].required[l] <= BusinessIn(pkgs, Counted(pkgs, tree, new[j], l))
    BY DEF EarnedSoFar
  <2>1. CASE j # i
    BY <1>1, <1>3, <1>4, <2>1 DEF EarnedSoFar
  <2>2. CASE j = i
    <3>1. Counted(pkgs, tree, new[j], l) = Counted(pkgs, tree, all[i], l)
      BY <1>2, <1>4, <2>2 DEF Counted
    <3>2. l \in Levels
      BY <1>2, <1>4, <2>2
    <3>3. CASE l \in all[i].achieved
      BY <1>1, <1>2, <1>3, <1>4, <1>5, <2>2, <3>1, <3>3 DEF EarnedSoFar
    <3>4. CASE t.required[l] <= t.business[l]
      BY <1>2, <1>4, <2>2, <3>1, <3>2, <3>4
    <3> QED BY <1>2, <1>4, <2>2, <3>3, <3>4
  <2> QED BY <2>1, <2>2
<1>9. EventsOK(new, evs, credited)
  <2>1. ASSUME NEW e \in DOMAIN evs
        PROVE  /\ evs[e].track \in DOMAIN new
               /\ new[evs[e].track].user = evs[e].user /\ ~new[evs[e].track].open
    <3>1. /\ evs[e].track \in DOMAIN all
          /\ all[evs[e].track].user = evs[e].user /\ ~all[evs[e].track].open
      BY <1>1 DEF EventsOK
    <3> QED BY <1>3, <1>5, <3>1
  <2>2. ASSUME NEW j \in DOMAIN new, ~new[j].open PROVE \E e \in DOMAIN evs : evs[e].track = j
    <3>1. j \in DOMAIN all /\ ~all[j].open
      BY <1>3, <1>5, <2>2
    <3> QED BY <1>1, <3>1 DEF EventsOK
  <2> QED BY <1>1, <2>1, <2>2 DEF EventsOK
<1>10. MetOK(new, pkgs, tree, moved)
  <2> SUFFICES ASSUME NEW j \in DOMAIN new, NEW l \in Levels
               PROVE  /\ new[j].met[l] \subseteq new[j].startedAt .. Len(pkgs)
                      /\ \A k \in DOMAIN new : new[k].user = new[j].user /\ j < k =>
                           \A p \in new[j].met[l] : p < new[k].startedAt
                      /\ (\A x \in moved : x < new[j].startedAt) =>
                           \A p \in new[j].met[l] : pkgs[p].user \in Team(tree, new[j].user, l)
    BY DEF MetOK
  <2>1. /\ all[j].met[l] \subseteq all[j].startedAt .. Len(pkgs)
        /\ \A k \in DOMAIN all : all[k].user = all[j].user /\ j < k =>
             \A p \in all[j].met[l] : p < all[k].startedAt
        /\ (\A x \in moved : x < all[j].startedAt) =>
             \A p \in all[j].met[l] : pkgs[p].user \in Team(tree, all[j].user, l)
    BY <1>1, <1>3 DEF MetOK
  <2>2. CASE new[j].met[l] = all[j].met[l]
    BY <1>3, <1>5, <2>1, <2>2
  <2>3. CASE j = i /\ new[j].met[l] = Counted(pkgs, tree, all[i], l)
    <3>1. \A k \in DOMAIN new : ~ (new[k].user = new[j].user /\ j < k)
      BY <1>1, <1>3, <1>5, <2>3 DEF OneAfterAnother
    <3> QED BY <1>3, <1>5, <2>3, <3>1 DEF Counted
  <2> QED BY <1>2, <1>3, <1>4, <2>2, <2>3
<1> QED BY <1>3, <1>6, <1>7, <1>8, <1>9, <1>10 DEF RowsOK, TracksOK, new

-----------------------------------------------------------------------------
(* Closing a track and paying its award.                                    *)

\* What one more event adds to the sums over the events of its member, and
\* that it adds nothing to those of the others.
LEMMA EventSums ==
  ASSUME NEW n \in Nat, NEW f \in [1 .. n -> Nat], NEW g \in [1 .. n + 1 -> Nat],
         \A e \in 1 .. n : g[e] = f[e], NEW S \in SUBSET (1 .. n)
  PROVE  /\ SumFunctionOnSet(f, S) \in Nat
         /\ SumFunctionOnSet(g, S) = SumFunctionOnSet(f, S)
         /\ SumFunctionOnSet(g, S \cup {n + 1}) = g[n + 1] + SumFunctionOnSet(f, S)
<1>1. IsFiniteSet(S)
  <2>1. IsFiniteSet(1 .. n)
    BY FS_Interval
  <2> QED BY <2>1, FS_Subset
<1>2. \A e \in S : f[e] \in Nat /\ g[e] = f[e] /\ e \in 1 .. n + 1 /\ e # n + 1
  OBVIOUS
<1>3. SumFunctionOnSet(f, S) \in Nat
  BY <1>1, <1>2, SumNat
<1>4. SumFunctionOnSet(g, S) = SumFunctionOnSet(f, S)
  BY <1>1, <1>2, SumSame
<1>5. n + 1 \notin S /\ \A e \in S \cup {n + 1} : g[e] \in Int
  BY <1>2
<1>6. SumFunctionOnSet(g, S \cup {n + 1}) = g[n + 1] + SumFunctionOnSet(g, S)
  BY <1>1, <1>5, SumAdd
<1> QED BY <1>3, <1>4, <1>6

\* The function those sums are of, and the events they are over.
Amounts(evs) == [e \in DOMAIN evs |-> evs[e].amount]
EventsFor(evs, m) == {e \in DOMAIN evs : evs[e].user = m}

LEMMA EventNumbers ==
  ASSUME NEW evs \in Seq(EventRows)
  PROVE  Amounts(evs) \in [1 .. Len(evs) -> Nat]
BY EventFields DEF Amounts

LEMMA OneMoreEvent ==
  ASSUME NEW evs \in Seq(EventRows), NEW event \in EventRows, NEW m
  PROVE  LET more == Append(evs, event)
         IN /\ more \in Seq(EventRows) /\ Len(evs) \in Nat
            /\ DOMAIN evs = 1 .. Len(evs) /\ DOMAIN more = 1 .. Len(evs) + 1
            /\ more[Len(evs) + 1] = event /\ \A e \in DOMAIN evs : more[e] = evs[e]
            /\ SumFunctionOnSet(Amounts(evs), EventsFor(evs, m)) \in Nat
            /\ SumFunctionOnSet(Amounts(more), EventsFor(more, m))
                 = SumFunctionOnSet(Amounts(evs), EventsFor(evs, m))
                     + IF event.user = m THEN event.amount ELSE 0
<1> DEFINE more == Append(evs, event)
           n == Len(evs)
           S == EventsFor(evs, m)
           f == Amounts(evs)
           g == Amounts(more)
<1>1. /\ n \in Nat /\ DOMAIN evs = 1 .. n /\ more \in Seq(EventRows)
      /\ DOMAIN more = 1 .. n + 1 /\ more[n + 1] = event /\ \A e \in 1 .. n : more[e] = evs[e]
      /\ Len(more) = n + 1
  BY AppendProperties, LenProperties
<1> HIDE DEF more, n
<1>2. f \in [1 .. n -> Nat]
  BY EventNumbers DEF n
<1>3. g \in [1 .. n + 1 -> Nat]
  BY <1>1, EventNumbers
<1>4. g[n + 1] = event.amount /\ \A e \in 1 .. n : g[e] = f[e]
  <2>1. n + 1 \in 1 .. n + 1 /\ \A e \in 1 .. n : e \in 1 .. n + 1
    BY <1>1
  <2> QED BY <1>1, <2>1 DEF Amounts
<1>5. S \in SUBSET (1 .. n)
  BY <1>1 DEF EventsFor
<1>6. EventsFor(more, m) = IF event.user = m THEN S \cup {n + 1} ELSE S
  <2>1. \A e \in DOMAIN more : e \in 1 .. n \/ e = n + 1
    BY <1>1
  <2>2. n + 1 \in DOMAIN more /\ \A e \in 1 .. n : e \in DOMAIN more
    BY <1>1
  <2> QED BY <1>1, <2>1, <2>2 DEF EventsFor
<1> HIDE DEF S, f, g
<1>7. /\ SumFunctionOnSet(f, S) \in Nat
      /\ SumFunctionOnSet(g, S) = SumFunctionOnSet(f, S)
      /\ SumFunctionOnSet(g, S \cup {n + 1}) = g[n + 1] + SumFunctionOnSet(f, S)
  BY <1>1, <1>2, <1>3, <1>4, <1>5, EventSums
<1>8. event.amount \in Nat
  BY DEF EventRows
<1>9. SumFunctionOnSet(g, EventsFor(more, m))
        = SumFunctionOnSet(f, S) + IF event.user = m THEN event.amount ELSE 0
  BY <1>4, <1>6, <1>7, <1>8
<1> QED BY <1>1, <1>7, <1>9 DEF more, n, S, f, g

\* What the award of the i-th track changes.
Closed(all, i) == [all EXCEPT ![i].open = FALSE]
EventFor(all, i) ==
  [track |-> i, user |-> all[i].user, amount |-> all[i].award]
CreditedFor(credited, track) == [credited EXCEPT ![track.user] = @ + track.award]

LEMMA PayKeeps ==
  ASSUME NEW pkgs \in Seq(PackageRows), NEW tree, NEW moved,
         NEW all, NEW evs, NEW credited, RowsOK(all, evs, credited, pkgs, tree, moved),
         NEW i \in DOMAIN all, all[i].open
  PROVE  /\ RowsOK(Closed(all, i), Append(evs, EventFor(all, i)), CreditedFor(credited, all[i]),
                   pkgs, tree, moved)
         /\ \A j \in DOMAIN Closed(all, i) :
              Closed(all, i)[j].user = all[i].user => ~Closed(all, i)[j].open
<1> DEFINE event == EventFor(all, i)
           closed == Closed(all, i)
           more == CreditedFor(credited, all[i])
<1>0. /\ event = [track |-> i, user |-> all[i].user, amount |-> all[i].award]
      /\ closed = [all EXCEPT ![i].open = FALSE]
      /\ more = [credited EXCEPT ![all[i].user] = @ + all[i].award]
  BY DEF EventFor, Closed, CreditedFor
<1> HIDE DEF event, closed, more
<1> DEFINE m == all[i].user
           n == Len(evs)
           after == Append(evs, event)
<1>1. /\ all \in Seq(TrackRows) /\ OneAfterAnother(all)
      /\ \A j \in DOMAIN all : all[j].startedAt <= Len(pkgs) + 1
      /\ EarnedSoFar(all, pkgs, tree, moved)
      /\ EventsOK(all, evs, credited) /\ MetOK(all, pkgs, tree, moved)
  BY DEF RowsOK, TracksOK
<1>2. /\ m \in Members /\ i \in Nat /\ all[i] \in TrackRows /\ all[i].award \in Nat
      /\ evs \in Seq(EventRows) /\ credited \in [Members -> Nat]
  BY <1>1, TrackFields DEF EventsOK
<1>3. event \in EventRows /\ event.user = m /\ event.track = i /\ event.amount = all[i].award
  BY <1>0, <1>2 DEF EventRows
<1>4. /\ closed \in Seq(TrackRows) /\ DOMAIN closed = DOMAIN all
      /\ ~closed[i].open /\ closed[i].user = m /\ closed[i].kind = all[i].kind
      /\ closed[i].order = all[i].order /\ closed[i].startedAt = all[i].startedAt
      /\ closed[i].met = all[i].met
      /\ \A j \in DOMAIN all : j # i => closed[j] = all[j]
  <2>1. closed = [all EXCEPT ![i] = [all[i] EXCEPT !.open = FALSE]]
    BY <1>0
  <2> DEFINE t == [all[i] EXCEPT !.open = FALSE]
  <2>2. /\ t \in TrackRows /\ ~t.open /\ t.user = m /\ t.kind = all[i].kind
        /\ t.order = all[i].order /\ t.startedAt = all[i].startedAt /\ t.met = all[i].met
    BY <1>2 DEF TrackRows
  <2> HIDE DEF t
  <2>3. closed \in Seq(TrackRows) /\ DOMAIN closed = DOMAIN all
    BY <1>1, <2>1, <2>2, ExceptSeq DEF t
  <2>4. closed[i] = t
    BY <2>1 DEF t
  <2> QED BY <2>1, <2>2, <2>3, <2>4
<1>5. \A j \in DOMAIN closed :
        /\ closed[j].user = all[j].user /\ closed[j].kind = all[j].kind
        /\ closed[j].order = all[j].order /\ closed[j].startedAt = all[j].startedAt
        /\ closed[j].met = all[j].met
        /\ closed[j].open => all[j].open /\ j # i /\ closed[j] = all[j]
        /\ ~closed[j].open => ~all[j].open \/ j = i
  BY <1>4
<1>6. \A j \in DOMAIN all : all[j].user = m /\ j # i => ~all[j].open
  <2>1. SUFFICES ASSUME NEW j \in DOMAIN all, all[j].user = m, j # i PROVE ~all[j].open
    OBVIOUS
  <2>2. i < j \/ j < i
    BY <1>1, <2>1, TrackFields
  <2> QED BY <1>1, <2>1, <2>2 DEF OneAfterAnother
<1>7. \A j \in DOMAIN closed : closed[j].user = m => ~closed[j].open
  BY <1>4, <1>5, <1>6
<1>8. TracksOK(closed, pkgs, tree, moved)
  <2>1. OneAfterAnother(closed)
    BY <1>1, <1>4, <1>5 DEF OneAfterAnother
  <2>2. EarnedSoFar(closed, pkgs, tree, moved)
    BY <1>1, <1>4, <1>5 DEF EarnedSoFar
  <2>3. \A j \in DOMAIN closed : closed[j].startedAt <= Len(pkgs) + 1
    BY <1>1, <1>4, <1>5
  <2> QED BY <1>4, <2>1, <2>2, <2>3 DEF TracksOK
<1>9. /\ after \in Seq(EventRows) /\ n \in Nat
      /\ DOMAIN evs = 1 .. n /\ DOMAIN after = 1 .. n + 1
      /\ after[n + 1] = event /\ \A e \in DOMAIN evs : after[e] = evs[e]
  BY <1>2, <1>3, OneMoreEvent
<1>10. \A u : /\ SumFunctionOnSet(Amounts(evs), EventsFor(evs, u)) \in Nat
              /\ SumFunctionOnSet(Amounts(after), EventsFor(after, u))
                   = SumFunctionOnSet(Amounts(evs), EventsFor(evs, u)) + IF u = m THEN all[i].award ELSE 0
  <2>1. SUFFICES ASSUME NEW u
                 PROVE  /\ SumFunctionOnSet(Amounts(evs), EventsFor(evs, u)) \in Nat
                        /\ SumFunctionOnSet(Amounts(after), EventsFor(after, u))
                             = SumFunctionOnSet(Amounts(evs), EventsFor(evs, u))
                                 + IF u = m THEN all[i].award ELSE 0
    OBVIOUS
  <2>2. event.user = u <=> u = m
    BY <1>3
  <2> HIDE DEF m
  <2> QED BY <1>2, <1>3, <2>2, OneMoreEvent
<1> HIDE DEF after, n
<1>11. EventsOK(closed, after, more)
  <2>0. \A e \in DOMAIN after : (e \in DOMAIN evs /\ after[e] = evs[e]) \/ (e = n + 1 /\ after[e] = event)
    <3>1. \A e \in DOMAIN after : e \in 1 .. n \/ e = n + 1
      BY <1>9
    <3> QED BY <1>9, <3>1
  <2>1. \A e \in DOMAIN after :
          /\ after[e].track \in DOMAIN closed
          /\ closed[after[e].track].user = after[e].user /\ ~closed[after[e].track].open
    <3>1. \A e \in DOMAIN evs :
            /\ evs[e].track \in DOMAIN all
            /\ all[evs[e].track].user = evs[e].user /\ ~all[evs[e].track].open
      BY <1>1 DEF EventsOK
    <3>2. ASSUME NEW e \in DOMAIN evs
          PROVE  /\ evs[e].track \in DOMAIN closed
                 /\ closed[evs[e].track].user = evs[e].user /\ ~closed[evs[e].track].open
      BY <1>4, <1>5, <3>1
    <3> QED BY <1>3, <1>4, <2>0, <3>2
  <2>2. \A e, f \in DOMAIN after : after[e].track = after[f].track => e = f
    <3>1. \A e \in DOMAIN evs : evs[e].track # i
      BY <1>1 DEF EventsOK
    <3>2. \A e, f \in DOMAIN evs : evs[e].track = evs[f].track => e = f
      BY <1>1 DEF EventsOK
    <3> QED BY <1>3, <2>0, <3>1, <3>2
  <2>3. \A j \in DOMAIN closed : ~closed[j].open => \E e \in DOMAIN after : after[e].track = j
    <3>1. SUFFICES ASSUME NEW j \in DOMAIN closed, ~closed[j].open
                   PROVE  \E e \in DOMAIN after : after[e].track = j
      OBVIOUS
    <3>2. CASE j = i
      <4>1. n + 1 \in DOMAIN after
        BY <1>9
      <4> QED BY <1>3, <1>9, <3>2, <4>1
    <3>3. CASE j # i
      <4>1. j \in DOMAIN all /\ ~all[j].open
        BY <1>4, <1>5, <3>1, <3>3
      <4>2. PICK e \in DOMAIN evs : evs[e].track = j
        BY <1>1, <4>1 DEF EventsOK
      <4>3. e \in DOMAIN after /\ after[e] = evs[e]
        BY <1>9
      <4> QED BY <4>2, <4>3
    <3> QED BY <3>2, <3>3
  <2>4. /\ more \in [Members -> Nat]
        /\ \A u \in Members : more[u] = credited[u] + IF u = m THEN all[i].award ELSE 0
    BY <1>0, <1>2
  <2>5. ASSUME NEW u \in Members
        PROVE  more[u] = SumFunctionOnSet(Amounts(after), EventsFor(after, u))
    <3>1. credited[u] = SumFunctionOnSet(Amounts(evs), EventsFor(evs, u))
      BY <1>1 DEF EventsOK, Amounts, EventsFor
    <3> QED BY <1>10, <2>4, <3>1
  <2> QED BY <1>9, <2>1, <2>2, <2>3, <2>4, <2>5 DEF EventsOK, Amounts, EventsFor
<1>12. MetOK(closed, pkgs, tree, moved)
  BY <1>1, <1>4, <1>5 DEF MetOK
<1> QED BY <1>7, <1>8, <1>11, <1>12 DEF RowsOK, after, event, closed, more

-----------------------------------------------------------------------------
(* Reconciliation of a member.                                              *)

\* More packages, another tree or more moves, as long as a move is stamped
\* after every track that has started, keep the rows in order.
LEMMA WorldKeeps ==
  ASSUME NEW pkgs \in Seq(PackageRows), NEW more \in Seq(PackageRows), Extends(more, pkgs),
         NEW tree, NEW grown, NEW moved, NEW again,
         NEW all, NEW evs, NEW credited, RowsOK(all, evs, credited, pkgs, tree, moved),
         \/ grown = tree /\ again = moved
         \/ \E t \in again : t = Len(pkgs) + 1
  PROVE  RowsOK(all, evs, credited, more, grown, again)
<1>1. /\ all \in Seq(TrackRows) /\ OneAfterAnother(all)
      /\ \A j \in DOMAIN all : all[j].startedAt <= Len(pkgs) + 1
      /\ EarnedSoFar(all, pkgs, tree, moved)
      /\ EventsOK(all, evs, credited) /\ MetOK(all, pkgs, tree, moved)
  BY DEF RowsOK, TracksOK
<1>2. Len(pkgs) \in Nat /\ Len(more) \in Nat /\ Len(pkgs) <= Len(more)
  BY Spending DEF Extends
<1>3. \A j \in DOMAIN all : all[j].startedAt \in Nat \ {0} /\ all[j] \in TrackRows
                              /\ all[j].required \in [Levels -> Nat] /\ all[j].achieved \subseteq Levels
  BY <1>1, TrackFields
<1>4. \A j \in DOMAIN all : all[j].startedAt <= Len(more) + 1
  BY <1>1, <1>2, <1>3
<1>5. EarnedSoFar(all, more, grown, again)
  <2> SUFFICES ASSUME NEW j \in DOMAIN all, all[j].open, \A x \in again : x < all[j].startedAt,
                      NEW l \in all[j].achieved
               PROVE  all[j].required[l] <= BusinessIn(more, Counted(more, grown, all[j], l))
    BY DEF EarnedSoFar
  <2>1. CASE grown = tree /\ again = moved
    <3>1. all[j].required[l] <= BusinessIn(pkgs, Counted(pkgs, tree, all[j], l))
      BY <1>1, <2>1 DEF EarnedSoFar
    <3>2. l \in Levels /\ all[j].required[l] \in Nat /\ all[j] \in TrackRows
      BY <1>3
    <3>3. /\ BusinessIn(pkgs, Counted(pkgs, tree, all[j], l)) \in Nat
          /\ BusinessIn(more, Counted(more, tree, all[j], l)) \in Nat
          /\ BusinessIn(pkgs, Counted(pkgs, tree, all[j], l))
               <= BusinessIn(more, Counted(more, tree, all[j], l))
      BY <3>2, ExtensionGrows
    <3> QED BY <2>1, <3>1, <3>2, <3>3
  <2>2. CASE \E t \in again : t = Len(pkgs) + 1
    <3>1. Len(pkgs) + 1 < all[j].startedAt
      BY <2>2
    <3> QED BY <1>1, <1>2, <1>3, <3>1
  <2> QED BY <2>1, <2>2
<1>6. MetOK(all, more, grown, again)
  <2> SUFFICES ASSUME NEW i \in DOMAIN all, NEW l \in Levels
               PROVE  /\ all[i].met[l] \subseteq all[i].startedAt .. Len(more)
                      /\ \A j \in DOMAIN all : all[j].user = all[i].user /\ i < j =>
                           \A p \in all[i].met[l] : p < all[j].startedAt
                      /\ (\A t \in again : t < all[i].startedAt) =>
                           \A p \in all[i].met[l] : more[p].user \in Team(grown, all[i].user, l)
    BY DEF MetOK
  <2>1. /\ all[i].met[l] \subseteq all[i].startedAt .. Len(pkgs)
        /\ \A j \in DOMAIN all : all[j].user = all[i].user /\ i < j =>
             \A p \in all[i].met[l] : p < all[j].startedAt
        /\ (\A t \in moved : t < all[i].startedAt) =>
             \A p \in all[i].met[l] : pkgs[p].user \in Team(tree, all[i].user, l)
    BY <1>1 DEF MetOK
  <2>2. all[i].met[l] \subseteq all[i].startedAt .. Len(more)
    BY <1>2, <1>3, <2>1
  <2>3. ASSUME \A t \in again : t < all[i].startedAt, NEW p \in all[i].met[l]
        PROVE  more[p].user \in Team(grown, all[i].user, l)
    <3>1. grown = tree /\ again = moved
      <4>1. ~ (Len(pkgs) + 1 < all[i].startedAt)
        BY <1>1, <1>2, <1>3
      <4> QED BY <2>3, <4>1
    <3>2. more[p].user = pkgs[p].user
      <4>1. p \in DOMAIN pkgs
        BY <1>2, <1>3, <2>1, Spending
      <4> QED BY <4>1 DEF Extends
    <3> QED BY <2>1, <2>3, <3>1, <3>2
  <2> QED BY <2>1, <2>2, <2>3
<1> QED BY <1>1, <1>4, <1>5, <1>6 DEF RowsOK, TracksOK

\* What reconcileUser leaves behind, and that an award it pays is earned.
AwardEarned(track) ==
  (\A t \in movedAt : t < track.startedAt) =>
    \A l \in Levels : track.required[l] <= LevelBusiness(track, l)

LEMMA ReconcileKeeps ==
  ASSUME AwardInv, NEW m \in Members, ReconcileUser(m)
  PROVE  /\ RowsOK(tracks', events', wallet', packages, sponsor, movedAt)
         /\ \A e \in DOMAIN events' \ DOMAIN events : AwardEarned(tracks'[events'[e].track])
<1> DEFINE OK(all, evs, credited) == RowsOK(all, evs, credited, packages, sponsor, movedAt)
           started == IF OpenTracks(tracks, m) = {} THEN StartTrack(tracks, m) ELSE tracks
           i == CHOOSE i \in OpenTracks(started, m) : TRUE
           counted == [started EXCEPT ![i] = Recalculated(@)]
           closed == [counted EXCEPT ![i].open = FALSE]
<1>1. /\ AwardTypeOK /\ Acyclic(sponsor) /\ OK(tracks, events, wallet)
      /\ packages \in Seq(PackageRows) /\ tracks \in Seq(TrackRows)
      /\ Len(packages) \in Nat
  BY LenProperties DEF AwardInv, AwardTypeOK
<1>2. OK(started, events, wallet)
  <2>1. CASE OpenTracks(tracks, m) = {}
    <3>1. \A j \in DOMAIN tracks : tracks[j].user = m => ~tracks[j].open
      BY <2>1 DEF OpenTracks, TracksOf
    <3>2. Starts(StartTrack(tracks, m), tracks, m, Len(packages))
      BY <1>1, StartIs
    <3>3. OK(StartTrack(tracks, m), events, wallet)
      BY <1>1, <3>1, <3>2, StartKeeps
    <3> QED BY <2>1, <3>3
  <2>2. CASE OpenTracks(tracks, m) # {}
    BY <1>1, <2>2
  <2> QED BY <2>1, <2>2
<1>3. \/ OpenTracks(started, m) = {} /\ UNCHANGED <<tracks, events, wallet>>
      \/ /\ OpenTracks(started, m) # {} /\ AllAchieved(counted[i])
         /\ tracks' = StartTrack(closed, m) /\ PostAward(i)
      \/ /\ OpenTracks(started, m) # {} /\ ~AllAchieved(counted[i])
         /\ tracks' = counted /\ UNCHANGED <<events, wallet>>
  BY DEF ReconcileUser
<1>4. CASE OpenTracks(started, m) = {} /\ UNCHANGED <<tracks, events, wallet>>
  BY <1>1, <1>4
<1>5. ASSUME OpenTracks(started, m) # {}
      PROVE  /\ i \in DOMAIN started /\ started[i].open /\ started[i].user = m
             /\ started \in Seq(TrackRows)
             /\ Counts(Recalculated(started[i]), started[i], packages, sponsor)
             /\ OK(counted, events, wallet)
             /\ DOMAIN counted = DOMAIN started /\ counted[i] = Recalculated(started[i])
  <2> HIDE DEF started
  <2>1. i \in OpenTracks(started, m)
    BY <1>5
  <2>2. i \in DOMAIN started /\ started[i].open /\ started[i].user = m
    BY <2>1 DEF OpenTracks, TracksOf
  <2>3. started \in Seq(TrackRows)
    BY <1>2 DEF RowsOK, TracksOK
  <2>4. started[i] \in TrackRows
    BY <2>2, <2>3, TrackFields
  <2>5. Counts(Recalculated(started[i]), started[i], packages, sponsor)
    BY <1>1, <2>4, RecalculatedIs
  <2> HIDE DEF i
  <2>6. counted = [started EXCEPT ![i] = Recalculated(started[i])]
    OBVIOUS
  <2>7. OK(counted, events, wallet)
    BY <1>1, <1>2, <2>2, <2>5, <2>6, CountKeeps
  <2>8. DOMAIN counted = DOMAIN started /\ counted[i] = Recalculated(started[i])
    BY <2>2
  <2> HIDE DEF counted
  <2> QED BY <2>2, <2>3, <2>5, <2>7, <2>8
<1> HIDE DEF started, i, counted
<1>6. CASE /\ OpenTracks(started, m) # {} /\ ~AllAchieved(counted[i])
           /\ tracks' = counted /\ UNCHANGED <<events, wallet>>
  BY <1>5, <1>6
<1>7. CASE /\ OpenTracks(started, m) # {} /\ AllAchieved(counted[i])
           /\ tracks' = StartTrack(closed, m) /\ PostAward(i)
  <2> DEFINE track == counted[i]
             event == [track |-> i, user |-> track.user, amount |-> track.award]
             more == [wallet EXCEPT ![track.user] = @ + track.award]
  <2>1. /\ i \in DOMAIN counted /\ track \in TrackRows /\ track.user = m /\ track.open
        /\ track.startedAt = started[i].startedAt
        /\ OK(counted, events, wallet) /\ counted \in Seq(TrackRows)
    BY <1>5, <1>7 DEF Counts, RowsOK, TracksOK
  <2>3. /\ OK(closed, Append(events, event), more)
        /\ \A j \in DOMAIN closed : closed[j].user = m => ~closed[j].open
    <3>1. /\ event = EventFor(counted, i) /\ closed = Closed(counted, i)
          /\ more = CreditedFor(wallet, counted[i])
      BY DEF EventFor, Closed, CreditedFor
    <3>2. /\ i \in DOMAIN counted /\ counted[i].open /\ counted[i].user = m
          /\ RowsOK(counted, events, wallet, packages, sponsor, movedAt)
      BY <2>1
    <3> HIDE DEF event, closed, more, track
    <3>3. /\ RowsOK(Closed(counted, i), Append(events, EventFor(counted, i)),
                    CreditedFor(wallet, counted[i]), packages, sponsor, movedAt)
          /\ \A j \in DOMAIN Closed(counted, i) :
               Closed(counted, i)[j].user = counted[i].user => ~Closed(counted, i)[j].open
      BY <1>1, <3>2, PayKeeps
    <3> QED BY <3>1, <3>2, <3>3
  <2>4. /\ closed \in Seq(TrackRows) /\ i \in DOMAIN closed
        /\ closed[i].user = track.user /\ closed[i].award = track.award
        /\ closed[i].required = track.required /\ closed[i].startedAt = track.startedAt
    <3>1. closed \in Seq(TrackRows)
      BY <2>3 DEF RowsOK, TracksOK
    <3>2. i \in DOMAIN closed /\ closed[i] = [track EXCEPT !.open = FALSE]
      BY <2>1
    <3> QED BY <2>1, <3>1, <3>2 DEF TrackRows
  <2> HIDE DEF closed
  <2>5. Starts(StartTrack(closed, m), closed, m, Len(packages))
    BY <1>1, <2>4, StartIs
  <2>6. tracks'[i] = closed[i]
    <3>1. CASE tracks' = closed
      BY <3>1
    <3>2. CASE \E t \in TrackRows : tracks' = Append(closed, t)
      <4>1. i \in 1 .. Len(closed)
        BY <2>4, LenProperties
      <4> QED BY <2>4, <3>2, <4>1, AppendIs
    <3> QED BY <1>7, <2>5, <3>1, <3>2 DEF Starts
  <2>7. ~ \E e \in DOMAIN events : events[e].track = i
    <3>1. EventsOK(counted, events, wallet)
      BY <2>1 DEF RowsOK
    <3> QED BY <2>1, <3>1 DEF EventsOK
  <2>8. events' = Append(events, event) /\ wallet' = more
    BY <1>7, <2>4, <2>6, <2>7 DEF PostAward, AwardEvent
  <2>9. OK(tracks', events', wallet')
    BY <1>1, <1>7, <2>3, <2>5, <2>8, StartKeeps
  <2>10. ASSUME NEW e \in DOMAIN events' \ DOMAIN events
         PROVE  AwardEarned(tracks'[events'[e].track])
    <3> HIDE DEF event, more, track
    <3>1. events'[e] = event
      <4>1. events \in Seq(EventRows) /\ Len(events) \in Nat
        BY <1>1, LenProperties DEF AwardTypeOK
      <4>2. /\ DOMAIN events = 1 .. Len(events) /\ DOMAIN events' = 1 .. Len(events) + 1
            /\ events'[Len(events) + 1] = event
        BY <2>8, <4>1, AppendIs
      <4> QED BY <2>10, <4>1, <4>2
    <3>2. tracks'[events'[e].track] = closed[i]
      BY <2>6, <3>1 DEF event
    <3>3. ASSUME \A t \in movedAt : t < closed[i].startedAt, NEW l \in Levels
          PROVE  closed[i].required[l] <= LevelBusiness(closed[i], l)
      <4>1. LevelBusiness(closed[i], l) = BusinessIn(packages, Counted(packages, sponsor, track, l))
        <5>1. Counted(packages, sponsor, closed[i], l) = Counted(packages, sponsor, track, l)
          BY <2>4 DEF Counted
        <5> QED BY <5>1, LevelBusinessIs
      <4>2. BusinessIn(packages, Counted(packages, sponsor, track, l)) \in Nat
        BY <1>1, <2>1, CountedAre, BusinessGrows DEF track
      <4>3. track.required[l] \in Nat
        BY <2>1 DEF track, TrackRows
      <4>4. CASE track.required[l] = 0
        BY <2>4, <4>1, <4>2, <4>4
      <4>5. CASE track.required[l] > 0
        <5>1. l \in track.achieved
          BY <1>7, <4>5 DEF AllAchieved, track
        <5>2. EarnedSoFar(counted, packages, sponsor, movedAt)
          BY <2>1 DEF RowsOK, TracksOK
        <5>3. \A t \in movedAt : t < track.startedAt
          BY <2>4, <3>3
        <5> QED BY <2>1, <2>4, <4>1, <5>1, <5>2, <5>3 DEF EarnedSoFar, track
      <4> QED BY <4>3, <4>4, <4>5
    <3> QED BY <3>2, <3>3 DEF AwardEarned
  <2> QED BY <2>9, <2>10
<1> QED BY <1>3, <1>4, <1>6, <1>7

-----------------------------------------------------------------------------
(* The invariant is kept.                                                   *)

LEMMA AwardInvInit == AwardInit => AwardInv
<1> SUFFICES ASSUME AwardInit PROVE AwardInv
  OBVIOUS
<1>1. /\ sponsor = InitialSponsor /\ movedAt = {} /\ packages = <<>> /\ effective = 0
      /\ tracks = <<>> /\ events = <<>> /\ wallet = [m \in Members |-> 0] /\ run = <<>>
  BY DEF AwardInit
<1>2. /\ InitialSponsor \in [Members -> Members \cup {0}] /\ Acyclic(InitialSponsor)
      /\ Len(Policies) \in Nat
  BY AwardRewardsAssumption, LenProperties
<1>3. AwardTypeOK
  <2>1. /\ <<>> \in Seq(PackageRows) /\ <<>> \in Seq(TrackRows) /\ <<>> \in Seq(EventRows)
        /\ <<>> \in Seq(Members)
    OBVIOUS
  <2>2. [m \in Members |-> 0] \in [Members -> Nat] /\ 0 \in 0 .. Len(Policies)
    BY <1>2
  <2> QED BY <1>1, <1>2, <2>1, <2>2 DEF AwardTypeOK
<1>4. DOMAIN <<>> = {} /\ Len(<<>>) = 0
  OBVIOUS
<1>5. TracksOK(tracks, packages, sponsor, movedAt)
  BY <1>1, <1>3, <1>4 DEF TracksOK, AwardTypeOK, OneAfterAnother, EarnedSoFar
<1>6. \A m : {e \in DOMAIN events : events[e].user = m} = {}
  BY <1>1, <1>4
<1>7. EventsOK(tracks, events, wallet)
  <2>1. ASSUME NEW m \in Members
        PROVE  wallet[m] = SumFunctionOnSet([e \in DOMAIN events |-> events[e].amount],
                                            {e \in DOMAIN events : events[e].user = m})
    BY <1>1, <1>6, SumEmpty
  <2> QED BY <1>1, <1>3, <1>4, <2>1 DEF EventsOK, AwardTypeOK
<1>8. MetOK(tracks, packages, sponsor, movedAt)
  BY <1>1, <1>4 DEF MetOK
<1> QED BY <1>1, <1>2, <1>3, <1>5, <1>7, <1>8 DEF AwardInv, RowsOK

\* The rows' types follow from their order, except those of the run.
LEMMA RowsTyped ==
  ASSUME NEW all, NEW evs, NEW credited, NEW pkgs, NEW tree, NEW moved,
         RowsOK(all, evs, credited, pkgs, tree, moved)
  PROVE  all \in Seq(TrackRows) /\ evs \in Seq(EventRows) /\ credited \in [Members -> Nat]
BY DEF RowsOK, TracksOK, EventsOK

LEMMA BuyKeeps ==
  ASSUME AwardInv, NEW m \in Members, NEW k \in Kinds, Buy(m, k)
  PROVE  AwardInv'
<1>1. AwardTypeOK /\ packages \in Seq(PackageRows)
  BY DEF AwardInv, AwardTypeOK
<1>2. /\ packages' = Append(packages, [user |-> m, kind |-> k, active |-> TRUE])
      /\ UNCHANGED <<sponsor, movedAt, effective, tracks, events, wallet, run>>
  BY DEF Buy
<1>3. [user |-> m, kind |-> k, active |-> TRUE] \in PackageRows
  BY DEF PackageRows
<1>4. packages' \in Seq(PackageRows) /\ Extends(packages', packages)
  <2>1. packages' \in Seq(PackageRows) /\ Len(packages') = Len(packages) + 1
    BY <1>1, <1>2, <1>3, AppendProperties
  <2>2. Len(packages) \in Nat /\ \A i \in DOMAIN packages : packages'[i] = packages[i]
    BY <1>1, <1>2, AppendIs
  <2> QED BY <2>1, <2>2 DEF Extends
<1>5. RowsOK(tracks, events, wallet, packages', sponsor, movedAt)
  <2>1. RowsOK(tracks, events, wallet, packages, sponsor, movedAt)
    BY DEF AwardInv
  <2> QED BY <1>1, <1>4, <2>1, WorldKeeps
<1>6. AwardTypeOK'
  BY <1>1, <1>2, <1>4 DEF AwardTypeOK
<1>7. RowsOK(tracks, events, wallet, packages, sponsor, movedAt)'
  BY <1>2, <1>5
<1>8. Acyclic(sponsor)'
  BY <1>2 DEF AwardInv
<1> QED BY <1>6, <1>7, <1>8 DEF AwardInv

LEMMA FinishKeeps ==
  ASSUME AwardInv, NEW i \in DOMAIN packages, FinishPackage(i)
  PROVE  AwardInv'
<1>1. AwardTypeOK /\ packages \in Seq(PackageRows)
  BY DEF AwardInv, AwardTypeOK
<1>2. /\ packages' = [packages EXCEPT ![i].active = FALSE]
      /\ UNCHANGED <<sponsor, movedAt, effective, tracks, events, wallet, run>>
  BY DEF FinishPackage
<1>3. packages' \in Seq(PackageRows) /\ Extends(packages', packages)
  <2> DEFINE p == [packages[i] EXCEPT !.active = FALSE]
  <2>1. packages[i] \in PackageRows
    BY <1>1, LenProperties, ElementOfSeq
  <2>2. p \in PackageRows /\ p.user = packages[i].user /\ p.kind = packages[i].kind
    BY <2>1 DEF PackageRows
  <2>3. packages' = [packages EXCEPT ![i] = p]
    BY <1>2
  <2> HIDE DEF p
  <2>4. packages' \in Seq(PackageRows) /\ Len(packages') = Len(packages) /\ Len(packages) \in Nat
    BY <1>1, <2>2, <2>3, ExceptSeq, LenProperties
  <2>5. \A j \in DOMAIN packages : packages'[j] = IF j = i THEN p ELSE packages[j]
    BY <2>3
  <2> QED BY <2>2, <2>4, <2>5 DEF Extends
<1>4. RowsOK(tracks, events, wallet, packages', sponsor, movedAt)
  <2>1. RowsOK(tracks, events, wallet, packages, sponsor, movedAt)
    BY DEF AwardInv
  <2> QED BY <1>1, <1>3, <2>1, WorldKeeps
<1>5. AwardTypeOK'
  BY <1>1, <1>2, <1>3 DEF AwardTypeOK
<1>6. RowsOK(tracks, events, wallet, packages, sponsor, movedAt)'
  BY <1>2, <1>4
<1>7. Acyclic(sponsor)'
  BY <1>2 DEF AwardInv
<1> QED BY <1>5, <1>6, <1>7 DEF AwardInv

LEMMA MoveKeeps ==
  ASSUME AwardInv, NEW m \in Members, NEW s \in Members, MoveMember(m, s)
  PROVE  AwardInv'
<1>1. /\ AwardTypeOK /\ packages \in Seq(PackageRows) /\ Len(packages) \in Nat
      /\ sponsor \in [Members -> Members \cup {0}] /\ Acyclic(sponsor)
  BY LenProperties DEF AwardInv, AwardTypeOK
<1>2. /\ sponsor' = [sponsor EXCEPT ![m] = s] /\ movedAt' = movedAt \cup {Len(packages) + 1}
      /\ UNCHANGED <<packages, effective, tracks, events, wallet, run>>
  BY DEF MoveMember, Now
<1>3. PICK above \in SUBSET (Members \ {m}) :
        s \in above /\ \A u \in above : sponsor[u] \in above \cup {0}
  BY DEF MoveMember
<1>4. Acyclic(sponsor')
  BY <1>1, <1>2, <1>3, MoveKeepsAcyclic
<1>5. Extends(packages, packages)
  BY <1>1 DEF Extends
<1>6. RowsOK(tracks, events, wallet, packages, sponsor', movedAt')
  <2>1. RowsOK(tracks, events, wallet, packages, sponsor, movedAt)
    BY DEF AwardInv
  <2>2. \E t \in movedAt' : t = Len(packages) + 1
    BY <1>2
  <2> QED BY <1>1, <1>5, <2>1, <2>2, WorldKeeps
<1>7. AwardTypeOK'
  <2>1. sponsor' \in [Members -> Members \cup {0}]
    BY <1>1, <1>2
  <2>2. movedAt' \subseteq Nat
    <3>1. movedAt \subseteq Nat
      BY <1>1 DEF AwardTypeOK
    <3>2. Len(packages) + 1 \in Nat
      BY <1>1
    <3>3. movedAt' = movedAt \cup {Len(packages) + 1}
      BY <1>2
    <3> QED BY <3>1, <3>2, <3>3
  <2> QED BY <1>1, <1>2, <2>1, <2>2 DEF AwardTypeOK
<1>8. RowsOK(tracks, events, wallet, packages, sponsor, movedAt)'
  BY <1>2, <1>6
<1> QED BY <1>4, <1>7, <1>8 DEF AwardInv

LEMMA ReconcileStep ==
  ASSUME AwardInv, NEW m \in Members, ReconcileUser(m),
         UNCHANGED <<sponsor, movedAt, packages, effective>>, run' \in Seq(Members)
  PROVE  AwardInv'
<1>1. RowsOK(tracks', events', wallet', packages, sponsor, movedAt)
  BY ReconcileKeeps
<1>2. AwardTypeOK'
  <2>1. AwardTypeOK
    BY DEF AwardInv
  <2>2. tracks' \in Seq(TrackRows) /\ events' \in Seq(EventRows) /\ wallet' \in [Members -> Nat]
    BY <1>1, RowsTyped
  <2> QED BY <2>1, <2>2 DEF AwardTypeOK
<1>3. RowsOK(tracks, events, wallet, packages, sponsor, movedAt)'
  BY <1>1
<1>4. Acyclic(sponsor)'
  BY DEF AwardInv
<1> QED BY <1>2, <1>3, <1>4 DEF AwardInv

\* Steps that leave all rows alone.
LEMMA OtherKeeps ==
  ASSUME AwardInv, UNCHANGED <<sponsor, movedAt, packages, tracks, events, wallet>>,
         effective' \in 0 .. Len(Policies), run' \in Seq(Members)
  PROVE  AwardInv'
<1>1. AwardTypeOK /\ AwardTypeOK'
  BY DEF AwardInv, AwardTypeOK
<1>2. RowsOK(tracks, events, wallet, packages, sponsor, movedAt)'
  BY DEF AwardInv
<1>3. Acyclic(sponsor)'
  BY DEF AwardInv
<1> QED BY <1>1, <1>2, <1>3 DEF AwardInv

LEMMA RunTyped ==
  ASSUME AwardTypeOK, StartRun
  PROVE  run' \in Seq(Members)
<1> DEFINE due == ReconciliationUsers
           n == Min({BatchLimit, Cardinality(due)})
<1>1. due \subseteq Members /\ IsFiniteSet(Members)
  BY AwardRewardsAssumption DEF ReconciliationUsers
<1>2. n \in Nat
  <2>1. Cardinality(due) \in Nat /\ BatchLimit \in Nat
    BY <1>1, FS_Subset, FS_CardinalityType, AwardRewardsAssumption
  <2> QED BY <2>1 DEF Min
<1>3. \E batch \in [1 .. n -> due] : run' = batch
  BY DEF StartRun
<1> HIDE DEF due, n
<1> QED BY <1>1, <1>2, <1>3

LEMMA AwardInvNext == AwardInv /\ [AwardNext]_awardVars => AwardInv'
<1> SUFFICES ASSUME AwardInv, [AwardNext]_awardVars PROVE AwardInv'
  OBVIOUS
<1>1. /\ Purchases \subseteq Members \X Kinds /\ Reconcilable \subseteq Members
      /\ Len(Policies) \in Nat
  BY AwardRewardsAssumption, LenProperties
<1>2. AwardTypeOK /\ effective \in 0 .. Len(Policies) /\ run \in Seq(Members)
  BY DEF AwardInv, AwardTypeOK
<1>3. ASSUME NEW purchase \in Purchases, Buy(purchase[1], purchase[2]) PROVE AwardInv'
  <2>1. purchase[1] \in Members /\ purchase[2] \in Kinds
    BY <1>1
  <2> QED BY <1>3, <2>1, BuyKeeps
<1>4. ASSUME NEW i \in DOMAIN packages, FinishPackage(i) PROVE AwardInv'
  BY <1>4, FinishKeeps
<1>5. ASSUME NEW m \in Members, NEW s \in Members, MoveMember(m, s) PROVE AwardInv'
  BY <1>5, MoveKeeps
<1>6. CASE NextPolicy
  <2>1. effective' \in 0 .. Len(Policies) /\ run' = run
    BY <1>1, <1>2, <1>6 DEF NextPolicy
  <2> QED BY <1>2, <1>6, <2>1, OtherKeeps DEF NextPolicy
<1>7. ASSUME NEW m \in Reconcilable, AdminReconcile(m) PROVE AwardInv'
  BY <1>1, <1>2, <1>7, ReconcileStep DEF AdminReconcile
<1>8. CASE StartRun
  BY <1>2, <1>8, RunTyped, OtherKeeps DEF StartRun
<1>9. CASE RunNext
  <2>1. Head(run) \in Members /\ Tail(run) \in Seq(Members)
    BY <1>2, <1>9, HeadTailProperties DEF RunNext
  <2> QED BY <1>9, <2>1, ReconcileStep DEF RunNext
<1>10. CASE CutOff
  <2>1. run' \in Seq(Members)
    BY <1>10 DEF CutOff
  <2> QED BY <1>2, <1>10, <2>1, OtherKeeps DEF CutOff
<1>11. CASE UNCHANGED awardVars
  BY <1>2, <1>11, OtherKeeps DEF awardVars
<1> QED BY <1>3, <1>4, <1>5, <1>6, <1>7, <1>8, <1>9, <1>10, <1>11 DEF AwardNext

-----------------------------------------------------------------------------
(* Theorems.                                                                *)

LEMMA AwardInvariant == AwardSpec => []AwardInv
<1> QED BY AwardInvInit, AwardInvNext, PTL DEF AwardSpec

(* The rows of tracks and events, the credits and the run stay in their     *)
(* types, and the tree has no cycle, however teams are moved.               *)
THEOREM AwardsTyped == AwardSpec => [](AwardTypeOK /\ Acyclic(sponsor))
<1>1. AwardInv => AwardTypeOK /\ Acyclic(sponsor)
  BY DEF AwardInv
<1> QED BY <1>1, AwardInvariant, PTL

LEMMA AtMostOne ==
  ASSUME NEW S, IsFiniteSet(S), \A x, y \in S : x = y
  PROVE  Cardinality(S) <= 1
<1>1. CASE S = {}
  BY <1>1, FS_EmptySet
<1>2. CASE S # {}
  <2>1. PICK x \in S : S = {x}
    BY <1>2
  <2> QED BY <2>1, FS_Singleton
<1> QED BY <1>1, <1>2

LEMMA InvMatches == AwardInv => AwardsMatchTracks
<1> SUFFICES ASSUME AwardInv, NEW m \in Members
             PROVE  /\ Cardinality(OpenTracks(tracks, m)) <= 1
                    /\ \A i, j \in TracksOf(tracks, m) : i < j =>
                         /\ tracks[i].kind # tracks[j].kind
                         /\ tracks[i].order < tracks[j].order /\ ~tracks[i].open
                    /\ {events[e].track : e \in EventsOf(m)}
                         = {i \in TracksOf(tracks, m) : ~tracks[i].open}
                    /\ Cardinality(EventsOf(m)) = Cardinality({events[e].track : e \in EventsOf(m)})
                    /\ wallet[m] = SumFunctionOnSet([e \in DOMAIN events |-> events[e].amount],
                                                    EventsOf(m))
  BY DEF AwardsMatchTracks
<1>1. /\ tracks \in Seq(TrackRows) /\ OneAfterAnother(tracks) /\ EventsOK(tracks, events, wallet)
  BY DEF AwardInv, RowsOK, TracksOK
<1>2. \A i, j \in TracksOf(tracks, m) : i < j =>
        tracks[i].kind # tracks[j].kind /\ tracks[i].order < tracks[j].order /\ ~tracks[i].open
  BY <1>1 DEF OneAfterAnother, TracksOf
<1>3. Cardinality(OpenTracks(tracks, m)) <= 1
  <2>1. IsFiniteSet(OpenTracks(tracks, m))
    <3>1. IsFiniteSet(DOMAIN tracks)
      BY <1>1, TrackFields, FS_Interval
    <3> QED BY <3>1, FS_Subset DEF OpenTracks, TracksOf
  <2>2. ASSUME NEW i \in OpenTracks(tracks, m), NEW j \in OpenTracks(tracks, m) PROVE i = j
    <3>1. /\ i \in TracksOf(tracks, m) /\ j \in TracksOf(tracks, m)
          /\ tracks[i].open /\ tracks[j].open /\ i \in Nat /\ j \in Nat
      BY <1>1, TrackFields DEF OpenTracks, TracksOf
    <3>2. ~ (i < j) /\ ~ (j < i)
      BY <1>2, <3>1
    <3> QED BY <3>1, <3>2
  <2> QED BY <2>1, <2>2, AtMostOne
<1>4. {events[e].track : e \in EventsOf(m)} = {i \in TracksOf(tracks, m) : ~tracks[i].open}
  <2>1. ASSUME NEW e \in EventsOf(m)
        PROVE  events[e].track \in TracksOf(tracks, m) /\ ~tracks[events[e].track].open
    BY <1>1 DEF EventsOK, EventsOf, TracksOf
  <2>2. ASSUME NEW i \in TracksOf(tracks, m), ~tracks[i].open
        PROVE  \E e \in EventsOf(m) : events[e].track = i
    <3>1. i \in DOMAIN tracks /\ tracks[i].user = m
      BY DEF TracksOf
    <3>2. PICK e \in DOMAIN events : events[e].track = i
      BY <1>1, <2>2, <3>1 DEF EventsOK
    <3>3. events[e].user = m
      BY <1>1, <3>1, <3>2 DEF EventsOK
    <3> QED BY <3>2, <3>3 DEF EventsOf
  <2> QED BY <2>1, <2>2
<1>5. Cardinality(EventsOf(m)) = Cardinality({events[e].track : e \in EventsOf(m)})
  <2> DEFINE S == EventsOf(m)
             T == {events[e].track : e \in S}
             f == [e \in S |-> events[e].track]
  <2>1. IsFiniteSet(S) /\ S \subseteq DOMAIN events
    BY <1>1, EventFields, FS_Subset DEF EventsOK, EventsOf
  <2>2. \A d, e \in S : events[d].track = events[e].track => d = e
    BY <1>1, <2>1 DEF EventsOK
  <2>3. f \in Bijection(S, T)
    <3>1. f \in Surjection(S, T)
      BY DEF Surjection
    <3>2. IsInjective(f)
      BY <2>2 DEF IsInjective
    <3> HIDE DEF f, T, S
    <3> QED BY <3>1, <3>2 DEF Bijection, Injection, Surjection
  <2> HIDE DEF S, T, f
  <2>4. Cardinality(T) = Cardinality(S)
    BY <2>1, <2>3, FS_Bijection DEF ExistsBijection
  <2> QED BY <2>4 DEF S, T
<1>6. wallet[m] = SumFunctionOnSet([e \in DOMAIN events |-> events[e].amount], EventsOf(m))
  BY <1>1 DEF EventsOK, EventsOf
<1> QED BY <1>2, <1>3, <1>4, <1>5, <1>6

(* A member runs one track at a time, never two for a kind, each later in   *)
(* the order than the last, and is paid once for each closed track and no   *)
(* other, however worker and administrators overlap and policies reorder    *)
(* the kinds (reconcileUser, findNextCandidate, postAward).                 *)
THEOREM AwardsMatch == AwardSpec => []AwardsMatchTracks
BY InvMatches, AwardInvariant, PTL

LEMMA InvCountsOnce == AwardInv => PackagesCountOnce
<1> SUFFICES ASSUME AwardInv, NEW i \in DOMAIN tracks, NEW j \in DOMAIN tracks,
                    tracks[i].user = tracks[j].user, NEW k \in Levels, NEW l \in Levels,
                    i # j \/ (k # l /\ \A t \in movedAt : t < tracks[i].startedAt)
             PROVE  tracks[i].met[k] \cap tracks[j].met[l] = {}
  BY DEF PackagesCountOnce
<1>1. /\ tracks \in Seq(TrackRows) /\ Acyclic(sponsor)
      /\ MetOK(tracks, packages, sponsor, movedAt)
  BY DEF AwardInv, RowsOK, TracksOK
<1>2. i \in Nat /\ j \in Nat /\ tracks[i].user \in Members
      /\ \A n \in DOMAIN tracks : tracks[n].startedAt \in Nat
  BY <1>1, TrackFields
<1>3. \A n \in DOMAIN tracks : \A h \in Levels :
        /\ \A p \in tracks[n].met[h] : p \in Nat /\ p >= tracks[n].startedAt
        /\ \A o \in DOMAIN tracks : tracks[o].user = tracks[n].user /\ n < o =>
             \A p \in tracks[n].met[h] : p < tracks[o].startedAt
  BY <1>1, <1>2 DEF MetOK
<1>4. CASE i < j
  BY <1>2, <1>3, <1>4
<1>5. CASE j < i
  BY <1>2, <1>3, <1>5
<1>6. CASE i = j
  <2>1. k # l /\ \A t \in movedAt : t < tracks[i].startedAt
    BY <1>6
  <2>2. /\ \A p \in tracks[i].met[k] : packages[p].user \in Team(sponsor, tracks[i].user, k)
        /\ \A p \in tracks[i].met[l] : packages[p].user \in Team(sponsor, tracks[i].user, l)
    BY <1>1, <2>1 DEF MetOK
  <2>3. Team(sponsor, tracks[i].user, k) \cap Team(sponsor, tracks[i].user, l) = {}
    <3>1. k \in Nat /\ l \in Nat /\ (k < l \/ l < k)
      BY <2>1, AwardRewardsAssumption DEF Levels
    <3> QED BY <1>1, <1>2, <3>1, LevelsApart
  <2> QED BY <1>6, <2>2, <2>3
<1> QED BY <1>2, <1>4, <1>5, <1>6

(* A package by which a level was achieved never serves another track of    *)
(* the member, however teams are moved, and no other level of its own track *)
(* unless a team was moved since the track started (recalculateProgress,    *)
(* startTrack).                                                             *)
THEOREM PackagesAreCountedOnce == AwardSpec => []PackagesCountOnce
BY InvCountsOnce, AwardInvariant, PTL

LEMMA EarnedStep ==
  ASSUME AwardInv, AwardNext
  PROVE  \A e \in DOMAIN events' \ DOMAIN events : AwardEarned(tracks'[events'[e].track])
<1>1. Reconcilable \subseteq Members /\ run \in Seq(Members)
  BY AwardRewardsAssumption DEF AwardInv, AwardTypeOK
<1>2. ASSUME NEW m \in Members, ReconcileUser(m)
      PROVE  \A e \in DOMAIN events' \ DOMAIN events : AwardEarned(tracks'[events'[e].track])
  BY <1>2, ReconcileKeeps
<1>3. CASE UNCHANGED events
  BY <1>3
<1>4. CASE RunNext
  <2>1. Head(run) \in Members
    BY <1>1, <1>4, HeadTailProperties DEF RunNext
  <2> QED BY <1>2, <1>4, <2>1 DEF RunNext
<1>5. ASSUME NEW m \in Reconcilable, AdminReconcile(m)
      PROVE  \A e \in DOMAIN events' \ DOMAIN events : AwardEarned(tracks'[events'[e].track])
  BY <1>1, <1>2, <1>5 DEF AdminReconcile
<1>6. UNCHANGED events \/ RunNext \/ \E m \in Reconcilable : AdminReconcile(m)
  BY DEF AwardNext, Buy, FinishPackage, MoveMember, NextPolicy, StartRun, CutOff
<1> QED BY <1>3, <1>4, <1>5, <1>6

(* Unless teams were moved meanwhile, an award is paid only when packages   *)
(* bought since its track started reach the amounts of all levels, at the   *)
(* time it is paid (recalculateProgress, reconcileUser).                    *)
THEOREM AwardsEarned == AwardSpec => AwardsAreEarned
<1>1. AwardInv /\ [AwardNext]_awardVars =>
        [\A e \in DOMAIN events' \ DOMAIN events :
           LET track == tracks'[events'[e].track]
           IN (\A t \in movedAt : t < track.startedAt) =>
                \A l \in Levels : track.required[l] <=
                  Business({i \in track.startedAt .. Len(packages) :
                              packages[i].user \in TeamLevel(track.user, l)})]_awardVars
  BY EarnedStep DEF AwardEarned, LevelBusiness, LevelPackages
<1> QED BY <1>1, AwardInvariant, PTL DEF AwardSpec, AwardsAreEarned
=============================================================================
