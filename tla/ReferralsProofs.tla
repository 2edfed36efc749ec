-------------------------- MODULE ReferralsProofs ---------------------------
(***************************************************************************)
(* Proofs about the sponsor tree, for any set of users, any bound of the   *)
(* clock and any depth limit (no proof of the tree's own theorems cites    *)
(* CommissionsAssumption), and about the commissions over it, for every    *)
(* finite set of members, every set of valid plans and offers and any      *)
(* bound on purchases.                                                     *)
(*                                                                         *)
(* The tree needs no induction on the length of chains.  "No cycle" and    *)
(* "one tree" are stated with sets of users closed under "sponsor of", and *)
(* the walk of assertNoCycle is such a set: it contains the new sponsor,   *)
(* not the member who moves.                                               *)
(*                                                                         *)
(* The invariant of the commissions joins that of the tree with published  *)
(* ranges that do not overlap and activations that are past.               *)
(***************************************************************************)
EXTENDS Commissions, Totals, SequenceTheorems

\* What the two placements and the root configuration keep about the rows.
ProfileShape ==
  \A u \in Users :
    /\ profile[u].status = "ASSIGNED" <=> profile[u].sponsor \in Users
    /\ profile[u].status = "ROOT" => u = config.root
    /\ profile[u].status # "NONE" => account[u] # "NONE"
    /\ profile[u].sponsor \in Users => profile[profile[u].sponsor].status # "NONE"

TreeInv ==
  /\ ReferralTypeOK
  /\ ProfileShape
  /\ SponsorTreeAcyclic
  /\ OneTree
  /\ HistoryCoversProfiles

-----------------------------------------------------------------------------
(* Lemmas.                                                                  *)

\* The walk that assertNoCycle accepts, as a set: closed under "sponsor of".
LEMMA WalkIsClosed ==
  ASSUME NEW member \in Users, NEW candidate \in Users,
         AssertNoCycle(member, candidate)
  PROVE  \E A \in SUBSET Users :
           /\ candidate \in A
           /\ member \notin A
           /\ \A u \in A : profile[u].sponsor \in A \union {Nobody}
<1> DEFINE Walk(n, walk) ==
      /\ walk[1] = candidate
      /\ \A i \in 1..(n - 1) : walk[i + 1] = profile[walk[i]].sponsor
      /\ profile[walk[n]].sponsor = Nobody
      /\ \A i \in 1..n : walk[i] # member
<1>0. PICK n \in 1..MaxSponsorDepth : \E walk \in [1..n -> Users] : Walk(n, walk)
  BY DEF AssertNoCycle
<1>1. PICK walk \in [1..n -> Users] : Walk(n, walk)
  BY <1>0
<1> DEFINE A == {walk[i] : i \in 1..n}
<1>2. n \in Nat /\ 1 \in 1..n
  BY ReferralsAssumption DEF ReferralsAssumption
<1>3. candidate \in A /\ member \notin A /\ A \in SUBSET Users
  BY <1>1, <1>2
<1>4. ASSUME NEW u \in A
      PROVE  profile[u].sponsor \in A \union {Nobody}
  <2>1. PICK i \in 1..n : u = walk[i]
    BY <1>4
  <2>2. CASE i = n
    BY <2>1, <2>2, <1>1
  <2>3. CASE i # n
    <3>1. i \in 1..(n - 1) /\ i + 1 \in 1..n
      BY <1>2, <2>3
    <3> QED BY <2>1, <3>1, <1>1
  <2> QED BY <2>2, <2>3
<1> QED BY <1>3, <1>4

\* Placing a member under an enrolled sponsor keeps the tree whole when the
\* sponsor's chain does not lead through the member.
LEMMA PlacementKeepsTree ==
  ASSUME TreeInv, NEW member \in Users, NEW sponsor \in Users,
         NEW A \in SUBSET Users,
         sponsor \in A, member \notin A,
         \A u \in A : profile[u].sponsor \in A \union {Nobody},
         profile[sponsor].status # "NONE",
         profile[member].status # "ROOT",
         profile' = [profile EXCEPT ![member] =
                       [status |-> "ASSIGNED", sponsor |-> sponsor,
                        assignedAt |-> now + 1]],
         config' = config
  PROVE  SponsorTreeAcyclic' /\ OneTree'
<1> USE DEF TreeInv
<1>0. profile \in [Users -> ProfileRows] /\ Nobody \notin Users
  BY ReferralsAssumption DEF ReferralTypeOK, ReferralsAssumption
<1>1. /\ profile'[member].sponsor = sponsor
      /\ profile'[member].status = "ASSIGNED"
      /\ \A u \in Users : u # member => profile'[u] = profile[u]
  BY <1>0 DEF ProfileRows
<1>2. SponsorTreeAcyclic'
  <2> SUFFICES ASSUME NEW S \in SUBSET Users, S # {},
                      \A u \in S : profile'[u].sponsor \in S
               PROVE  FALSE
    BY <1>0, <1>1 DEF SponsorTreeAcyclic, Acyclic
  <2>1. CASE member \notin S
    <3>1. \A u \in S : profile[u].sponsor \in S
      BY <2>1, <1>1
    <3> QED BY <3>1 DEF SponsorTreeAcyclic, Acyclic
  <2>2. CASE member \in S
    <3> DEFINE T == S \intersect A
    <3>1. sponsor \in T
      BY <2>2, <1>1
    <3>2. \A u \in T : profile[u].sponsor \in T
      BY <1>0, <1>1
    <3>3. T \in SUBSET Users /\ T # {}
      BY <3>1
    <3> HIDE DEF T
    <3> QED BY <3>2, <3>3 DEF SponsorTreeAcyclic, Acyclic
  <2> QED BY <2>1, <2>2
<1>3. OneTree'
  <2> SUFFICES ASSUME NEW S \in SUBSET Users,
                      \E u \in S : profile'[u].status # "NONE",
                      \A u \in S : profile'[u].sponsor \in S \union {Nobody}
               PROVE  config.root \in S
    BY DEF OneTree
  <2>1. CASE member \notin S
    <3>1. /\ \E u \in S : profile[u].status # "NONE"
          /\ \A u \in S : profile[u].sponsor \in S \union {Nobody}
      BY <2>1, <1>1
    <3> QED BY <3>1 DEF OneTree
  <2>2. CASE member \in S
    <3> DEFINE T == S \intersect A
    <3>1. sponsor \in T
      BY <2>2, <1>0, <1>1
    <3>2. \A u \in T : profile[u].sponsor \in T \union {Nobody}
      BY <1>0, <1>1
    <3>3. \E u \in T : profile[u].status # "NONE"
      BY <3>1
    <3>4. T \in SUBSET Users /\ T \subseteq S
      OBVIOUS
    <3> HIDE DEF T
    <3>5. config.root \in T
      BY <3>2, <3>3, <3>4 DEF OneTree
    <3> QED BY <3>4, <3>5
  <2> QED BY <2>1, <2>2
<1> QED BY <1>2, <1>3

\* Placing a member adds the one history row that accounts for the profile.
LEMMA PlacementKeepsHistory ==
  ASSUME TreeInv, Stamp, NEW member \in Users, NEW sponsor \in Sponsors,
         NEW status \in {"ROOT", "ASSIGNED"},
         profile' = [profile EXCEPT ![member] =
                       [status |-> status, sponsor |-> sponsor,
                        assignedAt |-> now + 1]],
         sponsorHistory' = Append(sponsorHistory, HistoryRow(member, sponsor))
  PROVE  /\ profile' \in [Users -> ProfileRows]
         /\ sponsorHistory' \in Seq(HistoryRows)
         /\ now' \in Times
         /\ HistoryCoversProfiles'
<1> USE DEF TreeInv
<1> DEFINE len == Len(sponsorHistory)
<1>0. /\ profile \in [Users -> ProfileRows]
      /\ sponsorHistory \in Seq(HistoryRows)
      /\ now \in Nat /\ now + 1 \in Times /\ now' = now + 1
  BY ReferralsAssumption DEF ReferralTypeOK, ReferralsAssumption, Times, Stamp
<1>1. HistoryRow(member, sponsor) \in HistoryRows
  BY <1>0 DEF HistoryRow, HistoryRows
<1>2. [status |-> status, sponsor |-> sponsor, assignedAt |-> now + 1] \in ProfileRows
  BY <1>0 DEF ProfileRows
<1>3. profile' \in [Users -> ProfileRows]
  BY <1>0, <1>2
<1>4. sponsorHistory' \in Seq(HistoryRows)
  BY <1>0, <1>1
<1>5. /\ len \in Nat /\ DOMAIN sponsorHistory = 1..len
      /\ DOMAIN sponsorHistory' = 1..(len + 1)
      /\ \A i \in 1..len : sponsorHistory'[i] = sponsorHistory[i]
      /\ sponsorHistory'[len + 1] =
           [member |-> member, sponsor |-> sponsor, at |-> now + 1]
  BY <1>0, <1>1 DEF HistoryRow
<1>6. /\ profile'[member] =
           [status |-> status, sponsor |-> sponsor, assignedAt |-> now + 1]
      /\ \A u \in Users : u # member => profile'[u] = profile[u]
  BY <1>0
<1>7. \A i \in DOMAIN sponsorHistory' : sponsorHistory'[i].at <= now'
  <2> SUFFICES ASSUME NEW i \in 1..(len + 1)
               PROVE  sponsorHistory'[i].at <= now + 1
    BY <1>0, <1>5
  <2>1. CASE i = len + 1
    BY <2>1, <1>0, <1>5
  <2>2. CASE i \in 1..len
    <3>1. sponsorHistory[i] \in HistoryRows
      BY <2>2, <1>0
    <3>2. sponsorHistory[i].at \in Nat
      BY <3>1, ReferralsAssumption DEF HistoryRows, Times, ReferralsAssumption
    <3>3. sponsorHistory[i].at <= now
      BY <2>2, <1>5 DEF HistoryCoversProfiles
    <3> QED BY <3>2, <3>3, <2>2, <1>0, <1>5
  <2> QED BY <2>1, <2>2, <1>5
<1>8. ASSUME NEW u \in Users
      PROVE  IF profile'[u].status # "NONE"
             THEN /\ profile'[u].assignedAt <= now'
                  /\ \E i \in DOMAIN sponsorHistory' :
                       /\ sponsorHistory'[i] =
                            [member |-> u, sponsor |-> profile'[u].sponsor,
                             at |-> profile'[u].assignedAt]
                       /\ \A j \in DOMAIN sponsorHistory' :
                            sponsorHistory'[j].member = u => j <= i
             ELSE \A i \in DOMAIN sponsorHistory' : sponsorHistory'[i].member # u
  <2>1. CASE u = member
    <3>1. len + 1 \in DOMAIN sponsorHistory' /\ \A j \in 1..(len + 1) : j <= len + 1
      BY <1>5
    <3> QED BY <2>1, <3>1, <1>0, <1>5, <1>6
  <2>2. CASE u # member /\ profile[u].status # "NONE"
    <3>1. profile[u].assignedAt <= now /\ profile[u].assignedAt \in Nat
      BY <2>2, <1>0, ReferralsAssumption
      DEF HistoryCoversProfiles, ProfileRows, Times, ReferralsAssumption
    <3>2. PICK i \in 1..len :
            /\ sponsorHistory[i] =
                 [member |-> u, sponsor |-> profile[u].sponsor,
                  at |-> profile[u].assignedAt]
            /\ \A j \in 1..len : sponsorHistory[j].member = u => j <= i
      BY <2>2, <1>5 DEF HistoryCoversProfiles
    <3>3. \A j \in 1..(len + 1) : sponsorHistory'[j].member = u => j <= i
      BY <2>2, <3>2, <1>5
    <3>4. i \in DOMAIN sponsorHistory' /\ sponsorHistory'[i] = sponsorHistory[i]
      BY <1>5
    <3>5. profile'[u] = profile[u] /\ profile[u].assignedAt <= now'
      BY <2>2, <3>1, <1>0, <1>6
    <3>6. \A j \in DOMAIN sponsorHistory' : sponsorHistory'[j].member = u => j <= i
      BY <3>3, <1>5
    <3>7. sponsorHistory'[i] = [member |-> u, sponsor |-> profile'[u].sponsor,
                                at |-> profile'[u].assignedAt]
      BY <3>2, <3>4, <3>5
    <3> QED BY <2>2, <3>4, <3>5, <3>6, <3>7
  <2>3. CASE u # member /\ profile[u].status = "NONE"
    <3>1. \A i \in 1..len : sponsorHistory[i].member # u
      BY <2>3, <1>5 DEF HistoryCoversProfiles
    <3>2. \A i \in 1..(len + 1) : sponsorHistory'[i].member # u
      BY <2>3, <3>1, <1>5
    <3> QED BY <2>3, <3>2, <1>5, <1>6
  <2> QED BY <2>1, <2>2, <2>3
<1> QED BY <1>0, <1>3, <1>4, <1>7, <1>8 DEF HistoryCoversProfiles

-----------------------------------------------------------------------------
(* The invariant of the tree.                                               *)

LEMMA InitTreeInv == ReferralInit => TreeInv
<1> SUFFICES ASSUME ReferralInit PROVE TreeInv
  OBVIOUS
<1>0. Nobody \notin Users /\ 0 \in Times /\ Nobody \in Sponsors
  BY ReferralsAssumption DEF ReferralsAssumption, Times, Sponsors
<1>2. ReferralTypeOK
  <2>1. NoProfile \in ProfileRows
    BY <1>0 DEF NoProfile, ProfileRows
  <2>2. sponsorHistory \in Seq(HistoryRows)
    BY DEF ReferralInit
  <2> QED BY <1>0, <2>1, <2>2 DEF ReferralInit, ReferralTypeOK
<1>1. \A u \in Users : profile[u].sponsor = Nobody /\ profile[u].status = "NONE"
  <2> TAKE u \in Users
  <2>1. profile[u] = NoProfile
    BY DEF ReferralInit
  <2> QED BY <2>1 DEF NoProfile
<1>3. ProfileShape
  BY <1>0, <1>1 DEF ProfileShape
<1>4. SponsorTreeAcyclic
  <2> SUFFICES ASSUME NEW S \in SUBSET Users, S # {},
                      \A u \in S : profile[u].sponsor \in S
               PROVE  FALSE
    BY DEF SponsorTreeAcyclic, Acyclic
  <2> QED BY <1>0, <1>1
<1>5. OneTree
  BY <1>1 DEF OneTree
<1>6. HistoryCoversProfiles
  <2>1. DOMAIN sponsorHistory = {}
    BY DEF ReferralInit
  <2> QED BY <1>1, <2>1 DEF HistoryCoversProfiles
<1> QED BY <1>2, <1>3, <1>4, <1>5, <1>6 DEF TreeInv

LEMMA UpdateConfigKeepsInv ==
  ASSUME TreeInv, NEW root \in Sponsors, NEW defaultSponsor \in Sponsors,
         NEW enrollment \in BOOLEAN,
         UpdateConfig(root, defaultSponsor, enrollment)
  PROVE  TreeInv'
<1> USE DEF TreeInv
<1>0. /\ profile \in [Users -> ProfileRows] /\ Nobody \notin Users
      /\ now \in Nat /\ now + 1 \in Nat /\ now' = now + 1 /\ now' \in Times
      /\ sponsorHistory \in Seq(HistoryRows) /\ Nobody \in Sponsors
      /\ config' = [root |-> root, defaultSponsor |-> defaultSponsor,
                    enrollment |-> enrollment]
      /\ account' = account /\ account \in [Users -> {"NONE", "ACTIVE", "SUSPENDED"}]
  BY ReferralsAssumption
  DEF ReferralTypeOK, ReferralsAssumption, UpdateConfig, Stamp, Times, Sponsors
<1>1. config.root # Nobody => root = config.root
  BY DEF UpdateConfig
<1>2. root # Nobody =>
        root \in Users /\ account[root] = "ACTIVE" /\ profile[root].status # "ASSIGNED"
  BY DEF UpdateConfig, Sponsors
<1>3. CASE root # Nobody /\ ~Enrolled(root)
  <2>0. root \in Users /\ profile[root].status = "NONE"
    BY <1>2, <1>3 DEF Enrolled
  <2>1. /\ profile' = [profile EXCEPT ![root] =
                         [status |-> "ROOT", sponsor |-> Nobody, assignedAt |-> now + 1]]
        /\ sponsorHistory' = Append(sponsorHistory, HistoryRow(root, Nobody))
    BY <1>3 DEF UpdateConfig
  <2>2. /\ profile'[root] =
             [status |-> "ROOT", sponsor |-> Nobody, assignedAt |-> now + 1]
        /\ \A u \in Users : u # root => profile'[u] = profile[u]
    BY <1>0, <2>0, <2>1
  <2>3. /\ profile' \in [Users -> ProfileRows]
        /\ sponsorHistory' \in Seq(HistoryRows)
        /\ HistoryCoversProfiles'
    <3>1. Stamp
      BY DEF UpdateConfig
    <3> QED BY <1>0, <2>0, <2>1, <3>1, PlacementKeepsHistory
  <2>4. ReferralTypeOK'
    BY <1>0, <2>3 DEF ReferralTypeOK
  <2>5. ProfileShape'
    <3>1. profile[root].sponsor \notin Users
      BY <2>0 DEF ProfileShape
    <3>2. \A u \in Users : profile[u].sponsor # root
      BY <2>0 DEF ProfileShape
    <3> QED BY <1>0, <1>1, <1>2, <2>0, <2>2, <3>1, <3>2 DEF ProfileShape
  <2>6. SponsorTreeAcyclic'
    <3> SUFFICES ASSUME NEW S \in SUBSET Users, S # {},
                        \A u \in S : profile'[u].sponsor \in S
                 PROVE  FALSE
      BY <2>3 DEF SponsorTreeAcyclic, Acyclic
    <3>1. root \notin S
      BY <1>0, <2>2
    <3>2. \A u \in S : profile[u].sponsor \in S
      BY <2>2, <3>1
    <3> QED BY <3>2 DEF SponsorTreeAcyclic, Acyclic
  <2>7. OneTree'
    <3> SUFFICES ASSUME NEW S \in SUBSET Users,
                        \E u \in S : profile'[u].status # "NONE",
                        \A u \in S : profile'[u].sponsor \in S \union {Nobody}
                 PROVE  config'.root \in S
      BY DEF OneTree
    <3>1. CASE root \in S
      BY <3>1, <1>0
    <3>2. CASE root \notin S
      <4>1. /\ \E u \in S : profile[u].status # "NONE"
            /\ \A u \in S : profile[u].sponsor \in S \union {Nobody}
        BY <2>2, <3>2
      <4>2. config.root \in S
        BY <4>1 DEF OneTree
      <4> QED BY <4>2, <1>0, <1>1
    <3> QED BY <3>1, <3>2
  <2> QED BY <2>3, <2>4, <2>5, <2>6, <2>7
<1>4. CASE ~(root # Nobody /\ ~Enrolled(root))
  <2>1. profile' = profile /\ sponsorHistory' = sponsorHistory
    BY <1>4 DEF UpdateConfig
  <2>2. ReferralTypeOK'
    BY <1>0, <2>1 DEF ReferralTypeOK
  <2>3. ProfileShape'
    <3>1. \A u \in Users : profile[u].status = "ROOT" => u = config'.root
      BY <1>0, <1>1 DEF ProfileShape
    <3> QED BY <1>0, <2>1, <3>1 DEF ProfileShape
  <2>4. SponsorTreeAcyclic'
    BY <2>1 DEF SponsorTreeAcyclic
  <2>5. OneTree'
    <3> SUFFICES ASSUME NEW S \in SUBSET Users,
                        \E u \in S : profile[u].status # "NONE",
                        \A u \in S : profile[u].sponsor \in S \union {Nobody}
                 PROVE  config'.root \in S
      BY <2>1 DEF OneTree
    <3>1. config.root \in S
      BY DEF OneTree
    <3> QED BY <3>1, <1>0, <1>1
  <2>6. HistoryCoversProfiles'
    <3>1. \A i \in DOMAIN sponsorHistory : sponsorHistory[i].at \in Nat
      <4>1. \A i \in DOMAIN sponsorHistory : sponsorHistory[i] \in HistoryRows
        BY <1>0
      <4> QED BY <4>1, ReferralsAssumption DEF HistoryRows, Times, ReferralsAssumption
    <3>2. \A u \in Users : profile[u].assignedAt \in Nat
      BY <1>0, ReferralsAssumption DEF ProfileRows, Times, ReferralsAssumption
    <3>3. /\ \A i \in DOMAIN sponsorHistory : sponsorHistory[i].at <= now + 1
          /\ \A u \in Users : profile[u].status # "NONE" =>
               profile[u].assignedAt <= now + 1
      BY <1>0, <3>1, <3>2 DEF HistoryCoversProfiles
    <3> QED BY <1>0, <2>1, <3>3 DEF HistoryCoversProfiles
  <2> QED BY <2>2, <2>3, <2>4, <2>5, <2>6
<1> QED BY <1>3, <1>4

LEMMA AssignSponsorKeepsInv ==
  ASSUME TreeInv, NEW member \in Users, NEW sponsor \in Users,
         AssignSponsor(member, sponsor)
  PROVE  TreeInv'
<1> USE DEF TreeInv
<1>0. /\ profile \in [Users -> ProfileRows] /\ Nobody \notin Users
      /\ sponsor \in Sponsors /\ config' = config /\ account' = account
  BY ReferralsAssumption
  DEF ReferralTypeOK, ReferralsAssumption, AssignSponsor, Sponsors
<1>1. /\ Stamp /\ AssertNoCycle(member, sponsor)
      /\ profile[sponsor].status # "NONE" /\ profile[member].status # "ROOT"
      /\ account[member] = "ACTIVE" /\ member # sponsor
      /\ profile' = [profile EXCEPT ![member] =
                       [status |-> "ASSIGNED", sponsor |-> sponsor,
                        assignedAt |-> now + 1]]
      /\ sponsorHistory' = Append(sponsorHistory, HistoryRow(member, sponsor))
  BY DEF AssignSponsor, Place, Enrolled
<1>2. SponsorTreeAcyclic' /\ OneTree'
  <2>1. PICK A \in SUBSET Users :
          /\ sponsor \in A /\ member \notin A
          /\ \A u \in A : profile[u].sponsor \in A \union {Nobody}
    BY <1>1, WalkIsClosed
  <2> QED BY <1>0, <1>1, <2>1, PlacementKeepsTree
<1>3. /\ profile' \in [Users -> ProfileRows]
      /\ sponsorHistory' \in Seq(HistoryRows)
      /\ now' \in Times
      /\ HistoryCoversProfiles'
  BY <1>0, <1>1, PlacementKeepsHistory
<1>4. ReferralTypeOK'
  BY <1>0, <1>3 DEF ReferralTypeOK
<1>5. ProfileShape'
  <2>1. /\ profile'[member].sponsor = sponsor
        /\ profile'[member].status = "ASSIGNED"
        /\ \A u \in Users : u # member => profile'[u] = profile[u]
    BY <1>0, <1>1 DEF ProfileRows
  <2> QED BY <1>0, <1>1, <2>1 DEF ProfileShape
<1> QED BY <1>2, <1>3, <1>4, <1>5

LEMMA RegisterKeepsInv ==
  ASSUME TreeInv, NEW u \in Users, NEW owner \in Sponsors, Register(u, owner)
  PROVE  TreeInv'
<1> USE DEF TreeInv
<1>0. /\ profile \in [Users -> ProfileRows] /\ Nobody \notin Users
      /\ account \in [Users -> {"NONE", "ACTIVE", "SUSPENDED"}]
      /\ account' = [account EXCEPT ![u] = "ACTIVE"] /\ account[u] = "NONE"
      /\ config' = config /\ Stamp
      /\ now \in Nat /\ now + 1 \in Nat /\ now' = now + 1 /\ now' \in Times
      /\ sponsorHistory \in Seq(HistoryRows)
  BY ReferralsAssumption
  DEF ReferralTypeOK, ReferralsAssumption, Register, Stamp, Times
<1>1. profile[u].status = "NONE"
  BY <1>0 DEF ProfileShape
<1>2. account' \in [Users -> {"NONE", "ACTIVE", "SUSPENDED"}]
  BY <1>0
<1>3. CASE config.enrollment
  <2>1. PICK sponsor \in Users : Enrolled(sponsor) /\ Place(u, sponsor)
    BY <1>3 DEF Register
  <2>2. sponsor # u /\ profile[sponsor].status # "NONE" /\ sponsor \in Sponsors
    BY <1>1, <2>1 DEF Enrolled, Sponsors
  <2> DEFINE A == {v \in Users : profile[v].status # "NONE"}
  <2>3. /\ sponsor \in A /\ u \notin A
        /\ \A v \in A : profile[v].sponsor \in A \union {Nobody}
    <3>1. ASSUME NEW v \in A PROVE profile[v].sponsor \in A \union {Nobody}
      <4>1. profile[v].sponsor \in Users \union {Nobody}
        BY <1>0 DEF ProfileRows, Sponsors
      <4> QED BY <4>1 DEF ProfileShape
    <3> QED BY <1>1, <2>2, <3>1
  <2>4. SponsorTreeAcyclic' /\ OneTree'
    <3> HIDE DEF A
    <3>1. A \in SUBSET Users
      BY DEF A
    <3> QED BY <1>0, <1>1, <2>1, <2>2, <2>3, <3>1, PlacementKeepsTree DEF Place
  <2>5. /\ profile' \in [Users -> ProfileRows]
        /\ sponsorHistory' \in Seq(HistoryRows)
        /\ HistoryCoversProfiles'
    BY <1>0, <2>1, <2>2, PlacementKeepsHistory DEF Place
  <2>6. ReferralTypeOK'
    BY <1>0, <1>2, <2>5 DEF ReferralTypeOK
  <2>7. ProfileShape'
    <3>1. /\ profile'[u].sponsor = sponsor
          /\ profile'[u].status = "ASSIGNED"
          /\ \A v \in Users : v # u => profile'[v] = profile[v]
      BY <1>0, <2>1 DEF ProfileRows, Place
    <3>2. /\ account'[u] # "NONE"
          /\ \A v \in Users : v # u => account'[v] = account[v]
      BY <1>0
    <3> QED BY <1>0, <2>2, <3>1, <3>2 DEF ProfileShape
  <2> QED BY <2>4, <2>5, <2>6, <2>7
<1>4. CASE ~config.enrollment
  <2>1. profile' = profile /\ sponsorHistory' = sponsorHistory
    BY <1>4 DEF Register
  <2>2. ReferralTypeOK'
    BY <1>0, <1>2, <2>1 DEF ReferralTypeOK
  <2>3. ProfileShape'
    <3>1. \A v \in Users : account[v] # "NONE" => account'[v] # "NONE"
      BY <1>0
    <3> QED BY <1>0, <2>1, <3>1 DEF ProfileShape
  <2>4. SponsorTreeAcyclic' /\ OneTree'
    BY <1>0, <2>1 DEF SponsorTreeAcyclic, OneTree
  <2>5. HistoryCoversProfiles'
    <3>1. \A i \in DOMAIN sponsorHistory : sponsorHistory[i].at \in Nat
      <4>1. \A i \in DOMAIN sponsorHistory : sponsorHistory[i] \in HistoryRows
        BY <1>0
      <4> QED BY <4>1, ReferralsAssumption DEF HistoryRows, Times, ReferralsAssumption
    <3>2. \A v \in Users : profile[v].assignedAt \in Nat
      BY <1>0, ReferralsAssumption DEF ProfileRows, Times, ReferralsAssumption
    <3>3. /\ \A i \in DOMAIN sponsorHistory : sponsorHistory[i].at <= now + 1
          /\ \A v \in Users : profile[v].status # "NONE" =>
               profile[v].assignedAt <= now + 1
      BY <1>0, <3>1, <3>2 DEF HistoryCoversProfiles
    <3> QED BY <1>0, <2>1, <3>3 DEF HistoryCoversProfiles
  <2> QED BY <2>2, <2>3, <2>4, <2>5
<1> QED BY <1>3, <1>4

LEMMA NextTreeInv == TreeInv /\ [ReferralNext]_referralVars => TreeInv'
<1> SUFFICES ASSUME TreeInv, [ReferralNext]_referralVars PROVE TreeInv'
  OBVIOUS
<1>1. ASSUME NEW root \in Sponsors, NEW sponsor \in Sponsors,
             NEW enrollment \in BOOLEAN, UpdateConfig(root, sponsor, enrollment)
      PROVE  TreeInv'
  BY <1>1, UpdateConfigKeepsInv
<1>2. ASSUME NEW member \in Users, NEW sponsor \in Users, AssignSponsor(member, sponsor)
      PROVE  TreeInv'
  BY <1>2, AssignSponsorKeepsInv
<1>3. ASSUME NEW u \in Users, NEW owner \in Sponsors, Register(u, owner)
      PROVE  TreeInv'
  BY <1>3, RegisterKeepsInv
<1>4. ASSUME NEW u \in Suspendable, NEW status \in {"ACTIVE", "SUSPENDED"},
             SetUserStatus(u, status)
      PROVE  TreeInv'
  <2>1. /\ UNCHANGED <<now, profile, sponsorHistory, config>>
        /\ account' = [account EXCEPT ![u] = status]
        /\ account \in [Users -> {"NONE", "ACTIVE", "SUSPENDED"}]
    BY <1>4 DEF SetUserStatus, TreeInv, ReferralTypeOK
  <2>2. account' \in [Users -> {"NONE", "ACTIVE", "SUSPENDED"}]
    BY <2>1
  <2>3. \A v \in Users : account[v] # "NONE" => account'[v] # "NONE"
    BY <2>1
  <2>4. ReferralTypeOK'
    BY <2>1, <2>2 DEF TreeInv, ReferralTypeOK
  <2>5. ProfileShape'
    BY <2>1, <2>3 DEF TreeInv, ProfileShape
  <2>6. SponsorTreeAcyclic' /\ OneTree' /\ HistoryCoversProfiles'
    BY <2>1 DEF TreeInv, SponsorTreeAcyclic, OneTree, HistoryCoversProfiles
  <2> QED BY <2>4, <2>5, <2>6 DEF TreeInv
<1>5. CASE UNCHANGED referralVars
  BY <1>5 DEF referralVars, TreeInv, ReferralTypeOK, ProfileShape,
     SponsorTreeAcyclic, OneTree, HistoryCoversProfiles
<1> QED BY <1>1, <1>2, <1>3, <1>4, <1>5 DEF ReferralNext

\* Type correctness of the sponsor tree's rows.
THEOREM ReferralTypes == ReferralSpec => []ReferralTypeOK
<1>1. ReferralSpec => []TreeInv
  BY InitTreeInv, NextTreeInv, PTL DEF ReferralSpec
<1>2. TreeInv => ReferralTypeOK
  BY DEF TreeInv
<1> QED BY <1>1, <1>2, PTL

\* No reassignment, enrollment or configuration ever closes a cycle of
\* sponsors.
THEOREM TreeStaysAcyclic == ReferralSpec => []SponsorTreeAcyclic
<1>1. ReferralSpec => []TreeInv
  BY InitTreeInv, NextTreeInv, PTL DEF ReferralSpec
<1>2. TreeInv => SponsorTreeAcyclic
  BY DEF TreeInv
<1> QED BY <1>1, <1>2, PTL

\* The enrolled members always form one tree under the configured root.
THEOREM TreeStaysWhole == ReferralSpec => []OneTree
<1>1. ReferralSpec => []TreeInv
  BY InitTreeInv, NextTreeInv, PTL DEF ReferralSpec
<1>2. TreeInv => OneTree
  BY DEF TreeInv
<1> QED BY <1>1, <1>2, PTL

\* The history always accounts for every profile.
THEOREM HistoryIsComplete == ReferralSpec => []HistoryCoversProfiles
<1>1. ReferralSpec => []TreeInv
  BY InitTreeInv, NextTreeInv, PTL DEF ReferralSpec
<1>2. TreeInv => HistoryCoversProfiles
  BY DEF TreeInv
<1> QED BY <1>1, <1>2, PTL

-----------------------------------------------------------------------------
(* The history as later readers see it.                                     *)

\* Read at the present, the history says what the profiles say.
CurrentTree == \A u \in Users : ResolveSponsorAt(u, now) = profile[u].sponsor

\* The history alone decides: the profile that resolveSponsorAt falls back
\* to never adds a sponsor.
LEMMA HistoryDecides ==
  ASSUME TreeInv, NEW u \in Users, NEW t \in Nat, LatestRows(u, t) = {}
  PROVE  ResolveSponsorAt(u, t) = Nobody
<1>1. CASE profile[u].status = "ASSIGNED" /\ profile[u].assignedAt <= t
  <2>1. PICK i \in DOMAIN sponsorHistory :
          /\ sponsorHistory[i] = [member |-> u, sponsor |-> profile[u].sponsor,
                                  at |-> profile[u].assignedAt]
          /\ \A j \in DOMAIN sponsorHistory : sponsorHistory[j].member = u => j <= i
    BY <1>1 DEF TreeInv, HistoryCoversProfiles
  <2>2. sponsorHistory[i].member = u /\ sponsorHistory[i].at <= t
    BY <1>1, <2>1
  <2>3. i \in LatestRows(u, t)
    BY <2>1, <2>2 DEF LatestRows
  <2> QED BY <2>3
<1>2. CASE ~(profile[u].status = "ASSIGNED" /\ profile[u].assignedAt <= t)
  BY <1>2 DEF ResolveSponsorAt
<1> QED BY <1>1, <1>2

LEMMA HistoryIsCurrent == TreeInv => CurrentTree
<1> SUFFICES ASSUME TreeInv, NEW u \in Users
             PROVE  ResolveSponsorAt(u, now) = profile[u].sponsor
  BY DEF CurrentTree
<1>0. now \in Nat /\ profile \in [Users -> ProfileRows]
  BY ReferralsAssumption DEF TreeInv, ReferralTypeOK, Times, ReferralsAssumption
<1>1. CASE profile[u].status # "NONE"
  <2>1. PICK i \in DOMAIN sponsorHistory :
          /\ sponsorHistory[i] = [member |-> u, sponsor |-> profile[u].sponsor,
                                  at |-> profile[u].assignedAt]
          /\ \A j \in DOMAIN sponsorHistory : sponsorHistory[j].member = u => j <= i
    BY <1>1 DEF TreeInv, HistoryCoversProfiles
  <2>2. /\ sponsorHistory[i].member = u /\ sponsorHistory[i].at <= now
        /\ sponsorHistory[i].sponsor = profile[u].sponsor
    BY <2>1 DEF TreeInv, HistoryCoversProfiles
  <2>3. i \in LatestRows(u, now)
    BY <2>1, <2>2 DEF LatestRows
  <2>4. ASSUME NEW k \in LatestRows(u, now) PROVE k = i
    <3>1. k \in DOMAIN sponsorHistory /\ sponsorHistory[k].member = u /\ i <= k
      BY <2>1, <2>2 DEF LatestRows
    <3>2. k <= i
      BY <2>1, <3>1
    <3>3. i \in Int /\ k \in Int
      <4>1. DOMAIN sponsorHistory = 1..Len(sponsorHistory)
        BY DEF TreeInv, ReferralTypeOK
      <4> QED BY <3>1, <4>1
    <3> QED BY <3>1, <3>2, <3>3
  <2>5. (CHOOSE k \in LatestRows(u, now) : TRUE) = i
    BY <2>3, <2>4
  <2> QED BY <2>2, <2>3, <2>5 DEF ResolveSponsorAt
<1>2. CASE profile[u].status = "NONE"
  <2>1. LatestRows(u, now) = {}
    BY <1>2 DEF LatestRows, TreeInv, HistoryCoversProfiles
  <2>2. ResolveSponsorAt(u, now) = Nobody
    BY <1>0, <2>1, HistoryDecides
  <2>3. profile[u].sponsor = Nobody
    BY <1>0, <1>2 DEF TreeInv, ProfileShape, ProfileRows, Sponsors
  <2> QED BY <2>2, <2>3
<1> QED BY <1>1, <1>2

\* A step adds at most one row, stamped later than everything before it.
HistoryGrows ==
  \/ sponsorHistory' = sponsorHistory
  \/ \E row \in HistoryRows : /\ row.at = now + 1
                              /\ sponsorHistory' = Append(sponsorHistory, row)

LEMMA StepExtendsHistory ==
  ASSUME TreeInv, [ReferralNext]_referralVars
  PROVE  HistoryGrows
<1>0. now \in Nat /\ Nobody \in Sponsors /\ \A u \in Users : u \in Sponsors
  BY ReferralsAssumption
  DEF TreeInv, ReferralTypeOK, Times, ReferralsAssumption, Sponsors
<1>1. ASSUME Stamp, NEW m \in Users, NEW sp \in Sponsors
      PROVE  HistoryRow(m, sp) \in HistoryRows /\ HistoryRow(m, sp).at = now + 1
  BY <1>0, <1>1, ReferralsAssumption
  DEF HistoryRow, HistoryRows, Stamp, Times, ReferralsAssumption
<1>2. ASSUME NEW root \in Sponsors, NEW sponsor \in Sponsors,
             NEW enrollment \in BOOLEAN, UpdateConfig(root, sponsor, enrollment)
      PROVE  \/ sponsorHistory' = sponsorHistory
             \/ \E row \in HistoryRows : /\ row.at = now + 1
                                         /\ sponsorHistory' = Append(sponsorHistory, row)
  BY <1>0, <1>1, <1>2 DEF UpdateConfig, Sponsors
<1>3. ASSUME NEW member \in Users, NEW sponsor \in Users, AssignSponsor(member, sponsor)
      PROVE  \E row \in HistoryRows : /\ row.at = now + 1
                                      /\ sponsorHistory' = Append(sponsorHistory, row)
  BY <1>0, <1>1, <1>3 DEF AssignSponsor, Place
<1>4. ASSUME NEW u \in Users, NEW owner \in Sponsors, Register(u, owner)
      PROVE  \/ sponsorHistory' = sponsorHistory
             \/ \E row \in HistoryRows : /\ row.at = now + 1
                                         /\ sponsorHistory' = Append(sponsorHistory, row)
  BY <1>0, <1>1, <1>4 DEF Register, Place
<1>5. ASSUME NEW u \in Suspendable, NEW status \in {"ACTIVE", "SUSPENDED"},
             SetUserStatus(u, status)
      PROVE  sponsorHistory' = sponsorHistory
  BY <1>5 DEF SetUserStatus
<1> QED BY <1>2, <1>3, <1>4, <1>5 DEF ReferralNext, referralVars, HistoryGrows

LEMMA GrowthKeepsPast ==
  ASSUME TreeInv, TreeInv', HistoryGrows,
         NEW u \in Users, NEW t \in 0..now
  PROVE  ResolveSponsorAt(u, t)' = ResolveSponsorAt(u, t)
<1>0. /\ now \in Nat /\ t \in Nat /\ t < now + 1
      /\ sponsorHistory \in Seq(HistoryRows)
  BY ReferralsAssumption DEF TreeInv, ReferralTypeOK, Times, ReferralsAssumption
<1>1. /\ LatestRows(u, t)' = LatestRows(u, t)
      /\ \A i \in LatestRows(u, t) : sponsorHistory'[i] = sponsorHistory[i]
  <2>1. CASE sponsorHistory' = sponsorHistory
    BY <2>1 DEF LatestRows
  <2>2. ASSUME NEW row \in HistoryRows, row.at = now + 1,
               sponsorHistory' = Append(sponsorHistory, row)
        PROVE  /\ LatestRows(u, t)' = LatestRows(u, t)
               /\ \A i \in LatestRows(u, t) : sponsorHistory'[i] = sponsorHistory[i]
    <3> DEFINE len == Len(sponsorHistory)
               Old == {i \in DOMAIN sponsorHistory :
                         sponsorHistory[i].member = u /\ sponsorHistory[i].at <= t}
               New == {i \in DOMAIN sponsorHistory' :
                         sponsorHistory'[i].member = u /\ sponsorHistory'[i].at <= t}
    <3>1. /\ len \in Nat /\ DOMAIN sponsorHistory = 1..len
          /\ DOMAIN sponsorHistory' = 1..(len + 1)
          /\ \A i \in 1..len : sponsorHistory'[i] = sponsorHistory[i]
          /\ sponsorHistory'[len + 1] = row
      BY <1>0, <2>2
    <3>2. ~(sponsorHistory'[len + 1].at <= t)
      BY <1>0, <2>2, <3>1
    <3>3. New = Old
      BY <3>1, <3>2
    <3>4. LatestRows(u, t) = {i \in Old : \A j \in Old : j <= i}
      BY DEF LatestRows
    <3>5. LatestRows(u, t)' = {i \in New : \A j \in New : j <= i}
      BY DEF LatestRows
    <3>6. LatestRows(u, t)' = LatestRows(u, t)
      BY <3>3, <3>4, <3>5
    <3>7. \A i \in LatestRows(u, t) : i \in 1..len
      BY <3>1, <3>4
    <3> QED BY <3>1, <3>6, <3>7
  <2> QED BY <2>1, <2>2 DEF HistoryGrows
<1>2. CASE LatestRows(u, t) # {}
  <2> DEFINE k == CHOOSE i \in LatestRows(u, t) : TRUE
  <2>1. k \in LatestRows(u, t)
    BY <1>2
  <2>2. ResolveSponsorAt(u, t) = sponsorHistory[k].sponsor
    BY <1>2 DEF ResolveSponsorAt
  <2>3. ResolveSponsorAt(u, t)' = sponsorHistory'[k].sponsor
    BY <1>1, <1>2 DEF ResolveSponsorAt
  <2>4. sponsorHistory'[k] = sponsorHistory[k]
    BY <1>1, <2>1
  <2> QED BY <2>2, <2>3, <2>4
<1>3. CASE LatestRows(u, t) = {}
  <2>1. ResolveSponsorAt(u, t) = Nobody
    BY <1>0, <1>3, HistoryDecides
  <2>2. ~(profile'[u].status = "ASSIGNED" /\ profile'[u].assignedAt <= t)
    <3> SUFFICES ASSUME profile'[u].status = "ASSIGNED", profile'[u].assignedAt <= t
                 PROVE  FALSE
      OBVIOUS
    <3>1. PICK i \in DOMAIN sponsorHistory' :
            /\ sponsorHistory'[i] = [member |-> u, sponsor |-> profile'[u].sponsor,
                                     at |-> profile'[u].assignedAt]
            /\ \A j \in DOMAIN sponsorHistory' : sponsorHistory'[j].member = u => j <= i
      BY DEF TreeInv, HistoryCoversProfiles
    <3>2. sponsorHistory'[i].member = u /\ sponsorHistory'[i].at <= t
      BY <3>1
    <3>3. i \in LatestRows(u, t)'
      BY <3>1, <3>2 DEF LatestRows
    <3> QED BY <3>3, <1>1, <1>3
  <2>3. LatestRows(u, t)' = {}
    BY <1>1, <1>3
  <2>4. ResolveSponsorAt(u, t)' = Nobody
    BY <2>2, <2>3 DEF ResolveSponsorAt
  <2> QED BY <2>1, <2>4
<1> QED BY <1>2, <1>3

\* The trees of all earlier times stay without a cycle when the history grows.
LEMMA FirstTree ==
  ASSUME TreeInv, now = 0
  PROVE  PastTreesAcyclic
<1>1. 0..now = {now}
  OBVIOUS
<1>2. [u \in Users |-> ResolveSponsorAt(u, now)] = [u \in Users |-> profile[u].sponsor]
  BY HistoryIsCurrent DEF CurrentTree
<1> QED BY <1>1, <1>2 DEF PastTreesAcyclic, TreeInv, SponsorTreeAcyclic

LEMMA GrowthKeepsTrees ==
  ASSUME TreeInv, TreeInv', PastTreesAcyclic, HistoryGrows, now' \in {now, now + 1}
  PROVE  PastTreesAcyclic'
<1> SUFFICES ASSUME NEW t \in 0..now'
             PROVE  Acyclic([u \in Users |-> ResolveSponsorAt(u, t)'])
  BY DEF PastTreesAcyclic
<1>1. now \in Nat
  BY ReferralsAssumption DEF TreeInv, ReferralTypeOK, Times
<1>2. CASE t \in 0..now
  <2>1. [u \in Users |-> ResolveSponsorAt(u, t)'] = [u \in Users |-> ResolveSponsorAt(u, t)]
    BY <1>2, GrowthKeepsPast
  <2> QED BY <1>2, <2>1 DEF PastTreesAcyclic
<1>3. CASE t = now'
  <2>1. \A u \in Users : ResolveSponsorAt(u, now)' = profile'[u].sponsor
    <3>1. CurrentTree'
      BY HistoryIsCurrent, PTL
    <3> QED BY <3>1 DEF CurrentTree
  <2>2. \A u \in Users : ResolveSponsorAt(u, t)' = ResolveSponsorAt(u, now)'
    BY <1>3 DEF ResolveSponsorAt, LatestRows
  <2>3. [u \in Users |-> ResolveSponsorAt(u, t)'] = [u \in Users |-> profile'[u].sponsor]
    BY <2>1, <2>2
  <2> QED BY <2>3 DEF TreeInv, SponsorTreeAcyclic
<1> QED BY <1>1, <1>2, <1>3

\* Who sponsored whom at an earlier time never changes afterwards.
THEOREM PastIsFrozen == ReferralSpec => PastSponsorsFrozen
<1>1. TreeInv /\ TreeInv' /\ [ReferralNext]_referralVars =>
        [\A u \in Users, t \in 0..now :
           ResolveSponsorAt(u, t)' = ResolveSponsorAt(u, t)]_referralVars
  BY StepExtendsHistory, GrowthKeepsPast
<1> QED BY <1>1, InitTreeInv, NextTreeInv, PTL DEF ReferralSpec, PastSponsorsFrozen

\* The tree rebuilt for any earlier time has no cycle: the route of a
\* commission can always be resolved, however late it is processed.
THEOREM PastStaysAcyclic == ReferralSpec => []PastTreesAcyclic
<1>1. ReferralInit /\ TreeInv => PastTreesAcyclic
  BY FirstTree DEF ReferralInit
<1>2. TreeInv /\ TreeInv' /\ PastTreesAcyclic /\ [ReferralNext]_referralVars
        => PastTreesAcyclic'
  <2> SUFFICES ASSUME TreeInv, TreeInv', PastTreesAcyclic, [ReferralNext]_referralVars
               PROVE  PastTreesAcyclic'
    OBVIOUS
  <2>1. now' \in {now, now + 1}
    BY DEF ReferralNext, referralVars, UpdateConfig, AssignSponsor, Register, SetUserStatus, Stamp
  <2> QED BY <2>1, StepExtendsHistory, GrowthKeepsTrees
<1> QED BY <1>1, <1>2, InitTreeInv, NextTreeInv, PTL DEF ReferralSpec

-----------------------------------------------------------------------------
(* The invariant of the commissions.                                        *)

\* The sponsor tree, now and at every earlier time.
TreeKept == TreeInv /\ PastTreesAcyclic

\* Subscriptions have been activated before now.
SubscriptionsPast ==
  /\ subscription \in Seq(SubscriptionRows)
  /\ Len(subscription) <= MaxPurchases
  /\ \A s \in DOMAIN subscription : subscription[s].activatedAt <= now

\* The published ranges do not overlap.
PlansApart ==
  /\ published \subseteq PlanRows
  /\ \A p \in published : p.from < p.to
  /\ \A p, q \in published : p = q \/ p.to <= q.from \/ q.to <= p.from

\* A run has finitely many events, and belongs to a subscription.
RunsTyped ==
  /\ run \in [Subscriptions -> RunRows]
  /\ commission \in [Users -> Nat]
  /\ \A s \in Subscriptions : IsFiniteSet(run[s].events)
  /\ \A s \in Subscriptions : HasRun(s) => s \in DOMAIN subscription
  /\ \A s \in Subscriptions : ~HasRun(s) => run[s].events = {}

\* A run pays nobody twice, and never the purchaser.
OneEventPerReceiver ==
  \A s \in Subscriptions : \A e \in run[s].events :
    /\ e.receiver # subscription[s].user
    /\ \A f \in run[s].events : f.receiver = e.receiver => f = e

CommissionInv ==
  /\ TreeKept
  /\ SubscriptionsPast
  /\ PlansApart
  /\ RunsTyped
  /\ OneEventPerReceiver
  /\ CreditedOnce

-----------------------------------------------------------------------------
(* The initial tree.                                                        *)

\* A finite set as a sequence holds every element.
LEMMA SetAsSequence ==
  ASSUME NEW S, IsFiniteSet(S)
  PROVE  /\ Cardinality(S) \in Nat
         /\ SetToSeq(S) \in [1..Cardinality(S) -> S]
         /\ \A x \in S : \E i \in 1..Cardinality(S) : SetToSeq(S)[i] = x
         /\ \A i, j \in 1..Cardinality(S) : SetToSeq(S)[i] = SetToSeq(S)[j] => i = j
<1> DEFINE n == Cardinality(S)
           f == SetToSeq(S)
<1>1. n \in Nat
  BY FS_CardinalityType
<1>2. IsFiniteSet(1..n) /\ Cardinality(1..n) = n
  BY <1>1, FS_Interval
<1>3. ExistsBijection(1..n, S)
  BY FS_CardinalityType
<1>4. \E g \in [1..n -> S] : IsInjective(g)
  BY <1>3 DEF ExistsBijection, Bijection, Injection, IsInjective
<1>5. f \in [1..n -> S] /\ IsInjective(f)
  BY <1>4 DEF SetToSeq
<1> HIDE DEF f, n
<1>6. f \in Injection(1..n, S)
  BY <1>5 DEF Injection
<1>7. f \in Surjection(1..n, S)
  BY <1>2, <1>6, FS_Injection DEF n
<1>8. \A x \in S : \E i \in 1..n : f[i] = x
  BY <1>7 DEF Surjection
<1>9. \A i, j \in 1..n : f[i] = f[j] => i = j
  BY <1>5 DEF IsInjective
<1> QED BY <1>1, <1>5, <1>8, <1>9 DEF f, n

LEMMA InitTree == CommissionInit => TreeInv /\ now = 0
<1> SUFFICES ASSUME CommissionInit PROVE TreeInv /\ now = 0
  OBVIOUS
<1> DEFINE n == Cardinality(Users)
           order == SetToSeq(Users)
<1>1. /\ n \in Nat /\ order \in [1..n -> Users]
      /\ \A u \in Users : \E i \in 1..n : order[i] = u
      /\ \A i, j \in 1..n : order[i] = order[j] => i = j
  BY SetAsSequence, CommissionsAssumption
<1>2. /\ Root \in Users /\ StartTree \in [Users -> Sponsors] /\ Acyclic(StartTree)
      /\ \A u \in Users : StartTree[u] = Nobody <=> u = Root
      /\ Nobody \notin Users /\ Nobody \in Sponsors
      /\ 0 \in Times
  BY CommissionsAssumption, ReferralsAssumption DEF Sponsors, Times
<1>3. /\ now = 0 /\ account = [u \in Users |-> "ACTIVE"]
      /\ config = [root |-> Root, defaultSponsor |-> Root, enrollment |-> TRUE]
      /\ profile = [u \in Users |-> [status |-> IF u = Root THEN "ROOT" ELSE "ASSIGNED",
                                     sponsor |-> StartTree[u], assignedAt |-> 0]]
      /\ sponsorHistory = [i \in 1..n |->
                             [member |-> order[i], sponsor |-> StartTree[order[i]], at |-> 0]]
  <2>1. DOMAIN SetToSeq(Users) = 1..n
    BY <1>1
  <2> HIDE DEF n
  <2> QED BY <2>1 DEF CommissionInit
<1> HIDE DEF order, n
<1>4. \A i \in 1..n : sponsorHistory[i] \in HistoryRows
  BY <1>1, <1>2, <1>3 DEF HistoryRows
<1>5. sponsorHistory \in Seq(HistoryRows) /\ DOMAIN sponsorHistory = 1..n
  BY <1>1, <1>3, <1>4
<1>6. profile \in [Users -> ProfileRows]
  BY <1>2, <1>3 DEF ProfileRows
<1>7. ReferralTypeOK
  BY <1>2, <1>3, <1>5, <1>6 DEF ReferralTypeOK, Sponsors
<1>8. ASSUME NEW u \in Users
      PROVE  /\ profile[u].sponsor = StartTree[u] /\ StartTree[u] \in Sponsors
             /\ profile[u].assignedAt = 0
             /\ u = Root => profile[u].status = "ROOT"
             /\ u # Root => profile[u].status = "ASSIGNED"
             /\ profile[u].status # "NONE"
  BY <1>2, <1>3
<1>9. ProfileShape
  BY <1>2, <1>3, <1>8 DEF ProfileShape, Sponsors
<1>10. SponsorTreeAcyclic
  <2>1. [u \in Users |-> profile[u].sponsor] = StartTree
    BY <1>2, <1>8
  <2> QED BY <1>2, <2>1 DEF SponsorTreeAcyclic
<1>11. OneTree
  <2> SUFFICES ASSUME NEW S \in SUBSET Users, S # {},
                      \A u \in S : profile[u].sponsor \in S \union {Nobody},
                      Root \notin S
               PROVE  FALSE
    BY <1>3 DEF OneTree
  <2>1. ASSUME NEW u \in S PROVE StartTree[u] \in S
    <3>1. StartTree[u] # Nobody /\ profile[u].sponsor = StartTree[u]
      BY <1>2, <1>8
    <3> QED BY <3>1
  <2> QED BY <1>2, <2>1 DEF Acyclic
<1>12. HistoryCoversProfiles
  <2>1. \A i \in DOMAIN sponsorHistory : sponsorHistory[i].at <= now
    BY <1>3, <1>5
  <2>2. ASSUME NEW u \in Users
        PROVE  \E i \in DOMAIN sponsorHistory :
                 /\ sponsorHistory[i] = [member |-> u, sponsor |-> profile[u].sponsor,
                                         at |-> profile[u].assignedAt]
                 /\ \A j \in DOMAIN sponsorHistory : sponsorHistory[j].member = u => j <= i
    <3>1. PICK i \in 1..n : order[i] = u
      BY <1>1
    <3>2. sponsorHistory[i] = [member |-> u, sponsor |-> profile[u].sponsor,
                               at |-> profile[u].assignedAt]
      BY <1>3, <1>8, <3>1
    <3>3. ASSUME NEW j \in 1..n, sponsorHistory[j].member = u PROVE j <= i
      BY <1>1, <1>3, <3>1, <3>3
    <3> QED BY <1>5, <3>2, <3>3
  <2>3. ASSUME NEW u \in Users
        PROVE  profile[u].status # "NONE" /\ profile[u].assignedAt <= now
    <3>1. now = 0
      BY <1>3
    <3> QED BY <1>8, <3>1
  <2> QED BY <2>1, <2>2, <2>3 DEF HistoryCoversProfiles
<1> QED BY <1>3, <1>7, <1>9, <1>10, <1>11, <1>12 DEF TreeInv

-----------------------------------------------------------------------------
(* Largest elements, routes and their values.                               *)

\* up is the route from a user at a time, m levels high.
IsRoute(up, user, at, m) ==
  up = [n \in 0..m |-> IF n = 0 THEN user
                       ELSE IF up[n - 1] = Nobody THEN Nobody
                       ELSE ResolveSponsorAt(up[n - 1], at)]

LEMMA RouteIs ==
  ASSUME NEW user, NEW at, NEW m
  PROVE  SponsorRoute(user, at, m) = CHOOSE up : IsRoute(up, user, at, m)
BY DEF SponsorRoute, IsRoute

LEMMA ResolvesToSponsor ==
  ASSUME TreeInv, NEW u \in Users, NEW t
  PROVE  ResolveSponsorAt(u, t) \in Sponsors
<1>1. /\ profile \in [Users -> ProfileRows] /\ sponsorHistory \in Seq(HistoryRows)
      /\ Nobody \in Sponsors
  BY DEF TreeInv, ReferralTypeOK, Sponsors
<1>2. CASE LatestRows(u, t) # {}
  <2> DEFINE i == CHOOSE i \in LatestRows(u, t) : TRUE
  <2>1. i \in DOMAIN sponsorHistory
    BY <1>2 DEF LatestRows
  <2> HIDE DEF i
  <2>2. sponsorHistory[i] \in HistoryRows
    BY <1>1, <2>1, ElementOfSeq
  <2>3. sponsorHistory[i].sponsor \in Sponsors
    BY <2>2 DEF HistoryRows
  <2> QED BY <1>2, <2>3 DEF ResolveSponsorAt, i
<1>3. CASE LatestRows(u, t) = {}
  BY <1>1, <1>3 DEF ResolveSponsorAt, ProfileRows
<1> QED BY <1>2, <1>3

\* There is a route from every user.
LEMMA RouteExists ==
  ASSUME NEW user, NEW at, NEW m \in Nat
  PROVE  \E up : IsRoute(up, user, at, m)
<1> DEFINE Bad == {k \in 0..m : ~ \E up : IsRoute(up, user, at, k)}
<1>1. SUFFICES ASSUME Bad # {} PROVE FALSE
  <2>1. m \in 0..m
    OBVIOUS
  <2> QED BY <2>1
<1>2. PICK k \in Bad : \A j \in 0..(k - 1) : j \notin Bad
  <2> HIDE DEF Bad
  <2>1. Bad \in SUBSET (0..m)
    BY DEF Bad
  <2> QED BY <1>1, <2>1, SmallestNumber
<1>3. k \in 0..m /\ ~ \E up : IsRoute(up, user, at, k)
  OBVIOUS
<1>4. CASE k = 0
  <2> DEFINE up == [n \in 0..0 |-> user]
  <2>1. IsRoute(up, user, at, 0)
    BY DEF IsRoute
  <2> QED BY <1>3, <1>4, <2>1
<1>5. CASE k # 0
  <2>1. k - 1 \in 0..(k - 1) /\ k - 1 \in 0..m
    BY <1>3, <1>5
  <2>2. PICK low : IsRoute(low, user, at, k - 1)
    BY <1>2, <2>1
  <2> DEFINE up == [n \in 0..k |->
                      IF n = 0 THEN user
                      ELSE IF low[n - 1] = Nobody THEN Nobody
                      ELSE ResolveSponsorAt(low[n - 1], at)]
  <2>3. ASSUME NEW n \in 0..(k - 1) PROVE up[n] = low[n]
    BY <1>3, <2>2 DEF IsRoute
  <2>4. up = [n \in 0..k |-> IF n = 0 THEN user
                             ELSE IF up[n - 1] = Nobody THEN Nobody
                             ELSE ResolveSponsorAt(up[n - 1], at)]
    <3>1. \A n \in 0..k : n # 0 => n - 1 \in 0..(k - 1)
      BY <1>3
    <3>2. \A n \in 0..k : n # 0 => up[n - 1] = low[n - 1]
      BY <2>3, <3>1
    <3> QED BY <3>2
  <2> HIDE DEF up
  <2>5. IsRoute(up, user, at, k)
    BY <2>4 DEF IsRoute
  <2> QED BY <1>3, <2>5
<1> QED BY <1>4, <1>5

\* A route holds users until it ends.
GoesUp(up, user, at, m) ==
  /\ DOMAIN up = 0..m /\ up[0] = user
  /\ \A n \in 0..m : up[n] \in Sponsors
  /\ \A n \in 1..m : up[n] = IF up[n - 1] = Nobody THEN Nobody
                             ELSE ResolveSponsorAt(up[n - 1], at)

LEMMA RouteValues ==
  ASSUME TreeInv, NEW user \in Users, NEW at, NEW m \in Nat, NEW up, IsRoute(up, user, at, m)
  PROVE  GoesUp(up, user, at, m)
<1>1. DOMAIN up = 0..m
  BY DEF IsRoute
<1>2. up[0] = user
  <2>1. 0 \in 0..m
    OBVIOUS
  <2> QED BY <2>1 DEF IsRoute
<1>3. ASSUME NEW n \in 1..m
      PROVE  up[n] = IF up[n - 1] = Nobody THEN Nobody ELSE ResolveSponsorAt(up[n - 1], at)
  <2>1. n \in 0..m /\ n # 0
    OBVIOUS
  <2> QED BY <2>1 DEF IsRoute
<1> DEFINE Bad == {n \in 0..m : up[n] \notin Sponsors}
<1>4. Bad = {}
  <2> SUFFICES ASSUME Bad # {} PROVE FALSE
    OBVIOUS
  <2>1. PICK k \in Bad : \A j \in 0..(k - 1) : j \notin Bad
    <3> HIDE DEF Bad
    <3>1. Bad \in SUBSET (0..m)
      BY DEF Bad
    <3> QED BY <3>1, SmallestNumber
  <2>2. k \in 0..m /\ up[k] \notin Sponsors
    OBVIOUS
  <2>3. k # 0
    BY <1>2, <2>2 DEF Sponsors
  <2>4. k \in 1..m /\ k - 1 \in 0..(k - 1) /\ k - 1 \in 0..m
    BY <2>2, <2>3
  <2>5. up[k - 1] \in Sponsors
    BY <2>1, <2>4
  <2>6. up[k] \in Sponsors
    BY <1>3, <2>4, <2>5, ResolvesToSponsor DEF Sponsors
  <2> QED BY <2>2, <2>6
<1> QED BY <1>1, <1>2, <1>3, <1>4 DEF GoesUp

\* In a tree without a cycle no route meets itself.
LEMMA RouteIsStraight ==
  ASSUME TreeInv, PastTreesAcyclic, NEW user \in Users, NEW at \in 0..now, NEW m \in Nat,
         NEW up, IsRoute(up, user, at, m)
  PROVE  ~RouteMeetsItself(up)
<1>1. /\ DOMAIN up = 0..m
      /\ \A n \in 0..m : up[n] \in Sponsors
      /\ \A n \in 1..m : up[n] = IF up[n - 1] = Nobody THEN Nobody
                                 ELSE ResolveSponsorAt(up[n - 1], at)
  <2>1. GoesUp(up, user, at, m)
    BY RouteValues
  <2> QED BY <2>1 DEF GoesUp
<1> SUFFICES ASSUME NEW i \in 0..m, NEW j \in 0..m, i < j, up[i] # Nobody, up[i] = up[j]
             PROVE  FALSE
  BY <1>1 DEF RouteMeetsItself
<1> DEFINE Ends == {n \in i..j : up[n] = Nobody}
<1>2. Ends = {}
  <2> SUFFICES ASSUME Ends # {} PROVE FALSE
    OBVIOUS
  <2>1. IsFiniteSet(Ends) /\ Ends \subseteq Int
    <3>1. IsFiniteSet(i..j) /\ Ends \subseteq i..j
      BY FS_Interval
    <3>2. Ends \subseteq Int
      OBVIOUS
    <3> HIDE DEF Ends
    <3>3. IsFiniteSet(Ends)
      BY <3>1, FS_Subset
    <3> QED BY <3>2, <3>3
  <2> DEFINE k == Max(Ends)
  <2>2. k \in Ends /\ \A y \in Ends : y <= k
    <3> HIDE DEF Ends
    <3> QED BY <2>1, MaxOf
  <2> HIDE DEF k
  <2>3. k \in i..j /\ up[k] = Nobody
    BY <2>2
  <2>4. k < j
    BY <2>3
  <2>5. k + 1 \in i..j /\ k + 1 \in 1..m /\ (k + 1) - 1 = k
    BY <2>3, <2>4
  <2>6. up[k + 1] = Nobody
    BY <1>1, <2>3, <2>5
  <2>7. k + 1 \in Ends
    BY <2>5, <2>6
  <2> QED BY <2>2, <2>3, <2>7
<1> DEFINE S == {up[n] : n \in i..(j - 1)}
           sponsorOf == [u \in Users |-> ResolveSponsorAt(u, at)]
<1>3. ASSUME NEW n \in i..j PROVE up[n] \in Users
  <2>1. n \in 0..m /\ up[n] # Nobody
    BY <1>2
  <2> QED BY <1>1, <2>1 DEF Sponsors
<1>4. S \in SUBSET Users /\ S # {}
  <2>1. i \in i..(j - 1) /\ \A n \in i..(j - 1) : n \in i..j
    OBVIOUS
  <2> QED BY <1>3, <2>1
<1>5. ASSUME NEW u \in S PROVE sponsorOf[u] \in S
  <2>1. PICK n \in i..(j - 1) : u = up[n]
    BY <1>5
  <2>2. n \in i..j /\ n + 1 \in 1..m /\ n + 1 \in i..j /\ (n + 1) - 1 = n
    OBVIOUS
  <2>3. up[n] # Nobody /\ up[n] \in Users
    BY <1>2, <1>3, <2>2
  <2>4. up[n + 1] = ResolveSponsorAt(up[n], at)
    BY <1>1, <2>2, <2>3
  <2>5. sponsorOf[u] = up[n + 1]
    BY <2>1, <2>3, <2>4
  <2>6. CASE n + 1 = j
    <3>1. up[n + 1] = up[i] /\ i \in i..(j - 1)
      BY <2>6
    <3> QED BY <2>5, <3>1
  <2>7. CASE n + 1 # j
    <3>1. n + 1 \in i..(j - 1)
      BY <2>2, <2>7
    <3> QED BY <2>5, <3>1
  <2> QED BY <2>6, <2>7
<1>6. Acyclic(sponsorOf)
  BY DEF PastTreesAcyclic
<1> HIDE DEF S, sponsorOf
<1> QED BY <1>4, <1>5, <1>6 DEF Acyclic

-----------------------------------------------------------------------------
(* What the steps do to the tree and to the subscriptions.                  *)

\* The clock moves, or not, and the tree is left alone.
TreeQuiet ==
  /\ now' \in {now, now + 1} /\ now' <= MaxTime
  /\ UNCHANGED <<account, profile, sponsorHistory, config>>

LEMMA Clock ==
  ASSUME TreeInv
  PROVE  now \in Nat /\ MaxTime \in Nat /\ now <= MaxTime /\ Times = 0..MaxTime
BY ReferralsAssumption DEF TreeInv, ReferralTypeOK, Times

LEMMA QuietTree ==
  ASSUME TreeInv, TreeQuiet
  PROVE  TreeInv'
<1>1. now' \in Times /\ now <= now' /\ now \in Nat /\ now' \in Nat
  BY Clock DEF TreeQuiet
<1>2. UNCHANGED <<account, profile, sponsorHistory, config>>
  BY DEF TreeQuiet
<1>3. ReferralTypeOK'
  BY <1>1, <1>2 DEF TreeInv, ReferralTypeOK
<1>4. ProfileShape' /\ SponsorTreeAcyclic' /\ OneTree'
  BY <1>2 DEF TreeInv, ProfileShape, SponsorTreeAcyclic, OneTree
<1>5. HistoryCoversProfiles'
  <2>1. \A i \in DOMAIN sponsorHistory : sponsorHistory[i].at \in Nat
    <3>1. sponsorHistory \in Seq(HistoryRows)
      BY DEF TreeInv, ReferralTypeOK
    <3>2. ASSUME NEW i \in DOMAIN sponsorHistory PROVE sponsorHistory[i] \in HistoryRows
      BY <3>1, ElementOfSeq
    <3> QED BY <3>2, Clock DEF HistoryRows
  <2>2. \A i \in DOMAIN sponsorHistory' : sponsorHistory'[i].at <= now'
    BY <1>1, <1>2, <2>1 DEF TreeInv, HistoryCoversProfiles
  <2>3. \A u \in Users : profile[u].assignedAt \in Nat
    BY Clock DEF TreeInv, ReferralTypeOK, ProfileRows
  <2>4. \A u \in Users : profile[u].status # "NONE" => profile[u].assignedAt <= now'
    BY <1>1, <2>3 DEF TreeInv, HistoryCoversProfiles
  <2> QED BY <1>2, <2>2, <2>4 DEF TreeInv, HistoryCoversProfiles
<1> QED BY <1>3, <1>4, <1>5 DEF TreeInv

\* Every step leaves the tree alone or moves a member.
LEMMA TreeSteps ==
  ASSUME TreeInv, [CommissionNext]_commissionVars
  PROVE  \/ TreeQuiet
         \/ \E member, sponsor \in Users : MoveMember(member, sponsor)
<1>1. ASSUME NEW s, ProcessSubscription(s) \/ EndTrading(s) \/ FinalizeCompletion(s)
      PROVE  TreeQuiet
  BY <1>1, Clock DEF ProcessSubscription, EndTrading, FinalizeCompletion, Stamp, TreeQuiet, referralVars
<1>2. ASSUME NEW plan, NEW from, NEW to, PublishPlan(plan, from, to)
      PROVE  TreeQuiet
  BY <1>2, Clock DEF PublishPlan, Stamp, TreeQuiet
<1>3. ASSUME NEW u, NEW offer, ActivatePackage(u, offer)
      PROVE  TreeQuiet
  BY <1>3, Clock DEF ActivatePackage, Stamp, TreeQuiet
<1>4. CASE UNCHANGED commissionVars
  BY <1>4, Clock DEF commissionVars, referralVars, TreeQuiet
<1> QED BY <1>1, <1>2, <1>3, <1>4 DEF CommissionNext

LEMMA TreeIsKept ==
  ASSUME TreeKept, [CommissionNext]_commissionVars
  PROVE  /\ TreeKept' /\ HistoryGrows
         /\ now' \in {now, now + 1}
<1>1. TreeInv /\ PastTreesAcyclic
  BY DEF TreeKept
<1>2. CASE TreeQuiet
  <2>1. TreeInv' /\ HistoryGrows /\ now' \in {now, now + 1}
    BY <1>1, <1>2, QuietTree DEF TreeQuiet, HistoryGrows
  <2> QED BY <1>1, <2>1, GrowthKeepsTrees DEF TreeKept
<1>3. ASSUME NEW member \in Users, NEW sponsor \in Users, MoveMember(member, sponsor)
      PROVE  TreeInv' /\ HistoryGrows /\ now' \in {now, now + 1}
  <2>1. AssignSponsor(member, sponsor)
    BY <1>3 DEF MoveMember
  <2>2. [ReferralNext]_referralVars
    BY <2>1 DEF ReferralNext
  <2>3. TreeInv'
    BY <1>1, <2>2, NextTreeInv
  <2>4. HistoryGrows
    BY <1>1, <2>2, StepExtendsHistory
  <2> QED BY <2>1, <2>3, <2>4 DEF AssignSponsor, Stamp
<1>4. TreeInv' /\ HistoryGrows /\ now' \in {now, now + 1} => TreeKept'
  BY <1>1, GrowthKeepsTrees DEF TreeKept
<1> QED BY <1>1, <1>2, <1>3, <1>4, TreeSteps

\* Activations keep their user, offer and time, and new ones come after now.
RowsKept ==
  /\ DOMAIN subscription \subseteq DOMAIN subscription'
  /\ \A s \in DOMAIN subscription :
       /\ subscription'[s].user = subscription[s].user
       /\ subscription'[s].offer = subscription[s].offer
       /\ subscription'[s].activatedAt = subscription[s].activatedAt
  /\ \A s \in DOMAIN subscription' :
       s \in DOMAIN subscription \/ subscription'[s].activatedAt = now + 1

LEMMA SubscriptionTyped ==
  ASSUME SubscriptionsPast
  PROVE  /\ Len(subscription) \in Nat /\ DOMAIN subscription = 1..Len(subscription)
         /\ DOMAIN subscription \subseteq Subscriptions
         /\ \A s \in DOMAIN subscription :
              /\ subscription[s] \in SubscriptionRows
              /\ subscription[s].user \in Users
              /\ subscription[s].activatedAt \in 0..now
<1>1. /\ subscription \in Seq(SubscriptionRows) /\ Len(subscription) <= MaxPurchases
      /\ MaxPurchases \in Nat
  BY CommissionsAssumption DEF SubscriptionsPast
<1>2. Len(subscription) \in Nat /\ DOMAIN subscription = 1..Len(subscription)
  BY <1>1
<1>3. DOMAIN subscription \subseteq Subscriptions
  BY <1>1, <1>2 DEF Subscriptions
<1>4. ASSUME NEW s \in DOMAIN subscription
      PROVE  /\ subscription[s] \in SubscriptionRows
             /\ subscription[s].user \in Users
             /\ subscription[s].activatedAt \in 0..now
  <2>1. subscription[s] \in SubscriptionRows
    BY <1>1, ElementOfSeq
  <2>2. subscription[s].activatedAt \in Times /\ subscription[s].activatedAt <= now
    BY <2>1 DEF SubscriptionRows, SubscriptionsPast
  <2> QED BY <2>1, <2>2, ReferralsAssumption DEF SubscriptionRows, Times
<1> QED BY <1>2, <1>3, <1>4

\* A row that changes keeps what was activated.
LEMMA RowChanged ==
  ASSUME TreeInv, SubscriptionsPast, now' \in {now, now + 1},
         NEW s \in DOMAIN subscription, NEW row \in SubscriptionRows,
         row.user = subscription[s].user, row.offer = subscription[s].offer,
         row.activatedAt = subscription[s].activatedAt,
         subscription' = [subscription EXCEPT ![s] = row]
  PROVE  SubscriptionsPast' /\ RowsKept
<1>1. /\ subscription \in Seq(SubscriptionRows)
      /\ Len(subscription) <= MaxPurchases
  BY DEF SubscriptionsPast
<1>2. /\ subscription' \in Seq(SubscriptionRows) /\ Len(subscription') = Len(subscription)
      /\ DOMAIN subscription' = DOMAIN subscription
      /\ subscription'[s] = row
      /\ \A t \in DOMAIN subscription : t # s => subscription'[t] = subscription[t]
  BY <1>1, ExceptSeq
<1>3. RowsKept
  BY <1>2 DEF RowsKept
<1>4. ASSUME NEW t \in DOMAIN subscription' PROVE subscription'[t].activatedAt <= now'
  <2>1. t \in DOMAIN subscription /\ subscription[t].activatedAt \in 0..now
    BY <1>2, <1>4, SubscriptionTyped
  <2>2. subscription'[t].activatedAt = subscription[t].activatedAt
    BY <1>2, <2>1
  <2> QED BY <2>1, <2>2, Clock
<1> QED BY <1>1, <1>2, <1>3, <1>4 DEF SubscriptionsPast

LEMMA SubscriptionsAreKept ==
  ASSUME TreeInv, SubscriptionsPast, [CommissionNext]_commissionVars
  PROVE  SubscriptionsPast' /\ RowsKept
<1>1. CASE UNCHANGED subscription /\ now' \in {now, now + 1}
  <2>1. \A s \in DOMAIN subscription : subscription[s].activatedAt <= now'
    BY <1>1, SubscriptionTyped, Clock
  <2> QED BY <1>1, <2>1 DEF SubscriptionsPast, RowsKept
<1>2. ASSUME NEW s \in Subscriptions, EndTrading(s)
      PROVE  SubscriptionsPast' /\ RowsKept
  <2> DEFINE row == [subscription[s] EXCEPT !.tradedUntil = now + 1]
  <2>1. /\ s \in DOMAIN subscription /\ now < MaxTime /\ now' = now + 1
        /\ subscription' = [subscription EXCEPT ![s] = row]
    BY <1>2 DEF EndTrading, Stamp
  <2>2. subscription[s] \in SubscriptionRows
    BY <2>1, SubscriptionTyped
  <2>3. now + 1 \in 0..Forever
    BY <2>1, Clock DEF Forever
  <2>4. /\ row \in SubscriptionRows /\ row.user = subscription[s].user
        /\ row.offer = subscription[s].offer
        /\ row.activatedAt = subscription[s].activatedAt
    BY <2>2, <2>3 DEF SubscriptionRows
  <2> HIDE DEF row
  <2> QED BY <2>1, <2>4, RowChanged
<1>3. ASSUME NEW s \in Subscriptions, FinalizeCompletion(s)
      PROVE  SubscriptionsPast' /\ RowsKept
  <2> DEFINE row == [subscription[s] EXCEPT !.status = "COMPLETED",
                                            !.completedAt = subscription[s].tradedUntil]
  <2>1. /\ s \in DOMAIN subscription /\ now' = now
        /\ subscription' = [subscription EXCEPT ![s] = row]
    BY <1>3, SubscriptionTyped DEF FinalizeCompletion, referralVars
  <2>2. subscription[s] \in SubscriptionRows
    BY <2>1, SubscriptionTyped
  <2>3. /\ row \in SubscriptionRows /\ row.user = subscription[s].user
        /\ row.offer = subscription[s].offer
        /\ row.activatedAt = subscription[s].activatedAt
    BY <2>2 DEF SubscriptionRows
  <2> HIDE DEF row
  <2> QED BY <2>1, <2>3, RowChanged
<1>4. ASSUME NEW u \in Users, NEW offer \in Offers, ActivatePackage(u, offer)
      PROVE  SubscriptionsPast' /\ RowsKept
  <2> DEFINE row == [user |-> u, offer |-> offer, activatedAt |-> now + 1, status |-> "ACTIVE",
                     tradedUntil |-> Forever, completedAt |-> Forever]
             n == Len(subscription)
  <2>1. /\ now < MaxTime /\ now' = now + 1 /\ n < MaxPurchases
        /\ subscription' = Append(subscription, row)
    BY <1>4 DEF ActivatePackage, Stamp
  <2>2. row \in SubscriptionRows /\ row.activatedAt = now + 1
    BY <2>1, Clock DEF SubscriptionRows, Forever
  <2> HIDE DEF row, n
  <2>3. /\ n \in Nat /\ DOMAIN subscription = 1..n /\ MaxPurchases \in Nat
        /\ subscription \in Seq(SubscriptionRows)
    BY SubscriptionTyped, CommissionsAssumption DEF SubscriptionsPast, n
  <2>4. /\ subscription' \in Seq(SubscriptionRows) /\ Len(subscription') = n + 1
        /\ DOMAIN subscription' = 1..(n + 1)
        /\ \A s \in 1..n : subscription'[s] = subscription[s]
        /\ subscription'[n + 1] = row
    BY <2>1, <2>2, <2>3, AppendProperties DEF n
  <2>5. RowsKept
    BY <2>2, <2>3, <2>4 DEF RowsKept
  <2>6. ASSUME NEW s \in DOMAIN subscription' PROVE subscription'[s].activatedAt <= now'
    <3>1. CASE s = n + 1
      BY <2>1, <2>2, <2>4, <3>1, Clock
    <3>2. CASE s \in 1..n
      <4>1. subscription[s].activatedAt \in 0..now
        BY <2>3, <3>2, SubscriptionTyped
      <4> QED BY <2>1, <2>4, <3>2, <4>1, Clock
    <3> QED BY <2>3, <2>4, <3>1, <3>2
  <2> QED BY <2>1, <2>3, <2>4, <2>5, <2>6 DEF SubscriptionsPast
<1>5. ASSUME NEW s, ProcessSubscription(s)
      PROVE  UNCHANGED subscription /\ now' \in {now, now + 1}
  BY <1>5 DEF ProcessSubscription, referralVars
<1>6. ASSUME NEW plan, NEW from, NEW to, PublishPlan(plan, from, to)
      PROVE  UNCHANGED subscription /\ now' \in {now, now + 1}
  BY <1>6 DEF PublishPlan, Stamp
<1>7. ASSUME NEW member, NEW sponsor, MoveMember(member, sponsor)
      PROVE  UNCHANGED subscription /\ now' \in {now, now + 1}
  BY <1>7 DEF MoveMember, AssignSponsor, Stamp
<1>8. CASE UNCHANGED commissionVars
  BY <1>1, <1>8 DEF commissionVars, referralVars
<1> QED BY <1>1, <1>2, <1>3, <1>4, <1>5, <1>6, <1>7, <1>8 DEF CommissionNext

-----------------------------------------------------------------------------
(* Plans.                                                                   *)

LEMMA PlanTyped ==
  ASSUME TreeInv, PlansApart, NEW p \in published
  PROVE  /\ p.plan \in Plans /\ p.from \in 0..MaxTime /\ p.to \in 0..(MaxTime + 1)
         /\ p = [plan |-> p.plan, from |-> p.from, to |-> p.to]
<1>1. p \in PlanRows
  BY DEF PlansApart
<1> QED BY <1>1, Clock DEF PlanRows, Forever

\* At any time one plan is in force at most.
LEMMA OneEffectivePlan ==
  ASSUME TreeInv, PlansApart, NEW at \in Nat,
         NEW p \in EffectivePlans(at), NEW q \in EffectivePlans(at)
  PROVE  p = q
<1>1. /\ p \in published /\ p.from <= at /\ at < p.to
      /\ q \in published /\ q.from <= at /\ at < q.to
  BY DEF EffectivePlans
<1>2. p.from \in Nat /\ p.to \in Nat /\ q.from \in Nat /\ q.to \in Nat
  BY <1>1, PlanTyped, Clock
<1>3. p = q \/ p.to <= q.from \/ q.to <= p.from
  BY <1>1 DEF PlansApart
<1> QED BY <1>1, <1>2, <1>3

\* The plan in force at a time that is past stays the same.
PastPlansKept ==
  \A at \in 0..now :
    /\ \A p \in EffectivePlans(at) : \E q \in published' :
         q.plan = p.plan /\ q.from <= at /\ at < q.to
    /\ \A q \in published' : q.from <= at /\ at < q.to =>
         \E p \in EffectivePlans(at) : q.plan = p.plan

LEMMA PublishKeepsPlans ==
  ASSUME TreeInv, PlansApart, NEW plan \in Plans, NEW from \in Times, NEW to \in 1..Forever,
         PublishPlan(plan, from, to)
  PROVE  PlansApart' /\ PastPlansKept
<1> DEFINE over == Overlaps(from, to)
           closed == {[p EXCEPT !.to = from] : p \in over}
           new == [plan |-> plan, from |-> from, to |-> to]
<1>1. /\ from > now /\ from < to /\ now' = now + 1
      /\ \A p \in over : over = {p} /\ p.to = Forever /\ p.from < from
      /\ published' = (published \ over) \union closed \union {new}
  BY DEF PublishPlan, Stamp
<1>2. /\ from \in 0..MaxTime /\ to \in 1..(MaxTime + 1) /\ MaxTime \in Nat /\ now \in Nat
      /\ now <= MaxTime /\ Forever = MaxTime + 1
  BY Clock DEF Forever
<1>3. over \subseteq published
  BY DEF Overlaps
<1>4. ASSUME NEW q \in published \ over
      PROVE  /\ q \in published /\ (q.to <= from \/ to <= q.from)
             /\ q.from \in Nat /\ q.to \in Nat /\ q.from <= MaxTime /\ q.from < q.to
  <2>1. q.from \in 0..MaxTime /\ q.to \in 0..(MaxTime + 1)
    BY PlanTyped
  <2>2. ~(q.to > from /\ q.from < to)
    BY DEF Overlaps
  <2>3. q.from < q.to
    BY DEF PlansApart
  <2> QED BY <1>2, <2>1, <2>2, <2>3
<1>5. ASSUME NEW q \in closed
      PROVE  \E p \in over : /\ q = [plan |-> p.plan, from |-> p.from, to |-> from]
                             /\ p.plan \in Plans /\ p.from \in 0..MaxTime
                             /\ p.to = Forever /\ p.from < from /\ over = {p}
  <2>1. PICK p \in over : q = [p EXCEPT !.to = from]
    OBVIOUS
  <2>2. /\ p \in published /\ p.plan \in Plans /\ p.from \in 0..MaxTime
        /\ p = [plan |-> p.plan, from |-> p.from, to |-> p.to]
    BY <1>3, PlanTyped
  <2>3. q = [plan |-> p.plan, from |-> p.from, to |-> from]
    BY <2>1, <2>2
  <2> QED BY <1>1, <2>2, <2>3
<1>6. new \in PlanRows /\ new.from = from /\ new.to = to /\ new.plan = plan
  BY <1>2 DEF PlanRows, Times
<1>7. ASSUME NEW p \in over
      PROVE  /\ [plan |-> p.plan, from |-> p.from, to |-> from] \in closed
             /\ p.from \in Nat /\ p.to = Forever /\ p.from < from
  <2>1. /\ p \in published /\ p.from \in 0..MaxTime
        /\ p = [plan |-> p.plan, from |-> p.from, to |-> p.to]
    BY <1>3, PlanTyped
  <2>2. [p EXCEPT !.to = from] = [plan |-> p.plan, from |-> p.from, to |-> from]
    BY <2>1
  <2>3. [p EXCEPT !.to = from] \in closed
    OBVIOUS
  <2> QED BY <1>1, <2>1, <2>2, <2>3
<1> HIDE DEF over, closed, new
<1>8. published' \subseteq PlanRows
  <2>1. ASSUME NEW q \in closed PROVE q \in PlanRows
    BY <1>2, <1>5, <2>1 DEF PlanRows, Times
  <2> QED BY <1>1, <1>6, <2>1 DEF PlansApart
<1>9. ASSUME NEW p \in published' PROVE p.from < p.to
  <2>1. CASE p \in closed
    BY <1>5, <2>1
  <2> QED BY <1>1, <1>4, <1>6, <2>1
<1>10. ASSUME NEW p \in published', NEW q \in published'
       PROVE  p = q \/ p.to <= q.from \/ q.to <= p.from
  <2>1. ASSUME NEW x \in published \ over, NEW y \in published \ over
        PROVE  x = y \/ x.to <= y.from \/ y.to <= x.from
    BY DEF PlansApart
  <2>2. ASSUME NEW x \in published \ over PROVE x.to <= new.from \/ new.to <= x.from
    BY <1>4, <1>6
  <2>3. ASSUME NEW x \in closed PROVE x.to <= new.from
    BY <1>2, <1>5, <1>6, <2>3
  <2>4. ASSUME NEW x \in closed, NEW y \in closed PROVE x = y
    <3>1. PICK u \in over : x = [plan |-> u.plan, from |-> u.from, to |-> from] /\ over = {u}
      BY <1>5, <2>4
    <3>2. PICK v \in over : y = [plan |-> v.plan, from |-> v.from, to |-> from]
      BY <1>5, <2>4
    <3> QED BY <3>1, <3>2
  <2>5. ASSUME NEW x \in published \ over, NEW y \in closed PROVE x.to <= y.from
    <3>1. PICK u \in over : /\ y = [plan |-> u.plan, from |-> u.from, to |-> from]
                            /\ u.from \in 0..MaxTime /\ u.to = Forever
      BY <1>5, <2>5
    <3>2. u \in published /\ x # u /\ x \in published
      BY <1>3
    <3>3. x.to <= u.from \/ u.to <= x.from
      BY <3>2 DEF PlansApart
    <3>4. x.to <= u.from
      BY <1>2, <1>4, <3>1, <3>3
    <3> QED BY <3>1, <3>4
  <2> QED BY <1>1, <2>1, <2>2, <2>3, <2>4, <2>5
<1>11. ASSUME NEW at \in 0..now
       PROVE  /\ \A p \in EffectivePlans(at) : \E q \in published' :
                   q.plan = p.plan /\ q.from <= at /\ at < q.to
              /\ \A q \in published' : q.from <= at /\ at < q.to =>
                   \E p \in EffectivePlans(at) : q.plan = p.plan
  <2>1. ASSUME NEW p \in EffectivePlans(at)
        PROVE  \E q \in published' : q.plan = p.plan /\ q.from <= at /\ at < q.to
    <3>1. p \in published /\ p.from <= at /\ at < p.to
      BY DEF EffectivePlans
    <3>2. CASE p \notin over
      BY <1>1, <3>1, <3>2
    <3>3. CASE p \in over
      <4> DEFINE q == [plan |-> p.plan, from |-> p.from, to |-> from]
      <4>1. q \in published'
        BY <1>1, <1>7, <3>3
      <4>2. q.plan = p.plan /\ q.from <= at /\ at < q.to
        BY <1>1, <1>2, <3>1
      <4> QED BY <4>1, <4>2
    <3> QED BY <3>2, <3>3
  <2>2. ASSUME NEW q \in published', q.from <= at, at < q.to
        PROVE  \E p \in EffectivePlans(at) : q.plan = p.plan
    <3>1. CASE q \in published \ over
      BY <2>2, <3>1 DEF EffectivePlans
    <3>2. CASE q = new
      BY <1>1, <1>2, <1>6, <2>2, <3>2
    <3>3. CASE q \in closed
      <4>1. PICK p \in over : /\ q = [plan |-> p.plan, from |-> p.from, to |-> from]
                              /\ p.to = Forever
        BY <1>5, <3>3
      <4>2. p \in published /\ p.from <= at /\ at < p.to /\ q.plan = p.plan
        BY <1>2, <1>3, <2>2, <4>1
      <4> QED BY <4>2 DEF EffectivePlans
    <3> QED BY <1>1, <3>1, <3>2, <3>3
  <2> QED BY <2>1, <2>2
<1> QED BY <1>8, <1>9, <1>10, <1>11 DEF PlansApart, PastPlansKept

LEMMA PlansAreKept ==
  ASSUME TreeInv, PlansApart, [CommissionNext]_commissionVars
  PROVE  PlansApart' /\ PastPlansKept
<1>1. CASE UNCHANGED published
  BY <1>1 DEF PlansApart, PastPlansKept, EffectivePlans
<1>2. ASSUME NEW s, ProcessSubscription(s) \/ EndTrading(s) \/ FinalizeCompletion(s)
      PROVE  UNCHANGED published
  BY <1>2 DEF ProcessSubscription, EndTrading, FinalizeCompletion
<1>3. ASSUME NEW u, NEW offer, ActivatePackage(u, offer)
      PROVE  UNCHANGED published
  BY <1>3 DEF ActivatePackage
<1>4. ASSUME NEW member, NEW sponsor, MoveMember(member, sponsor)
      PROVE  UNCHANGED published
  BY <1>4 DEF MoveMember
<1> QED BY <1>1, <1>2, <1>3, <1>4, PublishKeepsPlans DEF CommissionNext, commissionVars

\* The plan of a subscription, where there is one, is valid: its enabled
\* levels have a largest one.
LEMMA PlanIsValid ==
  ASSUME TreeInv, PlansApart, NEW s, EffectivePlans(subscription[s].activatedAt) # {}
  PROVE  /\ PlanOf(s) \in Plans /\ ValidPlan(PlanOf(s))
         /\ Max(EnabledLevels(PlanOf(s))) \in Nat
         /\ \A n \in EnabledLevels(PlanOf(s)) :
              n \in 1..Max(EnabledLevels(PlanOf(s))) /\ n \in DOMAIN PlanOf(s).levels
<1> DEFINE p == CHOOSE p \in EffectivePlans(subscription[s].activatedAt) : TRUE
<1>1. p \in published
  BY DEF EffectivePlans
<1>2. PlanOf(s) = p.plan
  BY DEF PlanOf
<1> HIDE DEF p
<1>3. PlanOf(s) \in Plans
  BY <1>1, <1>2, PlanTyped
<1> DEFINE plan == PlanOf(s)
<1>4. ValidPlan(plan)
  BY <1>3, CommissionsAssumption
<1> HIDE DEF plan
<1>5. /\ plan.levels \in Seq(LevelRules)
      /\ \E n \in DOMAIN plan.levels : plan.levels[n].enabled
  BY <1>4 DEF ValidPlan
<1> DEFINE top == Len(plan.levels)
           enabled == EnabledLevels(plan)
<1>6. top \in Nat /\ DOMAIN plan.levels = 1..top
  BY <1>5
<1>7. enabled # {} /\ enabled \subseteq 1..top /\ enabled \subseteq DOMAIN plan.levels
  BY <1>5, <1>6 DEF EnabledLevels
<1> HIDE DEF top, enabled
<1>8. IsFiniteSet(enabled)
  <2>1. IsFiniteSet(1..top)
    BY <1>6, FS_Interval
  <2> QED BY <1>7, <2>1, FS_Subset
<1>9. enabled \subseteq Int
  BY <1>6, <1>7
<1>10. Max(enabled) \in enabled /\ \A n \in enabled : n <= Max(enabled)
  BY <1>7, <1>8, <1>9, MaxOf
<1>11. Max(enabled) \in Nat /\ \A n \in enabled : n \in 1..Max(enabled)
  <2> DEFINE largest == Max(enabled)
  <2>1. largest \in enabled /\ \A n \in enabled : n <= largest
    BY <1>10
  <2> HIDE DEF largest
  <2>2. largest \in 1..top
    BY <1>7, <2>1
  <2>3. ASSUME NEW n \in enabled PROVE n \in 1..largest
    <3>1. n \in 1..top /\ n <= largest
      BY <1>7, <2>1
    <3> QED BY <1>6, <2>2, <3>1
  <2>4. largest \in Nat
    BY <1>6, <2>2
  <2> QED BY <2>3, <2>4 DEF largest
<1> QED BY <1>3, <1>4, <1>7, <1>11 DEF plan, enabled

-----------------------------------------------------------------------------
(* What a waiting subscription keeps.                                       *)

\* In the next state there is one route at most: a route is determined by
\* where it starts.
LEMMA OneRouteNext ==
  ASSUME NEW user, NEW at, NEW m \in Nat, NEW up, NEW low,
         IsRoute(up, user, at, m)', IsRoute(low, user, at, m)'
  PROVE  up = low
<1>1. /\ up = [n \in 0..m |-> IF n = 0 THEN user
                              ELSE IF up[n - 1] = Nobody THEN Nobody
                              ELSE ResolveSponsorAt(up[n - 1], at)']
      /\ low = [n \in 0..m |-> IF n = 0 THEN user
                               ELSE IF low[n - 1] = Nobody THEN Nobody
                               ELSE ResolveSponsorAt(low[n - 1], at)']
  BY DEF IsRoute
<1> DEFINE Bad == {n \in 0..m : up[n] # low[n]}
<1>2. SUFFICES ASSUME Bad # {} PROVE FALSE
  <2>1. \A n \in 0..m : up[n] = low[n]
    BY <1>2
  <2> QED BY <1>1, <2>1
<1>3. PICK k \in Bad : \A j \in 0..(k - 1) : j \notin Bad
  <2> HIDE DEF Bad
  <2>1. Bad \in SUBSET (0..m)
    BY DEF Bad
  <2> QED BY <1>2, <2>1, SmallestNumber
<1>4. k \in 0..m /\ up[k] # low[k]
  OBVIOUS
<1>5. CASE k = 0
  BY <1>1, <1>4, <1>5
<1>6. CASE k # 0
  <2>1. k - 1 \in 0..(k - 1) /\ k - 1 \in 0..m
    BY <1>4, <1>6
  <2>2. up[k - 1] = low[k - 1]
    BY <1>3, <2>1
  <2> QED BY <1>1, <1>4, <1>6, <2>2
<1> QED BY <1>5, <1>6

\* Where the start, the time and the height of a route stay, so does the route.
LEMMA RouteKept ==
  ASSUME TreeInv, TreeInv', HistoryGrows, NEW s,
         NEW user \in Users, NEW at \in 0..now, NEW m \in Nat,
         subscription[s].user = user, subscription[s].activatedAt = at,
         Max(EnabledLevels(PlanOf(s))) = m,
         subscription'[s].user = user, subscription'[s].activatedAt = at,
         Max(EnabledLevels(PlanOf(s)))' = m
  PROVE  RouteOf(s)' = RouteOf(s)
<1>1. RouteOf(s) = SponsorRoute(user, at, m)
  BY DEF RouteOf
<1>2. RouteOf(s)' = SponsorRoute(user, at, m)'
  BY DEF RouteOf
<1> DEFINE up == SponsorRoute(user, at, m)
<1>3. IsRoute(up, user, at, m)
  <2>1. \E r : IsRoute(r, user, at, m)
    BY RouteExists
  <2> QED BY <2>1, RouteIs
<1> HIDE DEF up
<1>4. PICK r : r = up
  OBVIOUS
<1>5. GoesUp(r, user, at, m) /\ IsRoute(r, user, at, m)
  BY <1>3, <1>4, RouteValues
<1>6. IsRoute(r, user, at, m)'
  <2>1. ASSUME NEW n \in 0..m, n # 0, r[n - 1] # Nobody
        PROVE  ResolveSponsorAt(r[n - 1], at)' = ResolveSponsorAt(r[n - 1], at)
    <3>1. r[n - 1] \in Users
      <4>1. n - 1 \in 0..m
        BY <2>1
      <4> QED BY <1>5, <2>1, <4>1 DEF GoesUp, Sponsors
    <3> QED BY <3>1, GrowthKeepsPast
  <2>2. r = [n \in 0..m |-> IF n = 0 THEN user
                            ELSE IF r[n - 1] = Nobody THEN Nobody
                            ELSE ResolveSponsorAt(r[n - 1], at)]
    BY <1>5 DEF IsRoute
  <2>3. r = [n \in 0..m |-> IF n = 0 THEN user
                            ELSE IF r[n - 1] = Nobody THEN Nobody
                            ELSE ResolveSponsorAt(r[n - 1], at)']
    BY <2>1, <2>2
  <2> QED BY <2>3 DEF IsRoute
<1>7. SponsorRoute(user, at, m)' = r
  <2>1. SponsorRoute(user, at, m)' = CHOOSE q : IsRoute(q, user, at, m)'
    BY DEF SponsorRoute, IsRoute
  <2>2. PICK q : q = SponsorRoute(user, at, m)'
    OBVIOUS
  <2>3. IsRoute(q, user, at, m)'
    BY <1>6, <2>1, <2>2
  <2>4. q = r
    BY <1>6, <2>3, OneRouteNext
  <2> QED BY <2>2, <2>4
<1> QED BY <1>1, <1>2, <1>4, <1>7 DEF up

\* A waiting subscription keeps plan, trigger and receivers.
TermsKept(s) ==
  /\ EffectivePlans(subscription[s].activatedAt)' = {} <=>
       EffectivePlans(subscription[s].activatedAt) = {}
  /\ EffectivePlans(subscription[s].activatedAt) # {} =>
       /\ PlanOf(s)' = PlanOf(s)
       /\ TriggerEnabled(s)' = TriggerEnabled(s)
       /\ RouteOf(s)' = RouteOf(s)

LEMMA StepKeepsTerms ==
  ASSUME CommissionInv, [CommissionNext]_commissionVars, NEW s \in DOMAIN subscription
  PROVE  TermsKept(s)
<1>1. TreeKept /\ SubscriptionsPast /\ PlansApart /\ TreeInv
  BY DEF CommissionInv, TreeKept
<1>2. TreeInv' /\ HistoryGrows
  BY <1>1, TreeIsKept DEF TreeKept
<1>3. RowsKept
  BY <1>1, SubscriptionsAreKept
<1>4. PlansApart' /\ PastPlansKept
  BY <1>1, PlansAreKept
<1>5. now \in Nat
  BY <1>1, Clock
<1>6. PICK at \in 0..now, user \in Users :
        /\ subscription[s].activatedAt = at /\ subscription'[s].activatedAt = at
        /\ subscription[s].user = user /\ subscription'[s].user = user
  <2>1. subscription[s].activatedAt \in 0..now /\ subscription[s].user \in Users
    BY <1>1, SubscriptionTyped
  <2> QED BY <1>3, <2>1 DEF RowsKept
<1> DEFINE before == EffectivePlans(at)
           after == {q \in published' : q.from <= at /\ at < q.to}
<1>7. /\ EffectivePlans(subscription[s].activatedAt) = before
      /\ EffectivePlans(subscription[s].activatedAt)' = after
  BY <1>6 DEF EffectivePlans
<1>8. /\ \A p \in before : \E q \in after : q.plan = p.plan
      /\ \A q \in after : \E p \in before : q.plan = p.plan
  BY <1>4 DEF PastPlansKept
<1>9. \A p, q \in before : p = q
  BY <1>1, <1>5, OneEffectivePlan
<1>10. /\ PlanOf(s) = (CHOOSE p \in before : TRUE).plan
       /\ PlanOf(s)' = (CHOOSE p \in after : TRUE).plan
  BY <1>7 DEF PlanOf
<1>11. ASSUME NEW r \in DOMAIN subscription'
       PROVE  \/ /\ r \in DOMAIN subscription
                 /\ subscription'[r].user = subscription[r].user
                 /\ subscription'[r].activatedAt = subscription[r].activatedAt
              \/ subscription'[r].activatedAt >= at
  BY <1>3, <1>5 DEF RowsKept
<1>12. FirstPurchase(s)' <=> FirstPurchase(s)
  <2>1. FirstPurchase(s) <=> \A r \in DOMAIN subscription :
          subscription[r].user = user => subscription[r].activatedAt >= at
    BY <1>6 DEF FirstPurchase
  <2>2. FirstPurchase(s)' <=> \A r \in DOMAIN subscription' :
          subscription'[r].user = user => subscription'[r].activatedAt >= at
    BY <1>6 DEF FirstPurchase
  <2>3. \A r \in DOMAIN subscription :
          /\ r \in DOMAIN subscription' /\ subscription'[r].user = subscription[r].user
          /\ subscription'[r].activatedAt = subscription[r].activatedAt
    BY <1>3 DEF RowsKept
  <2> QED BY <1>11, <2>1, <2>2, <2>3
<1>13. ASSUME before # {}
       PROVE  /\ PlanOf(s)' = PlanOf(s)
              /\ TriggerEnabled(s)' = TriggerEnabled(s)
              /\ RouteOf(s)' = RouteOf(s)
  <2>1. PlanOf(s)' = PlanOf(s)
    <3> HIDE DEF before, after
    <3> DEFINE b == CHOOSE p \in before : TRUE
               a == CHOOSE q \in after : TRUE
    <3>1. b \in before /\ a \in after
      BY <1>8, <1>13
    <3> HIDE DEF a, b
    <3>2. a.plan = b.plan
      BY <1>8, <1>9, <3>1
    <3> QED BY <1>10, <3>2 DEF a, b
  <2>2. TriggerEnabled(s)' = TriggerEnabled(s)
    <3>1. CASE FirstPurchase(s)
      BY <1>12, <2>1, <3>1 DEF TriggerEnabled
    <3>2. CASE ~FirstPurchase(s)
      BY <1>12, <2>1, <3>2 DEF TriggerEnabled
    <3> QED BY <3>1, <3>2
  <2>3. PICK m \in Nat : m = Max(EnabledLevels(PlanOf(s)))
    BY <1>1, <1>7, <1>13, PlanIsValid
  <2>4. Max(EnabledLevels(PlanOf(s)))' = m
    BY <2>1, <2>3 DEF EnabledLevels
  <2>5. RouteOf(s)' = RouteOf(s)
    BY <1>1, <1>2, <1>6, <2>3, <2>4, RouteKept
  <2> QED BY <2>1, <2>2, <2>5
<1>14. after = {} <=> before = {}
  BY <1>8
<1> QED BY <1>7, <1>13, <1>14 DEF TermsKept

-----------------------------------------------------------------------------
(* What a run computes.                                                     *)

LEMMA PricesTyped ==
  ASSUME SubscriptionsPast, NEW s \in DOMAIN subscription
  PROVE  Price(s) \in Nat
<1>1. subscription[s].offer \in Offers
  BY SubscriptionTyped DEF SubscriptionRows
<1>2. Offers \subseteq OfferRows
  BY CommissionsAssumption
<1>3. subscription[s].offer.price \in Nat
  BY <1>1, <1>2 DEF OfferRows
<1> QED BY <1>3 DEF Price

LEMMA BasisTyped ==
  ASSUME SubscriptionsPast, NEW user, NEW at
  PROVE  ReceiverPackageBasis(user, at) \in Nat
<1> DEFINE held == HeldPackages(user, at)
           price == [s \in held |-> Price(s)]
           prices == {price[s] : s \in held}
<1>1. held \subseteq DOMAIN subscription
  BY DEF HeldPackages
<1>2. Len(subscription) \in Nat /\ DOMAIN subscription = 1..Len(subscription)
  BY SubscriptionTyped
<1>3. IsFiniteSet(held)
  <2>1. IsFiniteSet(1..Len(subscription))
    BY <1>2, FS_Interval
  <2> HIDE DEF held
  <2> QED BY <1>1, <1>2, <2>1, FS_Subset
<1> HIDE DEF held
<1>4. CASE held = {}
  BY <1>4 DEF ReceiverPackageBasis, held
<1>5. CASE held # {}
  <2>1. held \subseteq Int
    BY <1>1, <1>2
  <2>2. Max(held) \in held
    BY <1>3, <1>5, <2>1, MaxOf
  <2>3. Price(Max(held)) \in Nat
    BY <1>1, <2>2, PricesTyped
  <2>4. prices = {Price(s) : s \in held}
    OBVIOUS
  <2>5. \A s \in held : price[s] \in Nat
    BY <1>1, PricesTyped
  <2>6. DOMAIN price = held /\ price = [s \in held |-> price[s]]
    OBVIOUS
  <2> HIDE DEF price
  <2>7. IsFiniteSet(prices)
    BY <1>3, <2>6, ImageFinite
  <2>8. prices # {} /\ prices \subseteq Int /\ prices \subseteq Nat
    BY <1>5, <2>5
  <2> HIDE DEF prices
  <2>9. Max(prices) \in prices
    BY <2>7, <2>8, MaxOf
  <2>10. Max({Price(s) : s \in held}) \in Nat
    BY <2>4, <2>8, <2>9
  <2> QED BY <1>5, <2>3, <2>10 DEF ReceiverPackageBasis, held
<1> QED BY <1>4, <1>5

LEMMA EventTyped ==
  ASSUME SubscriptionsPast, NEW s \in DOMAIN subscription, NEW plan, ValidPlan(plan),
         NEW n \in DOMAIN plan.levels, NEW receiver \in Users
  PROVE  /\ CommissionEvent(s, plan, n, receiver) \in EventRows
         /\ CommissionEvent(s, plan, n, receiver).receiver = receiver
<1> DEFINE at == subscription[s].activatedAt
           rule == plan.levels[n]
           basis == ReceiverPackageBasis(receiver, at)
           eligible == IF rule.matching THEN Min({basis, Price(s)}) ELSE Price(s)
           amount == (eligible * rule.rate + 50) \div 100
           outcome == IF plan.activePackageRequired /\ basis = 0 THEN "NO_ACTIVE_PACKAGE"
                      ELSE IF DOMAIN plan.depth # {} /\ n > ReceiverMaxDepth(receiver, at, plan)
                      THEN "PACKAGE_LEVEL_NOT_UNLOCKED"
                      ELSE IF amount = 0 THEN "ZERO_ELIGIBLE_BASE"
                      ELSE "AVAILABLE"
<1>1. CommissionEvent(s, plan, n, receiver) =
        [level |-> n, receiver |-> receiver, outcome |-> outcome,
         amount |-> IF outcome = "AVAILABLE" THEN amount ELSE 0]
  BY DEF CommissionEvent
<1>2. plan.levels \in Seq(LevelRules)
  BY DEF ValidPlan
<1>3. n \in Nat /\ rule \in LevelRules
  BY <1>2, ElementOfSeq
<1>4. rule.rate \in Nat
  BY <1>3 DEF LevelRules
<1>5. basis \in Nat /\ Price(s) \in Nat
  BY BasisTyped, PricesTyped
<1> HIDE DEF rule, basis
<1>6. Min({basis, Price(s)}) \in Nat
  <2> DEFINE price == Price(s)
  <2> HIDE DEF price
  <2>1. \E x \in {basis, price} : \A y \in {basis, price} : x =< y
    <3>1. price \in Nat
      BY <1>5 DEF price
    <3>2. CASE basis <= price
      BY <1>5, <3>1, <3>2
    <3>3. CASE price <= basis
      BY <1>5, <3>1, <3>3
    <3> QED BY <1>5, <3>1, <3>2, <3>3
  <2>2. Min({basis, price}) \in {basis, price}
    BY <2>1 DEF Min
  <2> QED BY <1>5, <2>2 DEF price
<1>7. eligible \in Nat
  BY <1>5, <1>6
<1> HIDE DEF eligible
<1>8. amount \in Nat
  <2>1. eligible * rule.rate \in Nat
    BY <1>4, <1>7, Z3
  <2> QED BY <2>1
<1> HIDE DEF amount
<1>9. outcome \in {"NO_ACTIVE_PACKAGE", "PACKAGE_LEVEL_NOT_UNLOCKED",
                   "ZERO_ELIGIBLE_BASE", "AVAILABLE"}
  OBVIOUS
<1> HIDE DEF outcome
<1> QED BY <1>1, <1>3, <1>8, <1>9 DEF EventRows

\* A run that is not refused: its events are finitely many, and nobody
\* receives two of them, the purchaser none.
PaysEachOnce(s, events) ==
  \A e \in events : /\ e.receiver # subscription[s].user
                    /\ \A f \in events : f.receiver = e.receiver => f = e

LEMMA ResultTyped ==
  ASSUME CommissionInv, NEW s \in DOMAIN subscription, ~RunRefused(s)
  PROVE  /\ RunResult(s) \in RunRows /\ RunResult(s).outcome # "NONE"
         /\ IsFiniteSet(RunResult(s).events)
         /\ PaysEachOnce(s, RunResult(s).events)
<1>1. TreeInv /\ SubscriptionsPast /\ PlansApart
  BY DEF CommissionInv, TreeKept
<1> DEFINE result == RunResult(s)
           plan == PlanOf(s)
           up == RouteOf(s)
           user == subscription[s].user
           event == [n \in PaidLevels(s) |-> CommissionEvent(s, plan, n, up[n])]
           events == {event[n] : n \in PaidLevels(s)}
<1>2. ASSUME NEW outcome \in {"NO_EFFECTIVE_PLAN", "NO_SPONSOR", "PROCESSED"},
             result = [outcome |-> outcome, events |-> {}]
      PROVE  /\ result \in RunRows /\ result.outcome # "NONE"
             /\ IsFiniteSet(result.events) /\ PaysEachOnce(s, result.events)
  <2> HIDE DEF result
  <2>1. result.outcome = outcome /\ result.events = {}
    BY <1>2
  <2> QED BY <1>2, <2>1, FS_EmptySet DEF RunRows, PaysEachOnce
<1>3. CASE EffectivePlans(subscription[s].activatedAt) = {}
  <2>1. result = [outcome |-> "NO_EFFECTIVE_PLAN", events |-> {}]
    BY <1>3 DEF RunResult
  <2> QED BY <1>2, <2>1
<1>4. CASE EffectivePlans(subscription[s].activatedAt) # {}
  <2>1. CASE ~TriggerEnabled(s)
    <3>1. result = [outcome |-> "PROCESSED", events |-> {}]
      BY <1>4, <2>1 DEF RunResult
    <3> QED BY <1>2, <3>1
  <2>2. CASE TriggerEnabled(s) /\ up[1] = Nobody
    <3>1. result = [outcome |-> "NO_SPONSOR", events |-> {}]
      BY <1>4, <2>2 DEF RunResult
    <3> QED BY <1>2, <3>1
  <2>3. CASE TriggerEnabled(s) /\ up[1] # Nobody
    <3>1. /\ ValidPlan(plan) /\ Max(EnabledLevels(plan)) \in Nat
          /\ \A n \in EnabledLevels(plan) :
               n \in 1..Max(EnabledLevels(plan)) /\ n \in DOMAIN plan.levels
      BY <1>1, <1>4, PlanIsValid
    <3>2. PICK m \in Nat : m = Max(EnabledLevels(plan))
      BY <3>1
    <3>3. PICK at \in 0..now : at = subscription[s].activatedAt
      BY <1>1, SubscriptionTyped
    <3>4. user \in Users
      BY <1>1, SubscriptionTyped
    <3>5. up = SponsorRoute(user, at, m)
      BY <3>2, <3>3 DEF RouteOf
    <3> HIDE DEF plan, user
    <3>6. IsRoute(up, user, at, m)
      <4>1. \E r : IsRoute(r, user, at, m)
        BY RouteExists
      <4> QED BY <3>5, <4>1, RouteIs
    <3> HIDE DEF up
    <3>7. GoesUp(up, user, at, m)
      BY <1>1, <3>4, <3>6, RouteValues
    <3>8. ~RouteMeetsItself(up)
      BY <1>4, <2>3 DEF RunRefused, up
    <3>9. PaidLevels(s) = {n \in EnabledLevels(plan) : up[n] # Nobody}
      BY DEF PaidLevels, plan, up
    <3>10. ASSUME NEW n \in PaidLevels(s)
           PROVE  /\ n \in 1..m /\ n \in DOMAIN plan.levels /\ up[n] \in Users
                  /\ n \in 0..m /\ n > 0
      <4>1. n \in 1..m /\ n \in DOMAIN plan.levels /\ up[n] # Nobody
        BY <3>1, <3>2, <3>9
      <4>2. n \in 0..m /\ n > 0
        BY <4>1
      <4>3. up[n] \in Sponsors
        BY <3>7, <4>2 DEF GoesUp
      <4> QED BY <4>1, <4>2, <4>3 DEF Sponsors
    <3>11. ASSUME NEW n \in PaidLevels(s)
           PROVE  event[n] \in EventRows /\ event[n].receiver = up[n]
      <4>1. event[n] = CommissionEvent(s, plan, n, up[n])
        OBVIOUS
      <4> QED BY <1>1, <3>1, <3>10, <4>1, EventTyped
    <3>12. result = [outcome |-> "PROCESSED", events |-> events]
      <4>1. events = {CommissionEvent(s, PlanOf(s), n, RouteOf(s)[n]) : n \in PaidLevels(s)}
        BY DEF plan, up
      <4> QED BY <1>4, <2>3, <4>1 DEF RunResult, up
    <3>13. DOMAIN event = PaidLevels(s) /\ event = [n \in PaidLevels(s) |-> event[n]]
      OBVIOUS
    <3> HIDE DEF event, result
    <3>14. IsFiniteSet(PaidLevels(s))
      <4>1. IsFiniteSet(1..m)
        BY FS_Interval
      <4>2. PaidLevels(s) \subseteq 1..m
        BY <3>10
      <4> QED BY <4>1, <4>2, FS_Subset
    <3>15. IsFiniteSet(events)
      BY <3>13, <3>14, ImageFinite
    <3>16. events \subseteq EventRows
      BY <3>11
    <3>17. PaysEachOnce(s, events)
      <4> SUFFICES ASSUME NEW n \in PaidLevels(s)
                   PROVE  /\ event[n].receiver # user
                          /\ \A k \in PaidLevels(s) :
                               event[k].receiver = event[n].receiver => event[k] = event[n]
        BY DEF PaysEachOnce, user
      <4>1. DOMAIN up = 0..m /\ up[0] = user
        BY <3>7 DEF GoesUp
      <4>2. \A i, j \in 0..m : i < j /\ up[i] # Nobody => up[i] # up[j]
        BY <3>8, <4>1 DEF RouteMeetsItself
      <4>3. user # Nobody
        BY <3>4, ReferralsAssumption
      <4>4. event[n].receiver # user
        <5>1. n \in 0..m /\ n > 0 /\ 0 \in 0..m
          BY <3>10
        <5> QED BY <3>11, <4>1, <4>2, <4>3, <5>1
      <4>5. ASSUME NEW k \in PaidLevels(s), event[k].receiver = event[n].receiver
            PROVE  event[k] = event[n]
        <5>1. up[k] = up[n] /\ up[k] # Nobody /\ k \in 0..m /\ n \in 0..m
          BY <3>10, <3>11, <4>5, ReferralsAssumption
        <5>2. k = n
          <6>1. ~(k < n) /\ ~(n < k)
            BY <4>2, <5>1
          <6> QED BY <5>1, <6>1
        <5> QED BY <5>2
      <4> QED BY <4>4, <4>5
    <3> HIDE DEF events
    <3>18. result.outcome = "PROCESSED" /\ result.events = events
      BY <3>12
    <3>19. result \in RunRows
      BY <3>12, <3>16 DEF RunRows
    <3> QED BY <3>15, <3>17, <3>18, <3>19 DEF result
  <2> QED BY <2>1, <2>2, <2>3
<1> QED BY <1>3, <1>4

-----------------------------------------------------------------------------
(* Runs and balances.                                                       *)

LEMMA AmountsTyped ==
  ASSUME NEW u, NEW events, IsFiniteSet(events), events \subseteq EventRows
  PROVE  AmountsFor(u, events) \in Nat
<1> DEFINE mine == {x \in events : x.receiver = u}
           amount == [e \in mine |-> e.amount]
<1>1. IsFiniteSet(mine)
  BY FS_Subset
<1>2. amount \in [mine -> Nat]
  BY DEF EventRows
<1>3. AmountsFor(u, events) = SumFunction(amount)
  BY DEF AmountsFor
<1> HIDE DEF mine, amount
<1> QED BY <1>1, <1>2, <1>3, TotalNat

LEMMA NoAmounts ==
  ASSUME NEW u
  PROVE  AmountsFor(u, {}) = 0
<1> DEFINE none == [e \in {x \in {} : x.receiver = u} |-> e.amount]
<1>1. none = [e \in {} |-> 0]
  OBVIOUS
<1>2. AmountsFor(u, {}) = SumFunction(none)
  BY DEF AmountsFor
<1> HIDE DEF none
<1>3. IsFiniteSet({})
  BY FS_EmptySet
<1> QED BY <1>1, <1>2, <1>3, TotalZero

\* A run that is made for the first time.
LEMMA ProcessKeepsRuns ==
  ASSUME CommissionInv, NEW s \in Subscriptions, ProcessSubscription(s)
  PROVE  RunsTyped' /\ OneEventPerReceiver' /\ CreditedOnce'
<1>1. /\ SubscriptionsPast /\ RunsTyped /\ OneEventPerReceiver /\ CreditedOnce
  BY DEF CommissionInv
<1> DEFINE result == RunResult(s)
<1>2. /\ s \in DOMAIN subscription /\ ~HasRun(s) /\ ~RunRefused(s)
      /\ run' = [run EXCEPT ![s] = result]
      /\ commission' = [u \in Users |-> commission[u] + AmountsFor(u, result.events)]
      /\ UNCHANGED subscription
  BY DEF ProcessSubscription
<1>3. /\ result \in RunRows /\ result.outcome # "NONE"
      /\ IsFiniteSet(result.events) /\ PaysEachOnce(s, result.events)
  BY <1>2, ResultTyped
<1> HIDE DEF result
<1>4. run \in [Subscriptions -> RunRows] /\ commission \in [Users -> Nat]
  BY <1>1 DEF RunsTyped
<1>5. /\ run' \in [Subscriptions -> RunRows] /\ run'[s] = result
      /\ \A t \in Subscriptions : t # s => run'[t] = run[t]
  BY <1>2, <1>3, <1>4
<1>6. result.events \subseteq EventRows
  BY <1>3 DEF RunRows
<1>7. \A u : AmountsFor(u, result.events) \in Nat
  BY <1>3, <1>6, AmountsTyped
<1>8. RunsTyped'
  <2>1. commission' \in [Users -> Nat]
    <3>1. \A u \in Users : commission[u] + AmountsFor(u, result.events) \in Nat
      BY <1>4, <1>7
    <3> QED BY <1>2, <3>1
  <2>2. ASSUME NEW t \in Subscriptions
        PROVE  /\ IsFiniteSet(run'[t].events)
               /\ HasRun(t)' => t \in DOMAIN subscription
               /\ ~HasRun(t)' => run'[t].events = {}
    <3>1. CASE t = s
      BY <1>2, <1>3, <1>5, <3>1 DEF HasRun
    <3>2. CASE t # s
      <4>1. run'[t] = run[t]
        BY <1>5, <3>2
      <4> QED BY <1>1, <4>1 DEF RunsTyped, HasRun
    <3> QED BY <3>1, <3>2
  <2> QED BY <1>2, <1>5, <2>1, <2>2 DEF RunsTyped
<1>9. OneEventPerReceiver'
  <2>1. ASSUME NEW t \in Subscriptions, NEW e \in run'[t].events
        PROVE  /\ e.receiver # subscription[t].user
               /\ \A f \in run'[t].events : f.receiver = e.receiver => f = e
    <3>1. CASE t = s
      BY <1>3, <1>5, <2>1, <3>1 DEF PaysEachOnce
    <3>2. CASE t # s
      <4>1. run'[t] = run[t]
        BY <1>5, <3>2
      <4> QED BY <1>1, <2>1, <4>1 DEF OneEventPerReceiver
    <3> QED BY <3>1, <3>2
  <2> QED BY <1>2, <2>1 DEF OneEventPerReceiver
<1>10. CreditedOnce'
  <2> SUFFICES ASSUME NEW u \in Users
               PROVE  commission'[u] =
                        SumFunction([t \in Subscriptions |-> AmountsFor(u, run'[t].events)])
    BY DEF CreditedOnce, AmountsFor
  <2> DEFINE was == [t \in Subscriptions |-> AmountsFor(u, run[t].events)]
             is == [t \in Subscriptions |-> AmountsFor(u, run'[t].events)]
  <2>1. IsFiniteSet(Subscriptions)
    BY CommissionsAssumption, FS_Interval DEF Subscriptions
  <2>2. ASSUME NEW t \in Subscriptions
        PROVE  was[t] \in Nat /\ is[t] \in Nat
    <3>1. IsFiniteSet(run[t].events) /\ run[t].events \subseteq EventRows
      BY <1>1 DEF RunsTyped, RunRows
    <3>2. IsFiniteSet(run'[t].events) /\ run'[t].events \subseteq EventRows
      BY <1>3, <1>5, <1>6, <3>1
    <3> QED BY <3>1, <3>2, AmountsTyped
  <2>3. \A t \in Subscriptions \ {s} : is[t] = was[t]
    BY <1>5
  <2>4. was[s] = 0
    <3>1. run[s].events = {}
      BY <1>1, <1>2 DEF RunsTyped
    <3> QED BY <3>1, NoAmounts
  <2>5. is[s] = AmountsFor(u, result.events)
    BY <1>5
  <2>6. was \in [Subscriptions -> Int] /\ is \in [Subscriptions -> Int]
    BY <2>2
  <2>7. commission[u] = SumFunction(was)
    BY <1>1 DEF CreditedOnce
  <2> HIDE DEF was, is
  <2>8. SumFunction(is) = SumFunction(was) + is[s] - was[s]
    BY <2>1, <2>3, <2>6, TotalChange
  <2>9. commission'[u] = commission[u] + AmountsFor(u, result.events)
    BY <1>2
  <2>10. commission[u] \in Nat /\ AmountsFor(u, result.events) \in Nat
    BY <1>4, <1>7
  <2>11. commission'[u] = SumFunction(is)
    BY <2>4, <2>5, <2>7, <2>8, <2>9, <2>10
  <2> QED BY <2>11 DEF is
<1> QED BY <1>8, <1>9, <1>10

\* No other step touches a run or a balance.
LEMMA RunsLeftAlone ==
  ASSUME RunsTyped, OneEventPerReceiver, CreditedOnce, RowsKept,
         UNCHANGED <<run, commission>>
  PROVE  RunsTyped' /\ OneEventPerReceiver' /\ CreditedOnce'
<1>1. RunsTyped'
  BY DEF RunsTyped, RowsKept, HasRun
<1>2. CreditedOnce'
  BY DEF CreditedOnce, AmountsFor
<1>3. OneEventPerReceiver'
  <2> SUFFICES ASSUME NEW s \in Subscriptions, NEW e \in run[s].events
               PROVE  /\ e.receiver # subscription'[s].user
                      /\ \A f \in run[s].events : f.receiver = e.receiver => f = e
    BY DEF OneEventPerReceiver
  <2>1. s \in DOMAIN subscription
    BY DEF RunsTyped
  <2>2. subscription'[s].user = subscription[s].user
    BY <2>1 DEF RowsKept
  <2> QED BY <2>2 DEF OneEventPerReceiver
<1> QED BY <1>1, <1>2, <1>3

-----------------------------------------------------------------------------
(* The invariant.                                                           *)

LEMMA InitCommissions == CommissionInit => CommissionInv
<1> SUFFICES ASSUME CommissionInit PROVE CommissionInv
  OBVIOUS
<1>1. TreeKept
  BY InitTree, FirstTree DEF TreeKept
<1>2. /\ subscription = <<>> /\ published = {}
      /\ run = [s \in Subscriptions |-> NoRun] /\ commission = [u \in Users |-> 0]
  BY DEF CommissionInit
<1>3. SubscriptionsPast
  BY <1>2, CommissionsAssumption DEF SubscriptionsPast
<1>4. PlansApart
  BY <1>2 DEF PlansApart
<1>5. NoRun \in RunRows /\ NoRun.events = {} /\ NoRun.outcome = "NONE"
  BY DEF NoRun, RunRows
<1>6. RunsTyped /\ OneEventPerReceiver
  BY <1>2, <1>5, FS_EmptySet DEF RunsTyped, HasRun, OneEventPerReceiver
<1>7. CreditedOnce
  <2> SUFFICES ASSUME NEW u \in Users
               PROVE  SumFunction([s \in Subscriptions |-> AmountsFor(u, run[s].events)]) = 0
    BY <1>2 DEF CreditedOnce
  <2> DEFINE f == [s \in Subscriptions |-> AmountsFor(u, run[s].events)]
  <2>1. \A s \in Subscriptions : AmountsFor(u, run[s].events) = 0
    BY <1>2, <1>5, NoAmounts
  <2>2. f = [s \in Subscriptions |-> 0]
    BY <2>1
  <2>3. IsFiniteSet(Subscriptions)
    BY CommissionsAssumption, FS_Interval DEF Subscriptions
  <2> HIDE DEF f
  <2>4. SumFunction(f) = 0
    BY <2>2, <2>3, TotalZero
  <2> QED BY <2>4 DEF f
<1> QED BY <1>1, <1>3, <1>4, <1>6, <1>7 DEF CommissionInv

LEMMA NextCommissions == CommissionInv /\ [CommissionNext]_commissionVars => CommissionInv'
<1> SUFFICES ASSUME CommissionInv, [CommissionNext]_commissionVars
             PROVE  CommissionInv'
  OBVIOUS
<1>1. /\ TreeKept /\ TreeInv /\ SubscriptionsPast /\ PlansApart /\ RunsTyped
      /\ OneEventPerReceiver /\ CreditedOnce
  BY DEF CommissionInv, TreeKept
<1>2. TreeKept'
  BY <1>1, TreeIsKept
<1>3. SubscriptionsPast' /\ RowsKept
  BY <1>1, SubscriptionsAreKept
<1>4. PlansApart'
  BY <1>1, PlansAreKept
<1>5. ASSUME UNCHANGED <<run, commission>>
      PROVE  RunsTyped' /\ OneEventPerReceiver' /\ CreditedOnce'
  BY <1>1, <1>3, <1>5, RunsLeftAlone
<1>6. \/ \E s \in Subscriptions : ProcessSubscription(s)
      \/ UNCHANGED <<run, commission>>
  BY DEF CommissionNext, commissionVars, EndTrading, FinalizeCompletion, PublishPlan,
         ActivatePackage, MoveMember
<1>7. RunsTyped' /\ OneEventPerReceiver' /\ CreditedOnce'
  BY <1>5, <1>6, ProcessKeepsRuns
<1> QED BY <1>2, <1>3, <1>4, <1>7 DEF CommissionInv

LEMMA CommissionsAreKept == CommissionSpec => []CommissionInv
BY InitCommissions, NextCommissions, PTL DEF CommissionSpec

-----------------------------------------------------------------------------
(* The results.                                                             *)

\* Type correctness of the commission tables (processSubscription,
\* publishPlan, activateFromApprovedDeposit, finalizeCompletion).
THEOREM CommissionsTyped == CommissionSpec => []CommissionTypeOK
<1>1. CommissionInv => CommissionTypeOK
  BY DEF CommissionInv, TreeKept, TreeInv, SubscriptionsPast, PlansApart, RunsTyped,
         CommissionTypeOK
<1> QED BY <1>1, CommissionsAreKept, PTL

\* However often a subscription is processed, and whoever is paid by several
\* of them, a balance is the sum of what the runs say (postImmediateCommission
\* behind findRun).
THEOREM CommissionsCreditedOnce == CommissionSpec => []CreditedOnce
<1>1. CommissionInv => CreditedOnce
  BY DEF CommissionInv
<1> QED BY <1>1, CommissionsAreKept, PTL

\* One purchase never pays a member twice, and never the purchaser
\* (resolveSponsorRoute's seen set).
THEOREM CommissionsPayEachOnce == CommissionSpec => []OneEventPerReceiver
<1>1. CommissionInv => OneEventPerReceiver
  BY DEF CommissionInv
<1> QED BY <1>1, CommissionsAreKept, PTL

\* A subscription that waits to be reconciled keeps the plan, the trigger and
\* the receivers of its activation (processSubscription reads all of them as
\* of activatedAt).
THEOREM WaitingKeepsItsTerms == CommissionSpec => PendingKeepsItsTerms
<1>1. CommissionInv /\ [CommissionNext]_commissionVars =>
        [\A s \in DOMAIN subscription : ~HasRun(s) => TermsKept(s)]_commissionVars
  BY StepKeepsTerms
<1>2. CommissionInv /\ [CommissionNext]_commissionVars =>
        [\A s \in DOMAIN subscription : ~HasRun(s) =>
           /\ EffectivePlans(subscription[s].activatedAt)' = {} <=>
                EffectivePlans(subscription[s].activatedAt) = {}
           /\ EffectivePlans(subscription[s].activatedAt) # {} =>
                /\ PlanOf(s)' = PlanOf(s)
                /\ TriggerEnabled(s)' = TriggerEnabled(s)
                /\ RouteOf(s)' = RouteOf(s)]_commissionVars
  BY <1>1 DEF TermsKept
<1> QED BY <1>2, CommissionsAreKept, PTL DEF CommissionSpec, PendingKeepsItsTerms

\* The cyclic route that processing refuses does not occur: whenever a run is
\* made, at once or much later, the purchaser's sponsors at the activation
\* form a straight line (resolveSponsorRoute on the history that
\* assertNoCycle guards).
NoRunIsRefused == \A s \in DOMAIN subscription : ~RunRefused(s)

\* No commission run is ever refused for a cyclic route (resolveSponsorRoute).
THEOREM RunsAreNeverRefused == CommissionSpec => []NoRunIsRefused
<1>1. CommissionInv => NoRunIsRefused
  <2> SUFFICES ASSUME CommissionInv, NEW s \in DOMAIN subscription,
                      EffectivePlans(subscription[s].activatedAt) # {}
               PROVE  ~RouteMeetsItself(RouteOf(s))
    BY DEF NoRunIsRefused, RunRefused
  <2>1. TreeInv /\ PastTreesAcyclic /\ SubscriptionsPast /\ PlansApart
    BY DEF CommissionInv, TreeKept
  <2>2. PICK at \in 0..now, user \in Users :
          at = subscription[s].activatedAt /\ user = subscription[s].user
    BY <2>1, SubscriptionTyped
  <2>3. PICK m \in Nat : m = Max(EnabledLevels(PlanOf(s)))
    BY <2>1, PlanIsValid
  <2>4. RouteOf(s) = SponsorRoute(user, at, m)
    BY <2>2, <2>3 DEF RouteOf
  <2>5. IsRoute(SponsorRoute(user, at, m), user, at, m)
    <3>1. \E r : IsRoute(r, user, at, m)
      BY RouteExists
    <3> QED BY <3>1, RouteIs
  <2>6. PICK up : up = SponsorRoute(user, at, m)
    OBVIOUS
  <2>7. ~RouteMeetsItself(up)
    BY <2>1, <2>5, <2>6, RouteIsStraight
  <2> QED BY <2>4, <2>6, <2>7
<1> QED BY <1>1, CommissionsAreKept, PTL
=============================================================================
