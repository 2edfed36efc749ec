---------------------------- MODULE AwardRewards ----------------------------
(***************************************************************************)
(* Team business awards (backend/src/award-rewards).  A member runs one    *)
(* track at a time, one for each kind of package and in the order of the   *)
(* policy.  A track starts from zero, is closed and paid when the business *)
(* of every required level of the member's team has reached its amount,    *)
(* and in the same transaction the next track starts.                      *)
(*                                                                         *)
(* reconcileUser is one Serializable transaction that locks the member;    *)
(* the worker's batch goes by the list it has read before, one member      *)
(* after the other.  Activations are stamped, and no two share an instant. *)
(*                                                                         *)
(* Where the code stamps achievedAt on a level, the model also keeps the   *)
(* packages that were counted for it then (met).  No action reads them:    *)
(* they are there for PackagesCountOnce to speak of.                       *)
(***************************************************************************)
EXTENDS Integers, Sequences, FiniteSets, FiniteSetsExt, Functions

CONSTANTS
  Members,        \* members, numbered in the order of their identifiers
  InitialSponsor, \* [Members -> Members \cup {0}], 0 for no sponsor
  Kinds,          \* package definitions
  Price,          \* [Kinds -> Nat], price of a package
  LevelCount,     \* levels of a policy
  Policies,       \* sequence of the policies as they take effect
  BatchLimit,     \* RECONCILIATION_BATCH_LIMIT
  Purchases,      \* what is bought in this instance, each <<member, kind>> once
  Ending,         \* kinds whose packages may end in this instance
  Reconcilable,   \* members an administrator reconciles in this instance
  MaxMoves        \* bound on the sponsor changes

Levels == 1 .. LevelCount

\* What validateMatrix demands: a place in the order for each kind it awards
\* (0 for the others), a positive award, and business on at least one level
\* (0 stands for NOT_REQUIRED).
ValidMatrix(policy) ==
  LET awarded == {k \in Kinds : policy.order[k] > 0}
  IN /\ policy.order \in [Kinds -> Nat] /\ policy.award \in [Kinds -> Nat]
     /\ policy.required \in [Kinds -> [Levels -> Nat]]
     /\ policy.enabled => awarded # {}
     /\ \A k \in awarded : policy.award[k] > 0 /\ \E l \in Levels : policy.required[k][l] > 0
     /\ \A k, j \in awarded : policy.order[k] = policy.order[j] => k = j

\* What assertNoCycle keeps: every set of members has one whose sponsor is
\* outside of it.
Acyclic(tree) == \A S \in SUBSET Members : S # {} => \E m \in S : tree[m] \notin S

ASSUME AwardRewardsAssumption ==
  /\ Members \subseteq Nat \ {0} /\ IsFiniteSet(Members)
  /\ InitialSponsor \in [Members -> Members \cup {0}] /\ Acyclic(InitialSponsor)
  /\ Price \in [Kinds -> Nat]
  /\ Purchases \subseteq Members \X Kinds /\ Ending \subseteq Kinds
  /\ Reconcilable \subseteq Members
  /\ {LevelCount, BatchLimit} \subseteq Nat \ {0}
  /\ Policies \in Seq(Range(Policies))
  /\ \A i \in DOMAIN Policies : ValidMatrix(Policies[i])
  /\ MaxMoves \in Nat

VARIABLES
  sponsor,        \* the sponsor each member has now
  movedAt,        \* instants of the sponsor changes
  packages,       \* user_package_subscriptions, in the order of activation
  effective,      \* index of the policy in effect, 0 before the first
  tracks,         \* award_reward_user_tracks with their level progress
  events,         \* award_reward_events
  wallet,         \* what awards have credited to each member's rewards
  run             \* members the worker's run has yet to reconcile

awardVars ==
  <<sponsor, movedAt, packages, effective, tracks, events, wallet, run>>

AwardInit ==
  /\ sponsor = InitialSponsor
  /\ movedAt = {}
  /\ packages = <<>>
  /\ effective = 0
  /\ tracks = <<>>
  /\ events = <<>>
  /\ wallet = [m \in Members |-> 0]
  /\ run = <<>>

PackageRows == [user : Members, kind : Kinds, active : BOOLEAN]
TrackRows ==
  [user : Members, kind : Kinds, order : Nat, award : Nat, required : [Levels -> Nat],
   startedAt : Nat \ {0}, open : BOOLEAN, business : [Levels -> Nat], achieved : SUBSET Levels,
   met : [Levels -> SUBSET Nat]]
EventRows == [track : Nat, user : Members, amount : Nat]

AwardTypeOK ==
  /\ sponsor \in [Members -> Members \cup {0}] /\ movedAt \subseteq Nat
  /\ packages \in Seq(PackageRows) /\ effective \in 0 .. Len(Policies)
  /\ tracks \in Seq(TrackRows) /\ events \in Seq(EventRows)
  /\ wallet \in [Members -> Nat] /\ run \in Seq(Members)

\* Activations are the only stamps that business depends on: the n-th package
\* is stamped n, and what starts now is before the next one.
Now == Len(packages) + 1

\* The business of a set of packages.
Business(S) == SumFunctionOnSet([i \in DOMAIN packages |-> Price[packages[i].kind]], S)

-----------------------------------------------------------------------------
(* The world around: packages, the sponsor tree, the policy in effect *)

Buy(m, k) ==
  /\ \A i \in DOMAIN packages : packages[i].user # m \/ packages[i].kind # k
  /\ packages' = Append(packages, [user |-> m, kind |-> k, active |-> TRUE])
  /\ UNCHANGED <<sponsor, movedAt, effective, tracks, events, wallet, run>>

FinishPackage(i) ==
  /\ packages[i].active /\ packages[i].kind \in Ending
  /\ packages' = [packages EXCEPT ![i].active = FALSE]
  /\ UNCHANGED <<sponsor, movedAt, effective, tracks, events, wallet, run>>

\* The members so many sponsors below a member.
TeamLevel(m, l) ==
  LET level[n \in 0 .. l] ==
        IF n = 0 THEN {m} ELSE {u \in Members : sponsor[u] \in level[n - 1]}
  IN level[l]

\* An administrator places the member, team and all, under another sponsor,
\* above whom the member is not (assertNoCycle).
MoveMember(m, s) ==
  /\ sponsor[m] # 0 /\ s # sponsor[m]
  /\ Cardinality(movedAt) < MaxMoves
  /\ \E above \in SUBSET (Members \ {m}) :
       s \in above /\ \A u \in above : sponsor[u] \in above \cup {0}
  /\ sponsor' = [sponsor EXCEPT ![m] = s]
  /\ movedAt' = movedAt \cup {Now}
  /\ UNCHANGED <<packages, effective, tracks, events, wallet, run>>

NextPolicy ==
  /\ effective < Len(Policies)
  /\ effective' = effective + 1
  /\ UNCHANGED <<sponsor, movedAt, packages, tracks, events, wallet, run>>

-----------------------------------------------------------------------------
(* Reconciliation of one member *)

PolicyInEffect == effective > 0 /\ Policies[effective].enabled
Awarded(k) == Policies[effective].order[k] > 0

TracksOf(all, m) == {i \in DOMAIN all : all[i].user = m}
MaxOrder(all, m) == Max({0} \cup {all[i].order : i \in TracksOf(all, m)})

\* Mutant of Candidates: a kind may run again under a later place in the order.
CandidatesAgain(all, m) ==
  {k \in Kinds : /\ PolicyInEffect /\ Awarded(k)
                 /\ \E i \in DOMAIN packages :
                      packages[i].user = m /\ packages[i].kind = k /\ packages[i].active
                 /\ Policies[effective].order[k] > MaxOrder(all, m)}

\* Kinds of which the member has an active package and has had no track, and
\* which come later in the order than every track the member has had.
Candidates(all, m) ==
  {k \in Kinds : /\ PolicyInEffect /\ Awarded(k)
                 /\ \E i \in DOMAIN packages :
                      packages[i].user = m /\ packages[i].kind = k /\ packages[i].active
                 /\ Policies[effective].order[k] > MaxOrder(all, m)
                 /\ \A i \in TracksOf(all, m) : all[i].kind # k}

\* A track from zero, with the terms of the policy.
NewTrack(policy, m, k) ==
  [user |-> m, kind |-> k, order |-> policy.order[k], award |-> policy.award[k],
   required |-> policy.required[k], startedAt |-> Now, open |-> TRUE,
   business |-> [l \in Levels |-> 0],
   achieved |-> {l \in Levels : policy.required[k][l] = 0},
   met |-> [l \in Levels |-> {}]]

\* findNextCandidate with startTrack.
StartTrack(all, m) ==
  LET policy == Policies[effective]
      first == {k \in Candidates(all, m) :
                  \A j \in Candidates(all, m) : policy.order[k] <= policy.order[j]}
  IN IF first = {} THEN all ELSE Append(all, NewTrack(policy, m, CHOOSE k \in first : TRUE))

\* Mutant of LevelPackages: packages from before the track count too.
LifetimePackages(track, l) ==
  LET team == TeamLevel(track.user, l)
  IN {i \in DOMAIN packages : packages[i].user \in team}

LevelPackages(track, l) ==
  LET team == TeamLevel(track.user, l)
  IN {i \in track.startedAt .. Len(packages) : packages[i].user \in team}

LevelBusiness(track, l) == Business(LevelPackages(track, l))

\* recalculateProgress: amounts follow the team, what is achieved stays so.
Recalculated(track) ==
  LET business == [l \in Levels |-> LevelBusiness(track, l)]
      reached == {l \in Levels : business[l] >= track.required[l]}
  IN [track EXCEPT !.business = business,
                   !.achieved = @ \cup reached,
                   !.met = [l \in Levels |-> IF l \in reached \ track.achieved
                                              THEN LevelPackages(track, l) ELSE @[l]]]

\* Mutant of AllAchieved: one required level is enough.
AnyAchieved(track) == \E l \in Levels : track.required[l] > 0 /\ l \in track.achieved

AllAchieved(track) == \A l \in Levels : track.required[l] > 0 => l \in track.achieved

AwardEvent(i, track) ==
  [track |-> i, user |-> track.user, amount |-> track.award]

\* postAward credits the wallet of the member once for a track.
PostAward(i) ==
  LET track == tracks'[i]
  IN IF \E e \in DOMAIN events : events[e].track = i THEN UNCHANGED <<events, wallet>>
     ELSE /\ events' = Append(events, AwardEvent(i, track))
          /\ wallet' = [wallet EXCEPT ![track.user] = @ + track.award]

OpenTracks(all, m) == {i \in TracksOf(all, m) : all[i].open}

\* reconcileUser
ReconcileUser(m) ==
  LET started == IF OpenTracks(tracks, m) = {} THEN StartTrack(tracks, m) ELSE tracks
  IN IF OpenTracks(started, m) = {} THEN UNCHANGED <<tracks, events, wallet>>
     ELSE LET i == CHOOSE i \in OpenTracks(started, m) : TRUE
              counted == [started EXCEPT ![i] = Recalculated(@)]
          IN IF AllAchieved(counted[i])
               THEN /\ tracks' = StartTrack([counted EXCEPT ![i].open = FALSE], m)
                    /\ PostAward(i)
               ELSE /\ tracks' = counted
                    /\ UNCHANGED <<events, wallet>>

\* An administrator reconciles one member, or a batch, whose steps are these.
AdminReconcile(m) ==
  /\ ReconcileUser(m)
  /\ UNCHANGED <<sponsor, movedAt, packages, effective, run>>

-----------------------------------------------------------------------------
(* The worker *)

\* Mutant of ReconciliationUsers: only members with an active package.
UsersWithPackages ==
  {m \in Members : PolicyInEffect /\ \E i \in DOMAIN packages :
     packages[i].user = m /\ packages[i].active /\ Awarded(packages[i].kind)}

ReconciliationUsers ==
  {m \in Members : PolicyInEffect /\
     \/ OpenTracks(tracks, m) # {}
     \/ \E i \in DOMAIN packages :
          packages[i].user = m /\ packages[i].active /\ Awarded(packages[i].kind)}

\* loadReconciliationUserIds: the first members by identifier, each time.
StartRun ==
  LET due == ReconciliationUsers
  IN /\ run = <<>> /\ due # {}
     /\ \E batch \in [1 .. Min({BatchLimit, Cardinality(due)}) -> due] :
          /\ \A i, j \in DOMAIN batch : i < j => batch[i] < batch[j]
          /\ \A u \in due \ Range(batch) : \A i \in DOMAIN batch : batch[i] < u
          /\ run' = batch
     /\ UNCHANGED <<sponsor, movedAt, packages, effective, tracks, events, wallet>>

RunNext ==
  /\ run # <<>>
  /\ ReconcileUser(Head(run))
  /\ run' = Tail(run)
  /\ UNCHANGED <<sponsor, movedAt, packages, effective>>

\* The process stops, or a transaction has conflicted three times: the rest
\* of the run is dropped.
CutOff ==
  /\ run # <<>>
  /\ run' = <<>>
  /\ UNCHANGED <<sponsor, movedAt, packages, effective, tracks, events, wallet>>

AwardNext ==
  \/ \E purchase \in Purchases : Buy(purchase[1], purchase[2])
  \/ \E i \in DOMAIN packages : FinishPackage(i)
  \/ \E m, s \in Members : MoveMember(m, s)
  \/ NextPolicy
  \/ \E m \in Reconcilable : AdminReconcile(m)
  \/ StartRun \/ RunNext \/ CutOff

AwardSpec == AwardInit /\ [][AwardNext]_awardVars

\* Whatever is cut off: while there is anyone to reconcile, the worker comes
\* to the end of its list again and again.
FairAwardSpec ==
  AwardSpec /\ ([]<>(ReconciliationUsers = {})
                  \/ []<><<Len(run) = 1 /\ RunNext>>_awardVars)

-----------------------------------------------------------------------------
(* Properties *)

EventsOf(m) == {e \in DOMAIN events : events[e].user = m}

\* However worker and administrators overlap and policies reorder the kinds, a
\* member runs one track at a time, never two for a kind, each later in the
\* order than the last, and is paid once for each closed track and no other.
AwardsMatchTracks ==
  \A m \in Members :
    /\ Cardinality(OpenTracks(tracks, m)) <= 1
    /\ \A i, j \in TracksOf(tracks, m) : i < j =>
         tracks[i].kind # tracks[j].kind /\ tracks[i].order < tracks[j].order /\ ~tracks[i].open
    /\ {events[e].track : e \in EventsOf(m)} = {i \in TracksOf(tracks, m) : ~tracks[i].open}
    /\ Cardinality(EventsOf(m)) = Cardinality({events[e].track : e \in EventsOf(m)})
    /\ wallet[m] = SumFunctionOnSet([e \in DOMAIN events |-> events[e].amount], EventsOf(m))

\* A package by which a level was achieved never serves another track of the
\* member, however teams are moved between two runs; and it serves no other
\* level of the same track, unless a team was moved since the track started.
PackagesCountOnce ==
  \A i, j \in DOMAIN tracks : tracks[i].user = tracks[j].user =>
    \A k, l \in Levels :
      i # j \/ (k # l /\ \A t \in movedAt : t < tracks[i].startedAt) =>
        tracks[i].met[k] \cap tracks[j].met[l] = {}

\* Unless teams were moved meanwhile, an award is paid only when packages
\* bought since its track started reach the amounts of all levels.
AwardsAreEarned ==
  [][\A e \in DOMAIN events' \ DOMAIN events :
       LET track == tracks'[events'[e].track]
       IN (\A t \in movedAt : t < track.startedAt) =>
            \A l \in Levels : track.required[l] <=
              Business({i \in track.startedAt .. Len(packages) :
                          packages[i].user \in TeamLevel(track.user, l)})]_awardVars

\* Business that is complete is paid for while the awards are on, also when
\* the package that started the track has ended.
Earned(m) ==
  /\ PolicyInEffect
  /\ \E i \in OpenTracks(tracks, m) : AllAchieved(Recalculated(tracks[i]))
AwardsArrive == \A m \in Members : Earned(m) ~> ~Earned(m)
=============================================================================
