------------------------------ MODULE Referrals ------------------------------
(***************************************************************************)
(* The sponsor tree (backend/src/referrals): the profile each member has   *)
(* now, and the history of sponsor changes that later readers use to find  *)
(* the sponsor a member had at an earlier time.                            *)
(*                                                                         *)
(* Every handler is one Serializable transaction and stamps the rows it    *)
(* writes; the clock moves with each of them, so that "at or before" has a *)
(* meaning.  Whether the actor is a SUPER_ADMIN, or an ADMIN who was given *)
(* the right, decides only who may act and is left out.                    *)
(***************************************************************************)
EXTENDS Integers, Sequences

CONSTANTS
  Users,            \* people who may register
  Nobody,           \* the null sponsor
  MaxSponsorDepth,  \* longest chain assertNoCycle walks
  MaxTime,          \* bound of the clock
  Suspendable       \* users an administrator may suspend in this instance

ASSUME ReferralsAssumption ==
  /\ Nobody \notin Users
  /\ MaxSponsorDepth \in Nat
  /\ MaxTime \in Nat
  /\ Suspendable \subseteq Users

VARIABLES
  now,              \* the clock
  account,          \* user -> "NONE", "ACTIVE" or "SUSPENDED"
  profile,          \* user -> the referral_profiles row
  sponsorHistory,   \* the referral_sponsor_history rows, oldest first
  config            \* the system_referral_config row

referralVars == <<now, account, profile, sponsorHistory, config>>

Sponsors == Users \union {Nobody}
Times == 0..MaxTime

ProfileRows ==
  [status : {"NONE", "ROOT", "ASSIGNED"}, sponsor : Sponsors, assignedAt : Times]

HistoryRows == [member : Users, sponsor : Sponsors, at : Times]

ReferralTypeOK ==
  /\ now \in Times
  /\ account \in [Users -> {"NONE", "ACTIVE", "SUSPENDED"}]
  /\ profile \in [Users -> ProfileRows]
  /\ sponsorHistory \in Seq(HistoryRows)
  /\ config \in [root : Sponsors, defaultSponsor : Sponsors, enrollment : BOOLEAN]

NoProfile == [status |-> "NONE", sponsor |-> Nobody, assignedAt |-> 0]

ReferralInit ==
  /\ now = 0
  /\ account \in [Users -> {"NONE", "ACTIVE"}]
  /\ profile = [u \in Users |-> NoProfile]
  /\ sponsorHistory = <<>>
  /\ config = [root |-> Nobody, defaultSponsor |-> Nobody, enrollment |-> FALSE]

(* A write stamped with the current time; no two share a millisecond.       *)
Stamp == now < MaxTime /\ now' = now + 1

-----------------------------------------------------------------------------
(* What the tree says, now and at an earlier time.                          *)

(* Mutant of Enrolled: any account may sponsor.                             *)
Registered(u) == account[u] # "NONE"

Enrolled(u) == profile[u].status # "NONE"

(* Mutant of AssertNoCycle: only the direct sponsor is compared.            *)
AssertNoSelf(member, candidate) == profile[candidate].sponsor # member

(* The walk of assertNoCycle up from a candidate: it ends at a member who   *)
(* has no sponsor, is short enough, and never meets the member.             *)
AssertNoCycle(member, candidate) ==
  \E n \in 1..MaxSponsorDepth : \E walk \in [1..n -> Users] :
    /\ walk[1] = candidate
    /\ \A i \in 1..(n - 1) : walk[i + 1] = profile[walk[i]].sponsor
    /\ profile[walk[n]].sponsor = Nobody
    /\ \A i \in 1..n : walk[i] # member

(* The member's rows up to a time that no later one of them overrides.      *)
LatestRows(member, at) ==
  LET rows == {i \in DOMAIN sponsorHistory :
                 sponsorHistory[i].member = member /\ sponsorHistory[i].at <= at}
  IN {i \in rows : \A j \in rows : j <= i}

(* Mutant of ResolveSponsorAt: the current profile, whatever the time.      *)
CurrentSponsor(member, at) == profile[member].sponsor

ResolveSponsorAt(member, at) ==
  LET latest == LatestRows(member, at)
  IN IF latest # {} THEN sponsorHistory[CHOOSE i \in latest : TRUE].sponsor
     ELSE IF profile[member].status = "ASSIGNED" /\ profile[member].assignedAt <= at
          THEN profile[member].sponsor
          ELSE Nobody

-----------------------------------------------------------------------------
(* Operations.                                                              *)

HistoryRow(member, sponsor) ==
  [member |-> member, sponsor |-> sponsor, at |-> now + 1]

(* updateConfig with ensureRootProfile: the root is chosen once, becomes    *)
(* the root of the tree if it has no profile, and must not be under anyone. *)
UpdateConfig(root, defaultSponsor, enrollment) ==
  LET newRoot == root # Nobody /\ ~Enrolled(root)
  IN /\ Stamp
     /\ config.root # Nobody => root = config.root
     /\ config.defaultSponsor # Nobody => defaultSponsor # Nobody
     /\ root # Nobody => account[root] = "ACTIVE" /\ profile[root].status # "ASSIGNED"
     /\ profile' = IF newRoot
                   THEN [profile EXCEPT ![root] =
                           [status |-> "ROOT", sponsor |-> Nobody,
                            assignedAt |-> now + 1]]
                   ELSE profile
     /\ sponsorHistory' = IF newRoot
                          THEN Append(sponsorHistory, HistoryRow(root, Nobody))
                          ELSE sponsorHistory
     /\ defaultSponsor # Nobody =>
          /\ account[defaultSponsor] = "ACTIVE"
          /\ Enrolled(defaultSponsor) \/ defaultSponsor = root
     /\ enrollment => root # Nobody /\ defaultSponsor # Nobody
     /\ config' = [root |-> root, defaultSponsor |-> defaultSponsor,
                   enrollment |-> enrollment]
     /\ UNCHANGED account

Place(member, sponsor) ==
  /\ profile' = [profile EXCEPT ![member] =
                   [status |-> "ASSIGNED", sponsor |-> sponsor, assignedAt |-> now + 1]]
  /\ sponsorHistory' = Append(sponsorHistory, HistoryRow(member, sponsor))

AssignSponsor(member, sponsor) ==
  /\ Stamp
  /\ member # sponsor
  /\ account[member] = "ACTIVE" /\ account[sponsor] = "ACTIVE"
  /\ Enrolled(sponsor)
  /\ AssertNoCycle(member, sponsor)
  /\ profile[member].status # "ROOT"
  /\ profile[member].sponsor # sponsor
  /\ Place(member, sponsor)
  /\ UNCHANGED <<account, config>>

(* Registration: with a code the code's owner, otherwise the default        *)
(* sponsor; while enrollment is off the account is created without profile. *)
Register(u, codeOwner) ==
  LET sponsor == IF codeOwner # Nobody THEN codeOwner ELSE config.defaultSponsor
  IN /\ Stamp
     /\ account[u] = "NONE"
     /\ account' = [account EXCEPT ![u] = "ACTIVE"]
     /\ IF config.enrollment
        THEN /\ sponsor \in Users
             /\ Enrolled(sponsor) /\ account[sponsor] = "ACTIVE"
             /\ Place(u, sponsor)
        ELSE UNCHANGED <<profile, sponsorHistory>>
     /\ UNCHANGED config

SetUserStatus(u, status) ==
  /\ account[u] # "NONE"
  /\ account[u] # status
  /\ account' = [account EXCEPT ![u] = status]
  /\ UNCHANGED <<now, profile, sponsorHistory, config>>

ReferralNext ==
  \/ \E root, sponsor \in Sponsors, enrollment \in BOOLEAN :
       UpdateConfig(root, sponsor, enrollment)
  \/ \E member, sponsor \in Users : AssignSponsor(member, sponsor)
  \/ \E u \in Users, owner \in Sponsors : Register(u, owner)
  \/ \E u \in Suspendable, status \in {"ACTIVE", "SUSPENDED"} :
       SetUserStatus(u, status)

ReferralSpec == ReferralInit /\ [][ReferralNext]_referralVars

-----------------------------------------------------------------------------
(* Correctness.                                                             *)

\* sponsorOf, a function from users to users or Nobody, has no cycle: every
\* set of users has a member whose sponsor lies outside of it.
Acyclic(sponsorOf) ==
  \A S \in SUBSET Users :
    S # {} => \E u \in S : sponsorOf[u] \notin S

(* The tree of referral_profiles never has a cycle, however members are     *)
(* enrolled, assigned and moved (assertNoCycle).                            *)
SponsorTreeAcyclic == Acyclic([u \in Users |-> profile[u].sponsor])

(* No cycle either in the tree rebuilt from the history for an earlier time *)
(* (resolveSponsorAt): a commission route can always be resolved.           *)
PastTreesAcyclic ==
  \A t \in 0..now : Acyclic([u \in Users |-> ResolveSponsorAt(u, t)])

(* Every enrolled member's chain of sponsors ends at the configured root:   *)
(* nobody is left on a branch cut off from the tree, so a set that holds an *)
(* enrolled member and everyone above its members holds the root.           *)
OneTree ==
  \A S \in SUBSET Users :
    /\ \E u \in S : profile[u].status # "NONE"
    /\ \A u \in S : profile[u].sponsor \in S \union {Nobody}
    => config.root \in S

(* The history accounts for every profile: the latest row of an enrolled    *)
(* member names the current sponsor and the time of the assignment, and     *)
(* nobody else has rows (ensureRootProfile, assignSponsor, enrollment).     *)
HistoryCoversProfiles ==
  /\ \A i \in DOMAIN sponsorHistory : sponsorHistory[i].at <= now
  /\ \A u \in Users :
       IF profile[u].status # "NONE"
       THEN /\ profile[u].assignedAt <= now
            /\ \E i \in DOMAIN sponsorHistory :
                 /\ sponsorHistory[i] = 
                      [member |-> u, sponsor |-> profile[u].sponsor,
                       at |-> profile[u].assignedAt]
                 /\ \A j \in DOMAIN sponsorHistory :
                      sponsorHistory[j].member = u => j <= i
       ELSE \A i \in DOMAIN sponsorHistory : sponsorHistory[i].member # u

(* Nobody can change who sponsored whom at an earlier time: a reassignment  *)
(* adds to the history and rewrites nothing (resolveSponsorAt).             *)
PastSponsorsFrozen ==
  [][\A u \in Users, t \in 0..now :
       ResolveSponsorAt(u, t)' = ResolveSponsorAt(u, t)]_referralVars
=============================================================================
