------------------------------ MODULE Merchants ------------------------------
(***************************************************************************)
(* How a member becomes the owner of a restaurant: applications, their     *)
(* review, the moderation of restaurants, and who may write a restaurant   *)
(* (app/services/owner.py, app/services/admin.py).                         *)
(*                                                                         *)
(* A request reads in one step and commits in another.  A review holds the *)
(* lock of its application from its first read and, to approve, that of    *)
(* the restaurant; moderation holds the restaurant's; an insert that       *)
(* refers to a locked restaurant waits.                                    *)
(***************************************************************************)
EXTENDS Naturals, FiniteSets

CONSTANTS
    Applicants,         \* members who apply
    Venues,             \* ids of restaurants
    Applications,       \* ids of applications
    Numbers,            \* business registration numbers
    Managers,           \* memberships the seed made: subset of Venues \X Applicants
    Desks               \* requests served at the same time

ASSUME MerchantAssumptions == Managers \subseteq Venues \X Applicants

VARIABLES
    applications,       \* owner_applications: a function on the ids in use
    venues,             \* restaurants
    memberships,        \* restaurant_memberships, active: their roles
    desks               \* per request: what it has read

merchantVars == <<applications, venues, memberships, desks>>

ActiveStatuses == {"pending", "submitted", "under_review"}
FinalStatuses == {"approved", "rejected"}
Application == [applicant: Applicants, venue: Venues, number: Numbers,
                status: ActiveStatuses \cup FinalStatuses]

\* owner is owner_user_id: at most one; is_published is in OpenNow.
Venue == [owner: SUBSET Applicants, verified: BOOLEAN, open: BOOLEAN]

Away == [step |-> "away"]
Filing == [step: {"file"}, applicant: Applicants, venue: Venues, number: Numbers]
Reviewing == [step: {"review"}, application: Applications, venue: Venues,
              verdict: {"under_review", "approved", "rejected"}]
Granting == [step: {"grant"}, application: Applications, venue: Venues]
Desk == {Away} \cup Filing \cup Reviewing \cup Granting

MerchantTypes ==
    /\ DOMAIN applications \subseteq Applications
    /\ \A a \in DOMAIN applications : applications[a] \in Application
    /\ venues \in [Venues -> Venue]
    /\ memberships \in [Venues \X Applicants -> {"none", "owner", "manager"}]
    /\ desks \in [Desks -> Desk]

MerchantInit ==
    /\ applications = [a \in {} |-> Away]
    /\ venues = [v \in Venues |->
         [owner |-> {}, verified |-> FALSE, open |-> TRUE]]
    /\ memberships = [m \in Venues \X Applicants |->
         IF m \in Managers THEN "manager" ELSE "none"]
    /\ desks = [d \in Desks |-> Away]

-----------------------------------------------------------------------------
Serve(d, q) == desks' = [desks EXCEPT ![d] = q]

\* Rows locked FOR UPDATE.
ReviewedNow(a) ==
    \E d \in Desks : desks[d].step \in {"review", "grant"} /\ desks[d].application = a
VenueLocked(v) == \E d \in Desks : desks[d].step = "grant" /\ desks[d].venue = v

\* _WRITE_ROLES, and the owner must be the restaurant's.
MayWrite(v, u) ==
    \/ memberships[<<v, u>>] = "manager"
    \/ memberships[<<v, u>>] = "owner" /\ venues[v].owner = {u}

OwnerMembers(v) == {u \in Applicants : memberships[<<v, u>>] = "owner"}

\* create_owner_application: a claimed restaurant is for its own people, and
\* no application of that number is open.
FileRead(d, u, v, n) ==
    /\ desks[d] = Away
    /\ venues[v].owner # {} => memberships[<<v, u>>] \in {"owner", "manager"}
    /\ \A a \in DOMAIN applications :
         applications[a].number = n => applications[a].status \notin ActiveStatuses
    /\ Serve(d, [step |-> "file", applicant |-> u, venue |-> v, number |-> n])
    /\ UNCHANGED <<applications, venues, memberships>>

FileCommit(d, a) ==
    LET q == desks[d] IN
    /\ q.step = "file"
    /\ a \notin DOMAIN applications
    /\ ~VenueLocked(q.venue)
    /\ applications' = [b \in DOMAIN applications \cup {a} |->
         IF b = a THEN [applicant |-> q.applicant, venue |-> q.venue, number |-> q.number,
                        status |-> "pending"]
         ELSE applications[b]]
    /\ Serve(d, Away)
    /\ UNCHANGED <<venues, memberships>>

\* Fault: the application is read without its lock.
ReviewableUnlocked(a) ==
    a \in DOMAIN applications /\ applications[a].status \notin FinalStatuses

\* review_owner_application: FOR UPDATE, and not final.
Reviewable(a) ==
    /\ a \in DOMAIN applications /\ applications[a].status \notin FinalStatuses
    /\ ~ReviewedNow(a)

\* The reviewer may choose another restaurant than the applicant.
ReviewRead(d, a, v, verdict) ==
    /\ desks[d] = Away
    /\ Reviewable(a)
    /\ Serve(d, [step |-> "review", application |-> a, venue |-> v, verdict |-> verdict])
    /\ UNCHANGED <<applications, venues, memberships>>

ReviewCommit(d) ==
    LET q == desks[d] IN
    /\ q.step = "review" /\ q.verdict # "approved"
    /\ applications' = [applications EXCEPT ![q.application].status = q.verdict]
    /\ Serve(d, Away)
    /\ UNCHANGED <<venues, memberships>>

\* To approve: the restaurant FOR UPDATE, and no other owner.
Grantable(v, u) == venues[v].owner \subseteq {u} /\ OwnerMembers(v) \subseteq {u}

ApproveRead(d) ==
    LET q == desks[d] IN
    /\ q.step = "review" /\ q.verdict = "approved"
    /\ ~VenueLocked(q.venue)
    /\ Grantable(q.venue, applications[q.application].applicant)
    /\ Serve(d, [step |-> "grant", application |-> q.application, venue |-> q.venue])
    /\ UNCHANGED <<applications, venues, memberships>>

\* Fault: a membership there is keeps its role.
GrantedUnlessMember(m, v, u) ==
    IF m[<<v, u>>] = "none" THEN [m EXCEPT ![<<v, u>>] = "owner"] ELSE m

Granted(m, v, u) == [m EXCEPT ![<<v, u>>] = "owner"]

\* application.restaurant_id becomes the reviewer's choice.
Approved(app, v) == [app EXCEPT !.status = "approved", !.venue = v]

\* uq_restaurant_memberships_active_owner admits no second owner.
ApproveCommit(d) ==
    LET q == desks[d]
        u == applications[q.application].applicant IN
    /\ q.step = "grant"
    /\ OwnerMembers(q.venue) \subseteq {u}
    /\ memberships' = Granted(memberships, q.venue, u)
    /\ venues' = [venues EXCEPT ![q.venue].owner = {u}, ![q.venue].verified = TRUE]
    /\ applications' = [applications EXCEPT ![q.application] = Approved(@, q.venue)]
    /\ Serve(d, Away)

\* update_restaurant_moderation, from its lock to its commit.
Moderate(v, verified) ==
    /\ ~VenueLocked(v)
    /\ venues' = [venues EXCEPT ![v].verified = verified]
    /\ UNCHANGED <<applications, memberships, desks>>

\* update_open_status by who may write.
SetOpen(v, u, open) ==
    /\ MayWrite(v, u)
    /\ ~VenueLocked(v)
    /\ venues' = [venues EXCEPT ![v].open = open]
    /\ UNCHANGED <<applications, memberships, desks>>

\* A request is refused, rolled back, or its process dies.
Leave(d) ==
    /\ desks[d] # Away
    /\ Serve(d, Away)
    /\ UNCHANGED <<applications, venues, memberships>>

Owning(d) ==
    \/ \E u \in Applicants, v \in Venues, n \in Numbers : FileRead(d, u, v, n)
    \/ \E a \in Applications : FileCommit(d, a)

Review(d) ==
    \/ \E a \in Applications, v \in Venues, s \in FinalStatuses \cup {"under_review"} :
         ReviewRead(d, a, v, s)
    \/ ReviewCommit(d) \/ ApproveRead(d) \/ ApproveCommit(d)

MerchantNext ==
    \/ \E d \in Desks : Owning(d) \/ Review(d) \/ Leave(d)
    \/ \E v \in Venues, b \in BOOLEAN : Moderate(v, b)
    \/ \E v \in Venues, u \in Applicants, b \in BOOLEAN : SetOpen(v, u, b)

MerchantSpec == MerchantInit /\ [][MerchantNext]_merchantVars

-----------------------------------------------------------------------------
\* A restaurant has one owner, in restaurants.owner_user_id and in the
\* memberships alike, and that is a member whose application for it an
\* administrator approved, also when two reviews of one restaurant and one
\* application overlap (admin.py:318, :344, :385, owner.py:245).
OwnersWereApproved ==
    \A v \in Venues :
        /\ Cardinality(venues[v].owner) <= 1
        /\ OwnerMembers(v) = venues[v].owner
        /\ \A u \in venues[v].owner : \E a \in DOMAIN applications :
             /\ applications[a].applicant = u /\ applications[a].venue = v
             /\ applications[a].status = "approved"

\* What an administrator decided for good no other review that was open at
\* the time changes, nor its restaurant (admin.py:318).
VerdictsAreFinal ==
    [][\A a \in DOMAIN applications : applications[a].status \in FinalStatuses =>
         applications'[a] = applications[a]]_merchantVars
=============================================================================
