--------------------------- MODULE MerchantsProofs ---------------------------
(***************************************************************************)
(* For any members, restaurants, applications and number of requests: a    *)
(* restaurant belongs to a member whose application was approved, and no   *)
(* verdict is overturned.                                                  *)
(*                                                                         *)
(* Both rest on the lock of an application: whoever reviews it is the only *)
(* one to do so, and has seen that it is not decided.                      *)
(***************************************************************************)
EXTENDS Merchants, FiniteSetTheorems, TLAPS

Holding(d) == desks[d].step \in {"review", "grant"}

\* The lock of an application is with one request, which saw it undecided.
ReviewsAreApart ==
    /\ \A d \in Desks : Holding(d) =>
         /\ desks[d].application \in DOMAIN applications
         /\ applications[desks[d].application].status \notin FinalStatuses
    /\ \A d, e \in Desks :
         Holding(d) /\ Holding(e) /\ desks[d].application = desks[e].application => d = e

ApprovedFor(u, v) ==
    \E a \in DOMAIN applications :
        /\ applications[a].applicant = u /\ applications[a].venue = v
        /\ applications[a].status = "approved"

OwnersAgree ==
    \A v \in Venues :
        /\ \A u, w \in venues[v].owner : u = w
        /\ OwnerMembers(v) = venues[v].owner
        /\ \A u \in venues[v].owner : ApprovedFor(u, v)

MerchantInv == MerchantTypes /\ ReviewsAreApart /\ OwnersAgree

-----------------------------------------------------------------------------
LEMMA MerchantStarts == MerchantInit => MerchantInv
<1> SUFFICES ASSUME MerchantInit PROVE MerchantInv
  OBVIOUS
<1>1. DOMAIN applications = {}
  BY DEF MerchantInit
<1>2. MerchantTypes
  <2>1. \A v \in Venues : venues[v] \in Venue
    BY DEF MerchantInit, Venue
  <2>2. venues \in [Venues -> Venue]
    BY <2>1 DEF MerchantInit
  <2>3. memberships \in [Venues \X Applicants -> {"none", "owner", "manager"}]
    BY DEF MerchantInit
  <2>4. desks \in [Desks -> Desk]
    BY DEF MerchantInit, Desk
  <2>5. QED
    BY <1>1, <2>2, <2>3, <2>4 DEF MerchantTypes
<1>3. ReviewsAreApart
  BY DEF MerchantInit, ReviewsAreApart, Holding, Away
<1>4. OwnersAgree
  BY DEF MerchantInit, OwnersAgree, OwnerMembers
<1>5. QED
  BY <1>2, <1>3, <1>4 DEF MerchantInv

\* What the owners rest on: no approved application changes.
LEMMA OwnersStay ==
  ASSUME OwnersAgree, memberships' = memberships,
         \A v \in Venues : venues'[v].owner = venues[v].owner,
         \A a \in DOMAIN applications : applications[a].status = "approved" =>
            a \in DOMAIN applications' /\ applications'[a] = applications[a]
  PROVE  OwnersAgree'
<1>1. \A v \in Venues : OwnerMembers(v)' = OwnerMembers(v)
  BY DEF OwnerMembers
<1>2. ASSUME NEW v \in Venues, NEW u \in venues[v].owner PROVE ApprovedFor(u, v)'
  <2>1. PICK a \in DOMAIN applications :
          /\ applications[a].applicant = u /\ applications[a].venue = v
          /\ applications[a].status = "approved"
    BY <1>2 DEF OwnersAgree, ApprovedFor
  <2>2. a \in DOMAIN applications' /\ applications'[a] = applications[a]
    BY <2>1
  <2>3. QED
    BY <2>1, <2>2 DEF ApprovedFor
<1>3. QED
  BY <1>1, <1>2 DEF OwnersAgree

\* A request that reads takes a lock nobody has, or none.
LEMMA DeskTaken ==
  ASSUME MerchantInv, NEW d \in Desks, NEW q \in Desk, Serve(d, q),
         UNCHANGED <<applications, venues, memberships>>,
         q.step \in {"review", "grant"} =>
            /\ q.application \in DOMAIN applications
            /\ applications[q.application].status \notin FinalStatuses
            /\ \A e \in Desks \ {d} : Holding(e) => desks[e].application # q.application
  PROVE  MerchantInv'
<1>1. desks' \in [Desks -> Desk] /\ desks'[d] = q /\ \A e \in Desks \ {d} : desks'[e] = desks[e]
  BY DEF MerchantInv, MerchantTypes, Serve
<1>2. MerchantTypes'
  BY <1>1 DEF MerchantInv, MerchantTypes
<1>3. ReviewsAreApart'
  BY <1>1 DEF MerchantInv, ReviewsAreApart, Holding
<1>4. OwnersAgree'
  BY OwnersStay DEF MerchantInv
<1>5. QED
  BY <1>2, <1>3, <1>4 DEF MerchantInv

\* A request that commits gives its lock back, and changes its own application
\* only, or a new one.
LEMMA DeskFreed ==
  ASSUME MerchantInv, NEW d \in Desks, Serve(d, Away), NEW a,
         DOMAIN applications \subseteq DOMAIN applications',
         \A b \in DOMAIN applications : b # a => applications'[b] = applications[b],
         a \in DOMAIN applications => Holding(d) /\ desks[d].application = a
  PROVE  ReviewsAreApart' /\ desks' \in [Desks -> Desk]
<1>1. desks' \in [Desks -> Desk] /\ desks'[d] = Away /\ \A e \in Desks \ {d} : desks'[e] = desks[e]
  BY DEF MerchantInv, MerchantTypes, Serve, Desk
<1>2. \A e \in Desks : Holding(e)' => e # d /\ Holding(e)
  BY <1>1 DEF Holding, Away
<1>3. ASSUME NEW e \in Desks, Holding(e)'
      PROVE  /\ desks'[e].application \in DOMAIN applications'
             /\ applications'[desks'[e].application].status \notin FinalStatuses
  <2>1. e # d /\ Holding(e) /\ desks'[e] = desks[e]
    BY <1>1, <1>2, <1>3
  <2>2. desks[e].application \in DOMAIN applications
        /\ applications[desks[e].application].status \notin FinalStatuses
    BY <2>1 DEF MerchantInv, ReviewsAreApart
  <2>3. desks[e].application # a
    BY <2>1, <2>2 DEF MerchantInv, ReviewsAreApart
  <2>4. QED
    BY <2>1, <2>2, <2>3
<1>4. \A e, f \in Desks :
        Holding(e)' /\ Holding(f)' /\ desks'[e].application = desks'[f].application => e = f
  BY <1>1, <1>2 DEF MerchantInv, ReviewsAreApart
<1>5. QED
  BY <1>1, <1>3, <1>4 DEF ReviewsAreApart

-----------------------------------------------------------------------------
LEMMA FilePreserves ==
  ASSUME MerchantInv, NEW d \in Desks, NEW a \in Applications, FileCommit(d, a)
  PROVE  MerchantInv'
<1> DEFINE q == desks[d]
           new == [applicant |-> q.applicant, venue |-> q.venue, number |-> q.number,
                   status |-> "pending"]
<1>1. /\ q.step = "file" /\ a \notin DOMAIN applications
      /\ applications' = [b \in DOMAIN applications \cup {a} |->
                            IF b = a THEN new ELSE applications[b]]
      /\ Serve(d, Away) /\ UNCHANGED <<venues, memberships>>
  BY DEF FileCommit
<1>2. q \in Filing
  BY <1>1 DEF MerchantInv, MerchantTypes, Desk, Away, Filing, Reviewing, Granting
<1>3. new \in Application
  BY <1>2 DEF Filing, Application, ActiveStatuses
<1> HIDE DEF new, q
<1>4. /\ DOMAIN applications' = DOMAIN applications \cup {a}
      /\ applications'[a] = new
      /\ \A b \in DOMAIN applications : applications'[b] = applications[b]
  BY <1>1
<1>5. ReviewsAreApart' /\ desks' \in [Desks -> Desk]
  BY <1>1, <1>4, DeskFreed
<1>6. MerchantTypes'
  BY <1>1, <1>3, <1>4, <1>5 DEF MerchantInv, MerchantTypes
<1>7. OwnersAgree'
  BY <1>1, <1>4, OwnersStay DEF MerchantInv
<1>8. QED
  BY <1>5, <1>6, <1>7 DEF MerchantInv

LEMMA VerdictPreserves ==
  ASSUME MerchantInv, NEW d \in Desks, ReviewCommit(d)
  PROVE  MerchantInv'
<1> DEFINE q == desks[d]
           a == q.application
<1>1. /\ q.step = "review" /\ q.verdict # "approved"
      /\ applications' = [applications EXCEPT ![a].status = q.verdict]
      /\ Serve(d, Away) /\ UNCHANGED <<venues, memberships>>
  BY DEF ReviewCommit
<1>2. q \in Reviewing
  BY <1>1 DEF MerchantInv, MerchantTypes, Desk, Away, Filing, Reviewing, Granting
<1>3. a \in DOMAIN applications /\ applications[a].status \notin FinalStatuses
  BY <1>1 DEF MerchantInv, ReviewsAreApart, Holding
<1>4. q.verdict \in ActiveStatuses \cup FinalStatuses
  BY <1>2 DEF Reviewing, ActiveStatuses, FinalStatuses
<1>5. Holding(d)
  BY <1>1 DEF Holding
<1> HIDE DEF a
<1>6. /\ DOMAIN applications' = DOMAIN applications
      /\ applications'[a] = [applications[a] EXCEPT !.status = q.verdict]
      /\ \A b \in DOMAIN applications : b # a => applications'[b] = applications[b]
  BY <1>1, <1>3
<1>7. applications'[a] \in Application
  BY <1>3, <1>4, <1>6 DEF MerchantInv, MerchantTypes, Application
<1>8. ReviewsAreApart' /\ desks' \in [Desks -> Desk]
  BY <1>1, <1>5, <1>6, DeskFreed DEF a
<1>9. MerchantTypes'
  BY <1>1, <1>6, <1>7, <1>8 DEF MerchantInv, MerchantTypes
<1>10. \A b \in DOMAIN applications : applications[b].status = "approved" => b # a
  BY <1>3 DEF FinalStatuses
<1>11. OwnersAgree'
  BY <1>1, <1>6, <1>10, OwnersStay DEF MerchantInv
<1>12. QED
  BY <1>8, <1>9, <1>11 DEF MerchantInv

LEMMA ApprovalPreserves ==
  ASSUME MerchantInv, NEW d \in Desks, ApproveCommit(d),
         NEW a, NEW v, NEW u, a = desks[d].application, v = desks[d].venue,
         u = applications[a].applicant
  PROVE  MerchantInv'
<1> DEFINE q == desks[d]
<1>1. /\ q.step = "grant" /\ OwnerMembers(v) \subseteq {u}
      /\ memberships' = [memberships EXCEPT ![<<v, u>>] = "owner"]
      /\ venues' = [venues EXCEPT ![v].owner = {u}, ![v].verified = TRUE]
      /\ applications' = [applications EXCEPT ![a] = Approved(@, v)]
      /\ Serve(d, Away)
  BY DEF ApproveCommit, Granted
<1>2. q \in Granting
  BY <1>1 DEF MerchantInv, MerchantTypes, Desk, Away, Filing, Reviewing, Granting
<1>3. a \in DOMAIN applications /\ applications[a].status \notin FinalStatuses
  BY <1>1 DEF MerchantInv, ReviewsAreApart, Holding
<1>4. applications[a] \in Application /\ u \in Applicants /\ v \in Venues
  BY <1>2, <1>3 DEF MerchantInv, MerchantTypes, Application, Granting
<1>5. Holding(d)
  BY <1>1 DEF Holding
<1>6. /\ DOMAIN applications' = DOMAIN applications
      /\ applications'[a] = [applications[a] EXCEPT !.status = "approved", !.venue = v]
      /\ \A b \in DOMAIN applications : b # a => applications'[b] = applications[b]
  BY <1>1, <1>3 DEF Approved
<1>7. /\ applications'[a] \in Application
      /\ applications'[a].applicant = u /\ applications'[a].venue = v
      /\ applications'[a].status = "approved"
  BY <1>4, <1>6 DEF Application, FinalStatuses
<1>8. ReviewsAreApart' /\ desks' \in [Desks -> Desk]
  BY <1>1, <1>5, <1>6, DeskFreed
<1>9. /\ venues' \in [Venues -> Venue]
      /\ venues'[v].owner = {u}
      /\ \A w \in Venues \ {v} : venues'[w] = venues[w]
  <2>1. venues[v] \in Venue
    BY <1>4 DEF MerchantInv, MerchantTypes
  <2>2. [venues[v] EXCEPT !.owner = {u}, !.verified = TRUE] \in Venue
    BY <1>4, <2>1 DEF Venue
  <2>3. venues' = [venues EXCEPT ![v] = [venues[v] EXCEPT !.owner = {u}, !.verified = TRUE]]
    BY <1>1, <1>4 DEF MerchantInv, MerchantTypes
  <2>4. [venues[v] EXCEPT !.owner = {u}, !.verified = TRUE].owner = {u}
    BY <2>1 DEF Venue
  <2>5. QED
    BY <1>4, <2>2, <2>3, <2>4 DEF MerchantInv, MerchantTypes
<1>10. /\ memberships' \in [Venues \X Applicants -> {"none", "owner", "manager"}]
       /\ memberships'[<<v, u>>] = "owner"
       /\ \A w \in Venues, x \in Applicants :
            <<w, x>> # <<v, u>> => memberships'[<<w, x>>] = memberships[<<w, x>>]
  BY <1>1, <1>4 DEF MerchantInv, MerchantTypes
<1>11. MerchantTypes'
  BY <1>6, <1>7, <1>8, <1>9, <1>10 DEF MerchantInv, MerchantTypes
<1>12. ASSUME NEW w \in Venues
       PROVE  /\ \A x, y \in venues'[w].owner : x = y
              /\ OwnerMembers(w)' = venues'[w].owner
              /\ \A x \in venues'[w].owner : ApprovedFor(x, w)'
  <2>1. CASE w = v
    <3>1. OwnerMembers(v)' = {u}
      BY <1>1, <1>4, <1>10 DEF OwnerMembers
    <3>2. ApprovedFor(u, v)'
      BY <1>3, <1>6, <1>7 DEF ApprovedFor
    <3>3. venues'[v].owner = {u}
      BY <1>9
    <3>4. QED
      BY <2>1, <3>1, <3>2, <3>3
  <2>2. CASE w # v
    <3>1. OwnerMembers(w)' = OwnerMembers(w) /\ venues'[w] = venues[w]
      BY <1>9, <1>10, <2>2 DEF OwnerMembers
    <3>2. ASSUME NEW x \in venues[w].owner PROVE ApprovedFor(x, w)'
      <4>1. PICK b \in DOMAIN applications :
              /\ applications[b].applicant = x /\ applications[b].venue = w
              /\ applications[b].status = "approved"
        BY <3>2 DEF MerchantInv, OwnersAgree, ApprovedFor
      <4>2. b # a
        BY <1>3, <4>1 DEF FinalStatuses
      <4>3. QED
        BY <1>6, <4>1, <4>2 DEF ApprovedFor
    <3>3. QED
      BY <3>1, <3>2 DEF MerchantInv, OwnersAgree
  <2>3. QED
    BY <2>1, <2>2
<1>13. OwnersAgree'
  BY <1>12 DEF OwnersAgree
<1>14. QED
  BY <1>8, <1>11, <1>13 DEF MerchantInv

\* What a moderator or the owner sets is not the owner.
LEMMA VenuePreserves ==
  ASSUME MerchantInv, NEW v \in Venues, NEW b \in BOOLEAN,
         \/ venues' = [venues EXCEPT ![v].verified = b]
         \/ venues' = [venues EXCEPT ![v].open = b],
         UNCHANGED <<applications, memberships, desks>>
  PROVE  MerchantInv'
<1>1. venues[v] \in Venue
  BY DEF MerchantInv, MerchantTypes
<1>2. /\ [venues[v] EXCEPT !.verified = b] \in Venue
      /\ [venues[v] EXCEPT !.open = b] \in Venue
      /\ [venues[v] EXCEPT !.verified = b].owner = venues[v].owner
      /\ [venues[v] EXCEPT !.open = b].owner = venues[v].owner
  BY <1>1 DEF Venue
<1>3. /\ venues' \in [Venues -> Venue]
      /\ \A w \in Venues : venues'[w].owner = venues[w].owner
  BY <1>1, <1>2 DEF MerchantInv, MerchantTypes
<1>4. MerchantTypes'
  BY <1>3 DEF MerchantInv, MerchantTypes
<1>5. ReviewsAreApart'
  BY DEF MerchantInv, ReviewsAreApart, Holding
<1>6. OwnersAgree'
  BY <1>3, OwnersStay DEF MerchantInv
<1>7. QED
  BY <1>4, <1>5, <1>6 DEF MerchantInv

-----------------------------------------------------------------------------
LEMMA MerchantSteps == MerchantInv /\ [MerchantNext]_merchantVars => MerchantInv'
<1> SUFFICES ASSUME MerchantInv, [MerchantNext]_merchantVars PROVE MerchantInv'
  OBVIOUS
<1>1. CASE UNCHANGED merchantVars
  <2>1. OwnersAgree'
    BY <1>1, OwnersStay DEF merchantVars, MerchantInv
  <2>2. MerchantTypes' /\ ReviewsAreApart'
    BY <1>1 DEF merchantVars, MerchantInv, MerchantTypes, ReviewsAreApart, Holding
  <2>3. QED
    BY <2>1, <2>2 DEF MerchantInv
<1>2. ASSUME NEW d \in Desks, NEW u \in Applicants, NEW v \in Venues, NEW n \in Numbers,
             FileRead(d, u, v, n)
      PROVE  MerchantInv'
  <2> DEFINE q == [step |-> "file", applicant |-> u, venue |-> v, number |-> n]
  <2>1. q \in Desk /\ q.step \notin {"review", "grant"}
    BY DEF Desk, Filing
  <2>2. Serve(d, q) /\ UNCHANGED <<applications, venues, memberships>>
    BY <1>2 DEF FileRead
  <2> HIDE DEF q
  <2>3. QED
    BY <2>1, <2>2, DeskTaken
<1>3. ASSUME NEW d \in Desks, NEW a \in Applications, FileCommit(d, a) PROVE MerchantInv'
  BY <1>3, FilePreserves
<1>4. ASSUME NEW d \in Desks, NEW a \in Applications, NEW v \in Venues,
             NEW s \in FinalStatuses \cup {"under_review"}, ReviewRead(d, a, v, s)
      PROVE  MerchantInv'
  <2> DEFINE q == [step |-> "review", application |-> a, venue |-> v, verdict |-> s]
  <2>1. q \in Desk /\ q.application = a
    BY DEF Desk, Reviewing, FinalStatuses
  <2>2. Serve(d, q) /\ UNCHANGED <<applications, venues, memberships>> /\ Reviewable(a)
    BY <1>4 DEF ReviewRead
  <2> HIDE DEF q
  <2>3. a \in DOMAIN applications /\ applications[a].status \notin FinalStatuses
        /\ \A e \in Desks : Holding(e) => desks[e].application # a
    BY <2>2 DEF Reviewable, ReviewedNow, Holding
  <2>4. QED
    BY <2>1, <2>2, <2>3, DeskTaken
<1>5. ASSUME NEW d \in Desks, ReviewCommit(d) PROVE MerchantInv'
  BY <1>5, VerdictPreserves
<1>6. ASSUME NEW d \in Desks, ApproveRead(d) PROVE MerchantInv'
  <2> DEFINE q == [step |-> "grant", application |-> desks[d].application,
                   venue |-> desks[d].venue]
  <2>1. desks[d] \in Reviewing
    BY <1>6 DEF ApproveRead, MerchantInv, MerchantTypes, Desk, Away, Filing, Reviewing, Granting
  <2>2. q \in Desk /\ q.application = desks[d].application
    BY <2>1 DEF Desk, Reviewing, Granting
  <2>3. Serve(d, q) /\ UNCHANGED <<applications, venues, memberships>> /\ Holding(d)
    BY <1>6 DEF ApproveRead, Holding
  <2> HIDE DEF q
  <2>4. /\ desks[d].application \in DOMAIN applications
        /\ applications[desks[d].application].status \notin FinalStatuses
        /\ \A e \in Desks \ {d} : Holding(e) => desks[e].application # desks[d].application
    BY <2>3 DEF MerchantInv, ReviewsAreApart
  <2>5. QED
    BY <2>2, <2>3, <2>4, DeskTaken
<1>7. ASSUME NEW d \in Desks, ApproveCommit(d) PROVE MerchantInv'
  BY <1>7, ApprovalPreserves
<1>8. ASSUME NEW d \in Desks, Leave(d) PROVE MerchantInv'
  <2>1. Away \in Desk /\ Away.step \notin {"review", "grant"}
    BY DEF Desk, Away
  <2>2. QED
    BY <1>8, <2>1, DeskTaken DEF Leave
<1>9. ASSUME NEW v \in Venues, NEW b \in BOOLEAN, Moderate(v, b) PROVE MerchantInv'
  BY <1>9, VenuePreserves DEF Moderate
<1>10. ASSUME NEW v \in Venues, NEW u \in Applicants, NEW b \in BOOLEAN, SetOpen(v, u, b)
       PROVE  MerchantInv'
  BY <1>10, VenuePreserves DEF SetOpen
<1>11. QED
  BY <1>1, <1>2, <1>3, <1>4, <1>5, <1>6, <1>7, <1>8, <1>9, <1>10
     DEF MerchantNext, Owning, Review

LEMMA AgreementSuffices == MerchantInv => OwnersWereApproved
<1> SUFFICES ASSUME MerchantInv, NEW v \in Venues
             PROVE  /\ Cardinality(venues[v].owner) <= 1
                    /\ OwnerMembers(v) = venues[v].owner
                    /\ \A u \in venues[v].owner : ApprovedFor(u, v)
  BY DEF OwnersWereApproved, ApprovedFor
<1>1. CASE venues[v].owner = {}
  BY <1>1, FS_EmptySet DEF MerchantInv, OwnersAgree
<1>2. CASE venues[v].owner # {}
  <2>1. PICK u \in venues[v].owner : venues[v].owner = {u}
    BY <1>2 DEF MerchantInv, OwnersAgree
  <2>2. Cardinality(venues[v].owner) = 1
    BY <2>1, FS_Singleton
  <2>3. QED
    BY <2>2 DEF MerchantInv, OwnersAgree
<1>3. QED
  BY <1>1, <1>2

\* Whoever owns a restaurant, in its row and in the memberships alike, is the one
\* member whose application for it was approved (admin.py:318, :344, :385).
THEOREM EveryOwnerWasApproved == MerchantSpec => []OwnersWereApproved
<1>1. MerchantInit => MerchantInv
  BY MerchantStarts
<1>2. MerchantInv /\ [MerchantNext]_merchantVars => MerchantInv'
  BY MerchantSteps
<1>3. MerchantInv => OwnersWereApproved
  BY AgreementSuffices
<1>4. QED
  BY <1>1, <1>2, <1>3, PTL DEF MerchantSpec

LEMMA VerdictsStand ==
  MerchantInv /\ [MerchantNext]_merchantVars =>
    [\A a \in DOMAIN applications : applications[a].status \in FinalStatuses =>
        applications'[a] = applications[a]]_merchantVars
<1> SUFFICES ASSUME MerchantInv, MerchantNext, NEW a \in DOMAIN applications,
                    applications[a].status \in FinalStatuses
             PROVE  applications'[a] = applications[a]
  BY DEF merchantVars
<1>1. ASSUME NEW d \in Desks, NEW b \in Applications, FileCommit(d, b)
      PROVE  applications'[a] = applications[a]
  BY <1>1 DEF FileCommit
<1>2. ASSUME NEW d \in Desks, ReviewCommit(d) PROVE applications'[a] = applications[a]
  <2>1. desks[d].application # a
    BY <1>2 DEF ReviewCommit, MerchantInv, ReviewsAreApart, Holding
  <2>2. QED
    BY <1>2, <2>1 DEF ReviewCommit
<1>3. ASSUME NEW d \in Desks, ApproveCommit(d) PROVE applications'[a] = applications[a]
  <2>1. desks[d].application # a
    BY <1>3 DEF ApproveCommit, MerchantInv, ReviewsAreApart, Holding
  <2>2. QED
    BY <1>3, <2>1 DEF ApproveCommit
<1>4. QED
  BY <1>1, <1>2, <1>3
     DEF MerchantNext, Owning, Review, FileRead, ReviewRead, ApproveRead, Leave, Moderate, SetOpen

\* A verdict that an administrator gave for good is not overturned by a review
\* that was open at the time (admin.py:318).
THEOREM NoVerdictIsOverturned == MerchantSpec => VerdictsAreFinal
<1>1. MerchantInit => MerchantInv
  BY MerchantStarts
<1>2. MerchantInv /\ [MerchantNext]_merchantVars => MerchantInv'
  BY MerchantSteps
<1>3. MerchantInv /\ [MerchantNext]_merchantVars =>
        [\A a \in DOMAIN applications : applications[a].status \in FinalStatuses =>
            applications'[a] = applications[a]]_merchantVars
  BY VerdictsStand
<1>4. QED
  BY <1>1, <1>2, <1>3, PTL DEF MerchantSpec, VerdictsAreFinal
=============================================================================
