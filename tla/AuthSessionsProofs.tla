------------------------- MODULE AuthSessionsProofs -------------------------
(***************************************************************************)
(* For any accounts, sessions and number of requests: nobody acts as a     *)
(* member without having shown a password or a Google token, one upgrade   *)
(* of a guest wins, a refresh token works until its client exchanges it,   *)
(* a session that was revoked stays so, the public web site stops serving  *)
(* an account that became an administrator's once the requests that were   *)
(* under way have ended, and every member can sign in again.               *)
(*                                                                         *)
(* A session is bound to the guest or the member it was issued to, and     *)
(* those of members were proved when they were issued.  A rotation holds   *)
(* the lock of its session, which no other rotation and no revocation      *)
(* passes.  Every late answer uses up a request that had read the account  *)
(* before it was promoted, and none begins after that.                     *)
(***************************************************************************)
EXTENDS AuthSessions, FiniteSetTheorems, TLAPS

Shape ==
    /\ users \in [Users -> User \cup {None}]
    /\ identities \in [Subjects -> Users \cup {None}]
    /\ sessions \in [Sessions -> Session \cup {None}]
    /\ requests \in [Requests -> Request]
    /\ upgrades \in [Users -> {0, 1}]
    /\ late \in [Users -> Nat]

Rotating(r) == requests[r].step = "refresh"

Rotated(s) == \E r \in Requests : Rotating(r) /\ requests[r].session = s

\* A rotation holds its session alone, and as it read it; no promotion holds it.
LocksHold ==
    /\ \A r \in Requests : Rotating(r) =>
         /\ requests[r].session \in Rows
         /\ ~sessions[requests[r].session].revoked
         /\ sessions[requests[r].session].rotation = requests[r].rotation
    /\ \A r, t \in Requests :
         Rotating(r) /\ Rotating(t) /\ requests[r].session = requests[t].session => r = t
    /\ \A r, t \in Requests :
         Rotating(r) /\ requests[t].step = "provisioned" => requests[r].session \notin requests[t].closed

\* What a request refers to is there, and is never deleted; a member stays one.
Refers(q) ==
    /\ q.step \in {"register", "google", "signin", "join"} => q.principal \in Rows \cup {None}
    /\ q.step = "scan" => q.principal \in Rows
    /\ q.step \in {"login", "signin"} => users[q.user] # None /\ ~users[q.user].guest
    /\ q.step \in {"provision", "provisioned"} /\ q.user # None =>
         users[q.user] # None /\ ~users[q.user].guest
    /\ q.step = "provisioned" => q.closed \subseteq Rows
    /\ q.step = "reject" => q.session \in Rows

\* The account of a session is there: of a member's session, a member.
Held(U, row) == U[row.user] # None /\ (row.guest \/ ~U[row.user].guest)

AccountsExist ==
    /\ \A s \in Rows : Held(users, sessions[s])
    /\ \A g \in Subjects : identities[g] # None =>
         users[identities[g]] # None /\ ~users[identities[g]].guest

\* Members, and they alone, have an email; it is theirs alone, and they have a
\* password or a Google account, which is theirs alone.  No guest is an administrator.
Returning ==
    /\ \A u \in Users : users[u] # None =>
         /\ users[u].guest <=> users[u].email = None
         /\ users[u].guest => ~users[u].admin
         /\ \/ users[u].guest
            \/ users[u].password # None
            \/ \E g \in Subjects : identities[g] = u
    /\ \A g, h \in Subjects : identities[g] = identities[h] /\ identities[g] # None => g = h
    /\ \A u, v \in Users :
         /\ users[u] # None /\ users[v] # None
         /\ users[u].email = users[v].email /\ users[u].email # None
         => u = v

\* A session of a member was proved, and no session lost a token.
Sound(row) == (row.guest \/ row.proof) /\ ~row.lost

\* Who was upgraded is a member.
UpgradedAreMembers ==
    \A u \in Users : upgrades[u] = 1 => users[u] # None /\ ~users[u].guest

\* A request that may answer with tokens of u, and one that has read it before
\* it was an administrator's.
About(q, u) ==
    \/ q.step \in {"login", "signin"} /\ q.user = u
    \/ q.step = "join" /\ q.principal # None /\ sessions[q.principal].user = u
    \/ q.step = "refresh" /\ sessions[q.session].user = u
Outdated(q, u) == About(q, u) /\ ~q.admin
Stale(u) == {r \in Requests : Outdated(requests[r], u)}

LateCounted ==
    \A u \in Users :
        /\ ~Admin(u) => late[u] = 0
        /\ Admin(u) => late[u] + Cardinality(Stale(u)) <= Cardinality(Requests) - 1

AuthInv ==
    /\ Shape /\ LocksHold /\ AccountsExist /\ Returning /\ UpgradedAreMembers /\ LateCounted
    /\ \A r \in Requests : Refers(requests[r])
    /\ \A s \in Rows : Sound(sessions[s])

\* A step that leaves revoked sessions revoked.
RevokedStays ==
    \A s \in Rows : sessions[s].revoked =>
        sessions'[s].revoked /\ sessions'[s].rotation = sessions[s].rotation

\* A step that deletes no account, makes no member a guest, takes no role, and
\* keeps members able to return.
UsersGrow ==
    /\ users' \in [Users -> User \cup {None}]
    /\ identities' \in [Subjects -> Users \cup {None}]
    /\ \A u \in Users : users[u] # None =>
         users'[u] # None /\ (~users[u].guest => ~users'[u].guest)
    /\ \A u \in Users : Admin(u) => Admin(u)'
    /\ \A g \in Subjects : identities'[g] # None =>
         users'[identities'[g]] # None /\ ~users'[identities'[g]].guest
    /\ Returning'

\* What issuing and revoking may do to the sessions.
SessionsMove ==
    /\ sessions' \in [Sessions -> Session \cup {None}]
    /\ \A s \in Rows :
         /\ sessions'[s] # None
         /\ Rotated(s) => sessions'[s] = sessions[s]
         /\ sessions'[s].rotation = sessions[s].rotation
         /\ sessions'[s].user = sessions[s].user
    /\ \A s \in Sessions : sessions'[s] # None =>
         Sound(sessions'[s]) /\ Held(users', sessions'[s])
    /\ RevokedStays

\* What q holds no rotation does.
Apart(q) == q.step = "provisioned" => \A s \in q.closed : ~Rotated(s)

\* What a request may do to the requests, other than to rotate.
RequestsMove ==
    /\ requests' \in [Requests -> Request]
    /\ \A r \in Requests :
         \/ requests'[r] = requests[r]
         \/ ~Rotating(r)' /\ Refers(requests[r])' /\ Apart(requests'[r])

UpgradesCount == upgrades' \in [Users -> {0, 1}] /\ UpgradedAreMembers'

LateCounts == late' \in [Users -> Nat] /\ LateCounted'

-----------------------------------------------------------------------------
LEMMA AuthStarts == Init => AuthInv
<1> SUFFICES ASSUME Init PROVE AuthInv
  OBVIOUS
<1>1. requests \in [Requests -> Request]
  BY DEF Init, Request
<1>2. Shape
  BY <1>1 DEF Init, Shape
<1>3. Rows = {}
  BY DEF Init, Rows
<1>4. LocksHold
  BY DEF Init, LocksHold, Rotating, Idle
<1>5. AccountsExist
  BY <1>3 DEF Init, AccountsExist
<1>6. Returning
  BY DEF Init, Returning
<1>7. UpgradedAreMembers
  BY DEF Init, UpgradedAreMembers
<1>8. \A r \in Requests : Refers(requests[r])
  BY DEF Init, Refers, Idle
<1>9. LateCounted
  BY DEF Init, LateCounted, Admin
<1>10. QED
  BY <1>2, <1>3, <1>4, <1>5, <1>7, <1>8, <1>6, <1>9 DEF AuthInv

\* A request is of the kind that its step names.
LEMMA RequestKinds ==
  ASSUME NEW q \in Request
  PROVE  /\ q.step = "register" => q \in Register
         /\ q.step = "login" => q \in Login
         /\ q.step = "google" => q \in Google
         /\ q.step = "signin" => q \in SignIn
         /\ q.step = "join" => q \in Join
         /\ q.step = "scan" => q \in Scan
         /\ q.step = "refresh" => q \in Refresh
         /\ q.step = "reject" => q \in Reject
         /\ q.step = "provision" => q \in Provision
         /\ q.step = "provisioned" => q \in Provisioned
  BY DEF Request, Idle, Register, Login, Google, SignIn, Join, Scan, Refresh, Reject, Provision,
         Provisioned

LEMMA RowShape ==
  ASSUME AuthInv, NEW s \in Rows
  PROVE  /\ s \in Sessions /\ sessions[s] \in Session /\ Sound(sessions[s])
         /\ sessions[s].user \in Users /\ users[sessions[s].user] \in User
<1>1. s \in Sessions /\ sessions[s] \in Session /\ Sound(sessions[s])
  BY DEF AuthInv, Shape, Rows
<1>2. sessions[s].user \in Users
  BY <1>1 DEF Session
<1>3. users[sessions[s].user] \in User
  BY <1>2 DEF AuthInv, Shape, AccountsExist, Held
<1>4. QED
  BY <1>1, <1>2, <1>3

LEMMA ClosedRow ==
  ASSUME NEW row \in Session
  PROVE  /\ Closed(row) \in Session
         /\ Closed(row).revoked /\ Closed(row).rotation = row.rotation
         /\ Closed(row).user = row.user /\ Closed(row).guest = row.guest
         /\ Sound(row) => Sound(Closed(row))
  BY DEF Closed, Session, Knowledge, Sound

LEMMA NewRow ==
  ASSUME NEW u \in Users, NEW guest \in BOOLEAN, NEW surface \in Surfaces,
         NEW proof \in BOOLEAN, NEW known \in Knowledge, guest \/ proof
  PROVE  /\ NewSession(u, guest, surface, proof, known) \in Session
         /\ Sound(NewSession(u, guest, surface, proof, known))
         /\ NewSession(u, guest, surface, proof, known).user = u
         /\ NewSession(u, guest, surface, proof, known).guest = guest
  BY DEF NewSession, Session, Sound

-----------------------------------------------------------------------------
(* What issuing and revoking keep.                                         *)

\* A row of the table is left or, when nobody rotates it, closed.
LEMMA RowMoves ==
  ASSUME AuthInv, UsersGrow, NEW t \in Rows,
         \/ sessions'[t] = sessions[t]
         \/ ~Rotated(t) /\ sessions'[t] = Closed(sessions[t])
  PROVE  /\ sessions'[t] \in Session /\ sessions'[t] # None
         /\ Rotated(t) => sessions'[t] = sessions[t]
         /\ sessions'[t].rotation = sessions[t].rotation /\ sessions'[t].user = sessions[t].user
         /\ Sound(sessions'[t]) /\ Held(users', sessions'[t])
         /\ sessions[t].revoked =>
              sessions'[t].revoked /\ sessions'[t].rotation = sessions[t].rotation /\ sessions'[t].user = sessions[t].user
<1>1. /\ sessions[t] \in Session /\ Sound(sessions[t])
      /\ Held(users', sessions[t])
  BY RowShape DEF UsersGrow, AuthInv, AccountsExist, Held
<1>2. None \notin Session
  BY NoneIsNoAccount
<1>3. CASE sessions'[t] = sessions[t]
  BY <1>1, <1>2, <1>3
<1>4. CASE ~Rotated(t) /\ sessions'[t] = Closed(sessions[t])
  BY <1>1, <1>2, <1>4, ClosedRow DEF Held
<1>5. QED
  BY <1>3, <1>4

LEMMA IssueMoves ==
  ASSUME AuthInv, UsersGrow, NEW s \in Sessions, NEW row \in Session, Sound(row),
         Held(users', row), NEW S, S \subseteq Rows, Issue(s, row, S)
  PROVE  SessionsMove
<1>1. /\ sessions[s] = None
      /\ \A t \in S : ~Rotated(t)
      /\ sessions' = [t \in Sessions |-> IF t = s THEN row
                                         ELSE IF t \in S THEN Closed(sessions[t])
                                         ELSE sessions[t]]
  BY DEF Issue, Locked, Rotated, Rotating
<1>2. s \notin Rows
  BY <1>1 DEF Rows
<1>3. sessions'[s] = row
  BY <1>1
<1>4. \A t \in Rows : \/ sessions'[t] = sessions[t]
                      \/ ~Rotated(t) /\ sessions'[t] = Closed(sessions[t])
  BY <1>1, <1>2 DEF Rows
<1>5. \A t \in Sessions \ Rows : t # s => sessions'[t] = None
  BY <1>1 DEF Rows
<1>6. \A t \in Rows :
        /\ sessions'[t] \in Session /\ sessions'[t] # None
        /\ Rotated(t) => sessions'[t] = sessions[t]
        /\ sessions'[t].rotation = sessions[t].rotation /\ sessions'[t].user = sessions[t].user
        /\ Sound(sessions'[t]) /\ Held(users', sessions'[t])
        /\ sessions[t].revoked =>
             sessions'[t].revoked /\ sessions'[t].rotation = sessions[t].rotation /\ sessions'[t].user = sessions[t].user
  BY <1>4, RowMoves
<1>7. \A t \in Sessions : sessions'[t] \in Session \cup {None}
  BY <1>3, <1>5, <1>6
<1>8. sessions' \in [Sessions -> Session \cup {None}]
  BY <1>1, <1>7
<1>9. \A t \in Sessions : sessions'[t] # None =>
        Sound(sessions'[t]) /\ Held(users', sessions'[t])
  BY <1>3, <1>5, <1>6
<1>10. QED
  BY <1>6, <1>8, <1>9 DEF SessionsMove, RevokedStays

LEMMA CloseMoves ==
  ASSUME AuthInv, UsersGrow, NEW S, S \subseteq Rows, Close(S), \A t \in S : ~Rotated(t)
  PROVE  SessionsMove
<1>1. sessions' = [t \in Sessions |-> IF t \in S THEN Closed(sessions[t]) ELSE sessions[t]]
  BY DEF Close
<1>2. \A t \in Rows : \/ sessions'[t] = sessions[t]
                      \/ ~Rotated(t) /\ sessions'[t] = Closed(sessions[t])
  BY <1>1 DEF Rows
<1>3. \A t \in Sessions \ Rows : sessions'[t] = None
  BY <1>1 DEF Rows
<1>4. \A t \in Rows :
        /\ sessions'[t] \in Session /\ sessions'[t] # None
        /\ Rotated(t) => sessions'[t] = sessions[t]
        /\ sessions'[t].rotation = sessions[t].rotation /\ sessions'[t].user = sessions[t].user
        /\ Sound(sessions'[t]) /\ Held(users', sessions'[t])
        /\ sessions[t].revoked =>
             sessions'[t].revoked /\ sessions'[t].rotation = sessions[t].rotation /\ sessions'[t].user = sessions[t].user
  BY <1>2, RowMoves
<1>5. sessions' \in [Sessions -> Session \cup {None}]
  BY <1>1, <1>3, <1>4
<1>6. \A t \in Sessions : sessions'[t] # None =>
        Sound(sessions'[t]) /\ Held(users', sessions'[t])
  BY <1>3, <1>4
<1>7. QED
  BY <1>4, <1>5, <1>6 DEF SessionsMove, RevokedStays

LEMMA RevokeMoves ==
  ASSUME AuthInv, UsersGrow, NEW S, S \subseteq Rows, Revoke(S)
  PROVE  SessionsMove
<1>1. Close(S) /\ \A t \in S : ~Rotated(t)
  BY DEF Revoke, Locked, Rotated, Rotating
<1>2. QED
  BY <1>1, CloseMoves

LEMMA SessionsStay ==
  ASSUME AuthInv, UsersGrow, sessions' = sessions
  PROVE  SessionsMove
<1>1. \A t \in Rows :
        /\ sessions'[t] \in Session /\ sessions'[t] # None
        /\ Rotated(t) => sessions'[t] = sessions[t]
        /\ sessions'[t].rotation = sessions[t].rotation /\ sessions'[t].user = sessions[t].user
        /\ Sound(sessions'[t]) /\ Held(users', sessions'[t])
        /\ sessions[t].revoked =>
             sessions'[t].revoked /\ sessions'[t].rotation = sessions[t].rotation /\ sessions'[t].user = sessions[t].user
  BY RowMoves
<1>2. \A t \in Sessions : sessions'[t] # None => t \in Rows
  BY DEF Rows
<1>3. QED
  BY <1>1, <1>2 DEF SessionsMove, RevokedStays, AuthInv, Shape

-----------------------------------------------------------------------------
(* What the steps share.                                                   *)

LEMMA UsersStay ==
  ASSUME AuthInv, UNCHANGED <<users, identities>>
  PROVE  UsersGrow /\ \A u \in Users : Admin(u)' = Admin(u)
  BY DEF AuthInv, Shape, AccountsExist, Returning, UsersGrow, Admin

LEMMA UpgradesStay ==
  ASSUME AuthInv, UNCHANGED <<users, upgrades>>
  PROVE  UpgradesCount
  BY DEF AuthInv, Shape, UpgradedAreMembers, UpgradesCount

\* What is referred to is still there after the step.
LEMMA ReferencesLast ==
  ASSUME AuthInv, SessionsMove, UsersGrow, NEW q \in Request, Refers(q)
  PROVE  Refers(q)'
<1>1. Rows \subseteq Rows'
  BY DEF SessionsMove, Rows
<1>2. q.step \in {"login", "signin"} => q.user \in Users
  BY RequestKinds DEF Login, SignIn
<1>3. q.step \in {"provision", "provisioned"} => q.user \in Users \cup {None}
  BY RequestKinds DEF Provision, Provisioned
<1>4. QED
  BY <1>1, <1>2, <1>3 DEF Refers, UsersGrow

LEMMA RequestsStay ==
  ASSUME AuthInv, requests' = requests
  PROVE  RequestsMove
  BY DEF AuthInv, Shape, RequestsMove

LEMMA RequestGoes ==
  ASSUME AuthInv, NEW r \in Requests, NEW q \in Request, Go(r, q), q.step # "refresh",
         Refers(q)', Apart(q)
  PROVE  RequestsMove
<1>1. requests' \in [Requests -> Request] /\ requests'[r] = q
      /\ \A t \in Requests \ {r} : requests'[t] = requests[t]
  BY DEF AuthInv, Shape, Go
<1>2. Refers(requests[r])'
  BY <1>1 DEF Refers
<1>3. Apart(requests'[r])
  BY <1>1
<1>4. QED
  BY <1>1, <1>2, <1>3 DEF RequestsMove, Rotating

\* Every step but a rotation is put together from these.
LEMMA MovesKeep ==
  ASSUME AuthInv, UsersGrow, SessionsMove, RequestsMove, UpgradesCount, LateCounts
  PROVE  AuthInv' /\ RevokedStays
<1>1. Shape'
  BY DEF Shape, UsersGrow, SessionsMove, RequestsMove, UpgradesCount, LateCounts
<1>2. Rows \subseteq Rows'
  BY DEF SessionsMove, Rows
<1>3. ASSUME NEW r \in Requests, Rotating(r)'
      PROVE  /\ requests'[r] = requests[r] /\ Rotating(r)
             /\ requests[r].session \in Rows /\ Rotated(requests[r].session)
             /\ sessions'[requests[r].session] = sessions[requests[r].session]
  <2>1. requests'[r] = requests[r] /\ Rotating(r)
    BY <1>3 DEF RequestsMove, Rotating
  <2>2. requests[r].session \in Rows /\ Rotated(requests[r].session)
    BY <2>1 DEF AuthInv, LocksHold, Rotated
  <2>3. QED
    BY <2>1, <2>2 DEF SessionsMove
<1>4. LocksHold'
  <2>1. \A r \in Requests : Rotating(r)' =>
          /\ requests'[r].session \in Rows'
          /\ ~sessions'[requests'[r].session].revoked
          /\ sessions'[requests'[r].session].rotation = requests'[r].rotation
    BY <1>2, <1>3 DEF AuthInv, LocksHold
  <2>2. \A r, t \in Requests :
          Rotating(r)' /\ Rotating(t)' /\ requests'[r].session = requests'[t].session => r = t
    BY <1>3 DEF AuthInv, LocksHold
  <2>3. ASSUME NEW r \in Requests, NEW t \in Requests, Rotating(r)',
               requests'[t].step = "provisioned"
        PROVE  requests'[r].session \notin requests'[t].closed
    <3>1. CASE requests'[t] = requests[t]
      BY <1>3, <2>3, <3>1 DEF AuthInv, LocksHold
    <3>2. CASE requests'[t] # requests[t]
      BY <1>3, <2>3, <3>2 DEF RequestsMove, Apart
    <3>3. QED
      BY <3>1, <3>2
  <2>4. QED
    BY <2>1, <2>2, <2>3 DEF LocksHold
<1>5. AccountsExist'
  BY DEF AccountsExist, SessionsMove, UsersGrow, Rows
<1>6. Returning'
  BY DEF UsersGrow
<1>7. ASSUME NEW r \in Requests PROVE Refers(requests[r])'
  <2>1. CASE requests'[r] = requests[r]
    <3>1. requests[r] \in Request /\ Refers(requests[r])
      BY DEF AuthInv, Shape
    <3>2. \A q \in Request : Refers(q) => Refers(q)'
      BY ReferencesLast
    <3>3. PICK q \in Request : q = requests[r]
      BY <3>1
    <3>4. Refers(q)'
      BY <3>1, <3>2, <3>3
    <3>5. QED
      BY <2>1, <3>3, <3>4 DEF Refers
  <2>2. CASE requests'[r] # requests[r]
    BY <2>2 DEF RequestsMove
  <2>3. QED
    BY <2>1, <2>2
<1>8. \A s \in Rows' : Sound(sessions'[s])
  BY DEF SessionsMove, Rows
<1>9. QED
  BY <1>1, <1>4, <1>5, <1>7, <1>6, <1>8 DEF AuthInv, UpgradesCount, LateCounts, SessionsMove

-----------------------------------------------------------------------------
(* Late answers.                                                           *)

LEMMA StaleFinite ==
  ASSUME NEW u
  PROVE  /\ IsFiniteSet(Stale(u)) /\ Stale(u) \subseteq Requests
         /\ Cardinality(Stale(u)) \in Nat /\ Cardinality(Requests) \in Nat
  BY AuthAssumptions, FS_Subset, FS_CardinalityType DEF Stale

\* A request that is not outdated leaves the set of those that are.
LEMMA StaleShrinks ==
  ASSUME AuthInv, SessionsMove, NEW r \in Requests, NEW q, Go(r, q), NEW u, ~Outdated(q, u)'
  PROVE  Stale(u)' \subseteq Stale(u) \ {r}
<1>1. requests'[r] = q /\ \A t \in Requests \ {r} : requests'[t] = requests[t]
  BY DEF AuthInv, Shape, Go
<1>2. ~Outdated(requests[r], u)'
  BY <1>1 DEF Outdated, About
<1>3. ASSUME NEW t \in Requests \ {r}, Outdated(requests[t], u)' PROVE Outdated(requests[t], u)
  <2>1. requests'[t] = requests[t] /\ Refers(requests[t])
    BY <1>1 DEF AuthInv
  <2>2. Rotating(t) => requests[t].session \in Rows
    BY DEF AuthInv, LocksHold
  <2>3. \A s \in Rows : sessions'[s].user = sessions[s].user
    BY DEF SessionsMove
  <2>4. QED
    BY <1>3, <2>1, <2>2, <2>3 DEF Outdated, About, Refers, Rotating
<1>4. QED
  BY <1>2, <1>3 DEF Stale

LEMMA StaleStays ==
  ASSUME AuthInv, SessionsMove, requests' = requests, NEW u
  PROVE  Stale(u)' \subseteq Stale(u)
<1>1. ASSUME NEW t \in Requests, Outdated(requests[t], u)' PROVE Outdated(requests[t], u)
  <2>1. requests'[t] = requests[t] /\ Refers(requests[t])
    BY DEF AuthInv
  <2>2. Rotating(t) => requests[t].session \in Rows
    BY DEF AuthInv, LocksHold
  <2>3. \A s \in Rows : sessions'[s].user = sessions[s].user
    BY DEF SessionsMove
  <2>4. QED
    BY <1>1, <2>1, <2>2, <2>3 DEF Outdated, About, Refers, Rotating
<1>2. QED
  BY <1>1 DEF Stale

\* No answer is given, nobody is promoted, and no request becomes outdated.
LEMMA LateStays ==
  ASSUME AuthInv, UsersGrow, late' = late, \A u \in Users : Admin(u)' => Admin(u),
         \A u \in Users : Admin(u) => Stale(u)' \subseteq Stale(u)
  PROVE  LateCounts
<1> SUFFICES ASSUME NEW u \in Users
             PROVE  /\ ~Admin(u)' => late'[u] = 0
                    /\ Admin(u)' =>
                         late'[u] + Cardinality(Stale(u))' <= Cardinality(Requests) - 1
  BY DEF LateCounts, LateCounted, AuthInv, Shape
<1>1. /\ late[u] \in Nat
      /\ ~Admin(u) => late[u] = 0
      /\ Admin(u) => late[u] + Cardinality(Stale(u)) <= Cardinality(Requests) - 1
  BY DEF AuthInv, Shape, LateCounted
<1>2. CASE Admin(u)'
  <2>1. Admin(u) /\ Stale(u)' \subseteq Stale(u)
    BY <1>2
  <2>2. Cardinality(Stale(u))' \in Nat /\ Cardinality(Stale(u))' <= Cardinality(Stale(u))
    BY <2>1, StaleFinite, FS_Subset, FS_CardinalityType
  <2>3. QED
    BY <1>1, <1>2, <2>1, <2>2, StaleFinite
<1>3. CASE ~Admin(u)'
  BY <1>1, <1>3 DEF UsersGrow
<1>4. QED
  BY <1>2, <1>3

\* A request about v ends with an answer, and v's browser gets tokens only from
\* one that is outdated.
LEMMA LateAnswers ==
  ASSUME AuthInv, UsersGrow, \A u \in Users : Admin(u)' => Admin(u),
         NEW r \in Requests, NEW v \in Users, NEW surface, NEW m \in BOOLEAN,
         Answer(v, surface, m), About(requests[r], v),
         surface = "web" /\ ~m => ~requests[r].admin,
         \A u \in Users : Stale(u)' \subseteq Stale(u) \ {r}
  PROVE  LateCounts
<1>1. late \in [Users -> Nat]
  BY DEF AuthInv, Shape
<1>2. CASE late' = late
  <2>1. \A u \in Users : Admin(u) => Stale(u)' \subseteq Stale(u)
    OBVIOUS
  <2>2. QED
    BY <1>2, <2>1, LateStays
<1>3. CASE late' # late
  <2>1. /\ surface = "web" /\ ~m /\ users[v].admin
        /\ late' = [late EXCEPT ![v] = @ + 1]
    BY <1>3 DEF Answer
  <2>2. late' \in [Users -> Nat] /\ late'[v] = late[v] + 1
        /\ \A u \in Users \ {v} : late'[u] = late[u]
    BY <1>1, <2>1
  <2>3. r \in Stale(v)
    BY <2>1 DEF Stale, Outdated
  <2>4. users[v] # None
    <3>1. Refers(requests[r]) /\ (Rotating(r) => requests[r].session \in Rows)
      BY DEF AuthInv, LocksHold
    <3>2. \A s \in Rows : users[sessions[s].user] # None
      BY DEF AuthInv, AccountsExist, Held
    <3>3. QED
      BY <3>1, <3>2 DEF Refers, About, Rotating
  <2>5. ASSUME NEW u \in Users
        PROVE  /\ ~Admin(u)' => late'[u] = 0
               /\ Admin(u)' =>
                    late'[u] + Cardinality(Stale(u))' <= Cardinality(Requests) - 1
    <3>1. /\ late[u] \in Nat
          /\ ~Admin(u) => late[u] = 0
          /\ Admin(u) => late[u] + Cardinality(Stale(u)) <= Cardinality(Requests) - 1
      BY DEF AuthInv, Shape, LateCounted
    <3>2. Admin(u)' <=> Admin(u)
      BY DEF UsersGrow
    <3>3. Cardinality(Stale(u))' \in Nat
          /\ Cardinality(Stale(u))' <= Cardinality(Stale(u) \ {r})
      BY StaleFinite, FS_RemoveElement, FS_Subset, FS_CardinalityType
    <3>4. Cardinality(Stale(u) \ {r})
            = IF r \in Stale(u) THEN Cardinality(Stale(u)) - 1 ELSE Cardinality(Stale(u))
      BY StaleFinite, FS_RemoveElement
    <3>5. CASE u = v
      <4>1. Admin(u)
        BY <2>1, <2>4, <3>5 DEF Admin
      <4>2. late'[u] = late[u] + 1 /\ Cardinality(Stale(u))' <= Cardinality(Stale(u)) - 1
        BY <2>2, <2>3, <3>3, <3>4, <3>5
      <4>3. QED
        BY <3>1, <3>2, <3>3, <4>1, <4>2, StaleFinite
    <3>6. CASE u # v
      <4>1. late'[u] = late[u] /\ Cardinality(Stale(u))' <= Cardinality(Stale(u))
        BY <2>2, <3>3, <3>4, <3>6, StaleFinite
      <4>2. QED
        BY <3>1, <3>2, <3>3, <4>1, StaleFinite
    <3>7. QED
      BY <3>5, <3>6
  <2>6. QED
    BY <2>2, <2>5 DEF LateCounts, LateCounted
<1>4. QED
  BY <1>2, <1>3

\* The promotion of v: every other request may be outdated by it.
LEMMA LatePromotes ==
  ASSUME AuthInv, UsersGrow, late' = late, NEW r \in Requests, NEW v \in Users,
         \A u \in Users \ {v} : Admin(u)' => Admin(u),
         \A u \in Users : Stale(u)' \subseteq Stale(u) \ {r}
  PROVE  LateCounts
<1> SUFFICES ASSUME NEW u \in Users
             PROVE  /\ ~Admin(u)' => late'[u] = 0
                    /\ Admin(u)' =>
                         late'[u] + Cardinality(Stale(u))' <= Cardinality(Requests) - 1
  BY DEF LateCounts, LateCounted, AuthInv, Shape
<1>1. /\ late[u] \in Nat
      /\ ~Admin(u) => late[u] = 0
      /\ Admin(u) => late[u] + Cardinality(Stale(u)) <= Cardinality(Requests) - 1
  BY DEF AuthInv, Shape, LateCounted
<1>2. /\ Cardinality(Stale(u))' \in Nat
      /\ Cardinality(Stale(u))' <= Cardinality(Stale(u))
      /\ Cardinality(Stale(u))' <= Cardinality(Requests \ {r})
  <2>1. Stale(u)' \subseteq Stale(u) /\ Stale(u)' \subseteq Requests \ {r}
    BY StaleFinite
  <2>2. IsFiniteSet(Requests \ {r})
    BY AuthAssumptions, FS_RemoveElement
  <2>3. QED
    BY <2>1, <2>2, StaleFinite, FS_Subset, FS_CardinalityType
<1>3. Cardinality(Requests \ {r}) = Cardinality(Requests) - 1
  BY AuthAssumptions, FS_RemoveElement
<1>4. CASE Admin(u)
  BY <1>1, <1>2, <1>4, StaleFinite DEF UsersGrow
<1>5. CASE ~Admin(u)
  BY <1>1, <1>2, <1>3, <1>5, StaleFinite
<1>6. QED
  BY <1>4, <1>5

-----------------------------------------------------------------------------
(* Requests that read.                                                     *)

LEMMA ReadKeeps ==
  ASSUME AuthInv, NEW r \in Requests, NEW q \in Request, Go(r, q), q.step # "refresh",
         Refers(q), Apart(q), \A u \in Users : Admin(u) => ~Outdated(q, u),
         UNCHANGED <<users, identities, sessions, upgrades, late>>
  PROVE  AuthInv' /\ RevokedStays
<1>1. UsersGrow /\ \A u \in Users : Admin(u)' = Admin(u)
  BY UsersStay
<1>2. SessionsMove
  BY <1>1, SessionsStay
<1>3. Refers(q)'
  BY <1>1, <1>2, ReferencesLast
<1>4. RequestsMove
  BY <1>3, RequestGoes
<1>5. UpgradesCount
  BY UpgradesStay
<1>6. \A u \in Users : Admin(u) => Stale(u)' \subseteq Stale(u)
  <2> SUFFICES ASSUME NEW u \in Users, Admin(u) PROVE Stale(u)' \subseteq Stale(u)
    OBVIOUS
  <2>1. ~Outdated(q, u)'
    BY DEF Outdated, About
  <2>2. Stale(u)' \subseteq Stale(u) \ {r}
    BY <1>2, <2>1, StaleShrinks
  <2>3. QED
    BY <2>2
<1>7. LateCounts
  BY <1>1, <1>6, LateStays
<1>8. QED
  BY <1>1, <1>2, <1>4, <1>5, <1>7, MovesKeep

LEMMA CallersHaveRows == Caller \subseteq Rows \cup {None} /\ Principals \subseteq Rows
  BY DEF Caller, Principals, Accepted

LEMMA RegisterReadKeeps ==
  ASSUME AuthInv, NEW r \in Requests, NEW p \in Caller, NEW e \in Emails, RegisterRead(r, p, e)
  PROVE  AuthInv' /\ RevokedStays
<1> DEFINE q == [step |-> "register", principal |-> p, email |-> e]
<1>1. p \in Rows \cup {None}
  BY CallersHaveRows
<1>2. q \in Request /\ q.step = "register" /\ q.principal = p
  BY <1>1 DEF Request, Register, Rows
<1>3. Go(r, q) /\ UNCHANGED <<users, identities, sessions, upgrades, late>>
  BY DEF RegisterRead
<1> HIDE DEF q
<1>4. Refers(q)
  BY <1>1, <1>2 DEF Refers
<1>5. Apart(q) /\ \A u \in Users : ~Outdated(q, u)
  BY <1>2 DEF Apart, Outdated, About
<1>6. QED
  BY <1>2, <1>3, <1>4, <1>5, ReadKeeps

LEMMA LoginReadKeeps ==
  ASSUME AuthInv, NEW r \in Requests, NEW u \in Users, NEW w \in Passwords, LoginRead(r, u, w)
  PROVE  AuthInv' /\ RevokedStays
<1> DEFINE q == [step |-> "login", user |-> u, admin |-> users[u].admin]
<1>1. users[u] # None /\ ~users[u].guest /\ users[u] \in User
  BY DEF LoginRead, AuthInv, Shape
<1>2. users[u].admin \in BOOLEAN
  BY <1>1 DEF User
<1>3. q \in Request /\ q.step = "login" /\ q.user = u /\ q.admin = users[u].admin
  BY <1>2 DEF Request, Login
<1>4. Go(r, q) /\ UNCHANGED <<users, identities, sessions, upgrades, late>>
  BY DEF LoginRead
<1> HIDE DEF q
<1>5. Refers(q)
  BY <1>1, <1>3 DEF Refers
<1>6. Apart(q) /\ \A v \in Users : Admin(v) => ~Outdated(q, v)
  BY <1>3 DEF Apart, Outdated, About, Admin
<1>7. QED
  BY <1>3, <1>4, <1>5, <1>6, ReadKeeps

LEMMA GoogleStartKeeps ==
  ASSUME AuthInv, NEW r \in Requests, NEW p \in Caller, NEW g \in Subjects, NEW e \in Emails,
         GoogleStart(r, p, g, e)
  PROVE  AuthInv' /\ RevokedStays
<1> DEFINE q == [step |-> "google", principal |-> p, subject |-> g, email |-> e]
<1>1. p \in Rows \cup {None}
  BY CallersHaveRows
<1>2. q \in Request /\ q.step = "google" /\ q.principal = p
  BY <1>1 DEF Request, Google, Rows
<1>3. Go(r, q) /\ UNCHANGED <<users, identities, sessions, upgrades, late>>
  BY DEF GoogleStart
<1> HIDE DEF q
<1>4. Refers(q)
  BY <1>1, <1>2 DEF Refers
<1>5. Apart(q) /\ \A u \in Users : ~Outdated(q, u)
  BY <1>2 DEF Apart, Outdated, About
<1>6. QED
  BY <1>2, <1>3, <1>4, <1>5, ReadKeeps

LEMMA GoogleReadLinkedKeeps ==
  ASSUME AuthInv, NEW r \in Requests, NEW h, h = requests[r], GoogleReadLinked(r)
  PROVE  AuthInv' /\ RevokedStays
<1> DEFINE u == identities[h.subject]
           sets == users[u].password = None /\ Owners(h.email) \subseteq {u}
           q == [step |-> "signin", principal |-> h.principal, subject |-> h.subject,
                 email |-> h.email, user |-> u, admin |-> users[u].admin, setsEmail |-> sets]
<1>1. /\ h.step = "google" /\ u # None
      /\ Go(r, q) /\ UNCHANGED <<users, identities, sessions, upgrades, late>>
  BY DEF GoogleReadLinked
<1>2. h \in Google
  BY <1>1, RequestKinds DEF AuthInv, Shape
<1>3. u \in Users /\ users[u] # None /\ ~users[u].guest /\ users[u] \in User
  BY <1>1, <1>2 DEF Google, AuthInv, Shape, AccountsExist
<1>4. users[u].admin \in BOOLEAN
  BY <1>3 DEF User
<1>5. sets \in BOOLEAN
  OBVIOUS
<1>6. h.principal \in Rows \cup {None}
  BY <1>1 DEF AuthInv, Refers
<1> HIDE DEF u, sets
<1>7. /\ q \in Request /\ q.step = "signin" /\ q.principal = h.principal /\ q.user = u
      /\ q.admin = users[u].admin
  BY <1>2, <1>3, <1>4, <1>5 DEF Request, Google, SignIn
<1> HIDE DEF q
<1>8. Refers(q)
  BY <1>3, <1>6, <1>7 DEF Refers
<1>9. Apart(q) /\ \A v \in Users : Admin(v) => ~Outdated(q, v)
  BY <1>7 DEF Apart, Outdated, About, Admin
<1>10. QED
  BY <1>1, <1>7, <1>8, <1>9, ReadKeeps

LEMMA GoogleReadUnlinkedKeeps ==
  ASSUME AuthInv, NEW r \in Requests, NEW h, h = requests[r], GoogleReadUnlinked(r)
  PROVE  AuthInv' /\ RevokedStays
<1> DEFINE admin == h.principal # None /\ users[PrincipalUser(h.principal)].admin
           q == [step |-> "join", principal |-> h.principal, subject |-> h.subject,
                 email |-> h.email, admin |-> admin]
<1>1. /\ h.step = "google"
      /\ Go(r, q) /\ UNCHANGED <<users, identities, sessions, upgrades, late>>
  BY DEF GoogleReadUnlinked
<1>2. h \in Google
  BY <1>1, RequestKinds DEF AuthInv, Shape
<1>3. h.principal \in Rows \cup {None}
  BY <1>1 DEF AuthInv, Refers
<1>4. admin \in BOOLEAN
  OBVIOUS
<1>8. h.principal # None => (admin <=> users[sessions[h.principal].user].admin)
  BY DEF PrincipalUser
<1> HIDE DEF admin
<1>5. q \in Request /\ q.step = "join" /\ q.principal = h.principal /\ q.admin = admin
  BY <1>2, <1>4 DEF Request, Google, Join
<1> HIDE DEF q
<1>6. Refers(q)
  BY <1>3, <1>5 DEF Refers
<1>7. Apart(q) /\ \A v \in Users : Admin(v) => ~Outdated(q, v)
  BY <1>5, <1>8 DEF Apart, Outdated, About, Admin
<1>9. QED
  BY <1>1, <1>5, <1>6, <1>7, ReadKeeps

LEMMA ScanReadKeeps ==
  ASSUME AuthInv, NEW r \in Requests, NEW p \in Principals, ScanRead(r, p)
  PROVE  AuthInv' /\ RevokedStays
<1> DEFINE q == [step |-> "scan", principal |-> p]
<1>1. p \in Rows
  BY CallersHaveRows
<1>2. q \in Request /\ q.step = "scan" /\ q.principal = p
  BY <1>1 DEF Request, Scan, Rows
<1>3. Go(r, q) /\ UNCHANGED <<users, identities, sessions, upgrades, late>>
  BY DEF ScanRead
<1> HIDE DEF q
<1>4. Refers(q)
  BY <1>1, <1>2 DEF Refers
<1>5. Apart(q) /\ \A u \in Users : ~Outdated(q, u)
  BY <1>2 DEF Apart, Outdated, About
<1>6. QED
  BY <1>2, <1>3, <1>4, <1>5, ReadKeeps

LEMMA ProvisionReadKeeps ==
  ASSUME AuthInv, NEW r \in Requests, NEW e \in Emails, NEW w \in Passwords,
         ProvisionRead(r, e, w)
  PROVE  AuthInv' /\ RevokedStays
<1>1. PICK u \in Users \cup {None} :
        /\ IF Owners(e) = {} THEN u = None ELSE u \in Owners(e)
        /\ Go(r, [step |-> "provision", user |-> u, email |-> e, password |-> w])
  BY DEF ProvisionRead
<1> DEFINE q == [step |-> "provision", user |-> u, email |-> e, password |-> w]
<1>2. q \in Request /\ q.step = "provision" /\ q.user = u
  BY DEF Request, Provision
<1>3. Go(r, q) /\ UNCHANGED <<users, identities, sessions, upgrades, late>>
  BY <1>1 DEF ProvisionRead
<1>4. u # None => users[u] # None /\ ~users[u].guest
  BY <1>1, AuthAssumptions DEF Owners, Accounts, AuthInv, Returning
<1> HIDE DEF q
<1>5. Refers(q)
  BY <1>2, <1>4 DEF Refers
<1>6. Apart(q) /\ \A v \in Users : ~Outdated(q, v)
  BY <1>2 DEF Apart, Outdated, About
<1>7. QED
  BY <1>2, <1>3, <1>5, <1>6, ReadKeeps

LEMMA ProvisionRevokeKeeps ==
  ASSUME AuthInv, NEW r \in Requests, NEW h, h = requests[r], ProvisionRevoke(r)
  PROVE  AuthInv' /\ RevokedStays
<1> DEFINE closed == {s \in Of(h.user) : ~sessions[s].revoked}
           q == [step |-> "provisioned", user |-> h.user, email |-> h.email,
                 password |-> h.password, closed |-> closed]
<1>1. /\ h.step = "provision" /\ \A s \in closed : ~Locked(s)
      /\ Go(r, q) /\ UNCHANGED <<users, identities, sessions, upgrades, late>>
  BY DEF ProvisionRevoke
<1>2. h \in Provision /\ Refers(h)
  BY <1>1, RequestKinds DEF AuthInv, Shape
<1>3. closed \subseteq Rows /\ closed \in SUBSET Sessions /\ \A s \in closed : ~Rotated(s)
  BY <1>1 DEF Of, Rows, Locked, Rotated, Rotating
<1> HIDE DEF closed
<1>4. /\ q \in Request /\ q.step = "provisioned" /\ q.user = h.user /\ q.closed = closed
  BY <1>2, <1>3 DEF Request, Provision, Provisioned
<1> HIDE DEF q
<1>5. Refers(q)
  BY <1>1, <1>2, <1>3, <1>4 DEF Refers
<1>6. Apart(q) /\ \A v \in Users : ~Outdated(q, v)
  BY <1>3, <1>4 DEF Apart, Outdated, About
<1>7. QED
  BY <1>1, <1>4, <1>5, <1>6, ReadKeeps

LEMMA AbandonKeeps ==
  ASSUME AuthInv, NEW r \in Requests, Abandon(r)
  PROVE  AuthInv' /\ RevokedStays
<1>1. Idle \in Request /\ Idle.step = "idle"
  BY DEF Request, Idle
<1>2. Refers(Idle)
  BY <1>1 DEF Refers
<1>3. Go(r, Idle) /\ UNCHANGED <<users, identities, sessions, upgrades, late>>
  BY DEF Abandon
<1>4. Apart(Idle) /\ \A v \in Users : ~Outdated(Idle, v)
  BY <1>1 DEF Apart, Outdated, About
<1>5. QED
  BY <1>1, <1>2, <1>3, <1>4, ReadKeeps

-----------------------------------------------------------------------------
(* Requests that commit.                                                   *)

\* A request ends, or goes on to revoke what it issued.
LEMMA EndKeeps ==
  ASSUME AuthInv, UsersGrow, SessionsMove, UpgradesCount, LateCounts, NEW r \in Requests,
         Go(r, Idle)
  PROVE  AuthInv' /\ RevokedStays
<1>1. Idle \in Request /\ Idle.step = "idle"
  BY DEF Request, Idle
<1>2. Refers(Idle)' /\ Apart(Idle)
  BY <1>1 DEF Refers, Idle, Apart
<1>3. RequestsMove
  BY <1>1, <1>2, RequestGoes
<1>4. QED
  BY <1>3, MovesKeep

\* Who has ended, or goes on to revoke what it issued, is not outdated.
LEMMA EndShrinks ==
  ASSUME AuthInv, SessionsMove, NEW r \in Requests, NEW q, Go(r, q),
         q.step \in {"idle", "reject"}
  PROVE  \A u \in Users : Stale(u)' \subseteq Stale(u) \ {r}
<1> SUFFICES ASSUME NEW u \in Users PROVE Stale(u)' \subseteq Stale(u) \ {r}
  OBVIOUS
<1>1. ~Outdated(q, u)'
  BY DEF Outdated, About
<1>2. QED
  BY <1>1, StaleShrinks

LEMMA IdleShrinks ==
  ASSUME AuthInv, SessionsMove, NEW r \in Requests, Go(r, Idle)
  PROVE  \A u \in Users : Stale(u)' \subseteq Stale(u) \ {r}
<1> DEFINE q == Idle
<1>1. Go(r, q) /\ q.step \in {"idle", "reject"}
  BY DEF Idle
<1> HIDE DEF q
<1>2. QED
  BY <1>1, EndShrinks

LEMMA FinishShrinks ==
  ASSUME AuthInv, SessionsMove, NEW r \in Requests, NEW s, NEW misplaced \in BOOLEAN,
         Finish(r, s, misplaced)
  PROVE  \A u \in Users : Stale(u)' \subseteq Stale(u) \ {r}
<1> DEFINE q == IF misplaced THEN [step |-> "reject", session |-> s] ELSE Idle
<1>1. Go(r, q) /\ q.step \in {"idle", "reject"}
  BY DEF Finish, Idle
<1> HIDE DEF q
<1>2. QED
  BY <1>1, EndShrinks

LEMMA FinishKeeps ==
  ASSUME AuthInv, UsersGrow, SessionsMove, UpgradesCount, NEW r \in Requests,
         NEW s \in Sessions, sessions'[s] # None, NEW misplaced \in BOOLEAN,
         Finish(r, s, misplaced), \A u \in Users : Admin(u)' => Admin(u),
         NEW v \in Users, NEW surface, Answer(v, surface, misplaced), About(requests[r], v),
         surface = "web" /\ ~misplaced => ~requests[r].admin
  PROVE  AuthInv' /\ RevokedStays
<1>1. LateCounts
  BY FinishShrinks, LateAnswers
<1>2. CASE misplaced
  <2> DEFINE q == [step |-> "reject", session |-> s]
  <2>1. q \in Request /\ q.step = "reject" /\ q.session = s
    BY DEF Request, Reject
  <2>2. Go(r, q)
    BY <1>2 DEF Finish
  <2> HIDE DEF q
  <2>3. Refers(q)' /\ Apart(q)
    BY <2>1 DEF Refers, Rows, Apart
  <2>4. RequestsMove
    BY <2>1, <2>2, <2>3, RequestGoes
  <2>5. QED
    BY <1>1, <2>4, MovesKeep
<1>3. CASE ~misplaced
  BY <1>1, <1>3, EndKeeps DEF Finish
<1>4. QED
  BY <1>2, <1>3

LEMMA MemberShape ==
  ASSUME NEW e \in Emails, NEW w \in Passwords \cup {None}
  PROVE  Member(e, w) \in User /\ ~Member(e, w).guest /\ ~Member(e, w).admin
  BY DEF Member, User

\* An account that is there, or was not, gets another row, and perhaps a
\* Google account.
LEMMA RowsGrow ==
  ASSUME AuthInv, NEW u \in Users, NEW row \in User, users' = [users EXCEPT ![u] = row],
         \/ identities' = identities
         \/ \E g \in Subjects :
              Linkable(g, u) /\ ~row.guest /\ identities' = [identities EXCEPT ![g] = u],
         row.guest => ~row.admin, Admin(u) => row.admin,
         users[u] # None /\ ~users[u].guest => ~row.guest,
         row.guest <=> row.email = None,
         row.guest \/ row.password # None \/ \E g \in Subjects : identities'[g] = u,
         \/ row.email = None \/ EmailFree(row.email, u)
         \/ users[u] # None /\ row.email = users[u].email
  PROVE  /\ UsersGrow /\ users'[u] # None
         /\ \A v \in Users : Admin(v)' => Admin(v) \/ (v = u /\ row.admin)
<1>1. None \notin User
  BY NoneIsNoAccount
<1>2. /\ users' \in [Users -> User \cup {None}]
      /\ users'[u] = row
      /\ \A t \in Users \ {u} : users'[t] = users[t]
  BY DEF AuthInv, Shape
<1>3. \A t \in Users : users[t] # None =>
        users'[t] # None /\ (~users[t].guest => ~users'[t].guest)
  BY <1>1, <1>2
<1>4. /\ identities' \in [Subjects -> Users \cup {None}]
      /\ \A g \in Subjects :
           identities'[g] = identities[g] \/ (identities'[g] = u /\ ~row.guest)
      /\ \A g \in Subjects : identities[g] # None => identities'[g] = identities[g]
      /\ \A g, h \in Subjects :
           identities'[g] = identities'[h] /\ identities'[g] # None => g = h
  <2>1. \A g, h \in Subjects : identities[g] = identities[h] /\ identities[g] # None => g = h
    BY DEF AuthInv, Returning
  <2>2. CASE identities' = identities
    BY <2>1, <2>2 DEF AuthInv, Shape
  <2>3. ASSUME NEW g \in Subjects, Linkable(g, u), ~row.guest,
               identities' = [identities EXCEPT ![g] = u]
        PROVE  <1>4!1 /\ <1>4!2 /\ <1>4!3 /\ <1>4!4
    BY <2>1, <2>3 DEF AuthInv, Shape, Linkable, Subject
  <2>4. QED
    BY <2>2, <2>3
<1>5. \A g \in Subjects : identities[g] # None =>
        users'[identities[g]] # None /\ ~users'[identities[g]].guest
  BY <1>3 DEF AuthInv, Shape, AccountsExist
<1>6. \A g \in Subjects : identities'[g] # None =>
        users'[identities'[g]] # None /\ ~users'[identities'[g]].guest
  BY <1>1, <1>2, <1>4, <1>5
<1>7. /\ \A v \in Users : Admin(v) => Admin(v)'
      /\ \A v \in Users : Admin(v)' => Admin(v) \/ (v = u /\ row.admin)
  BY <1>1, <1>2 DEF Admin
<1>8. Returning'
  <2>1. ASSUME NEW t \in Users, users'[t] # None
        PROVE  /\ users'[t].guest <=> users'[t].email = None
               /\ users'[t].guest => ~users'[t].admin
               /\ \/ users'[t].guest \/ users'[t].password # None
                  \/ \E g \in Subjects : identities'[g] = t
    <3>1. CASE t = u
      BY <1>2, <3>1
    <3>2. CASE t # u
      <4>1. users'[t] = users[t]
        BY <1>2, <3>2
      <4>2. \A g \in Subjects : identities[g] = t => identities'[g] = t
        BY <1>4, AuthAssumptions
      <4>3. QED
        BY <2>1, <4>1, <4>2 DEF AuthInv, Returning
    <3>3. QED
      BY <3>1, <3>2
  <2>2. ASSUME NEW t \in Users, t # u, users[t] # None, row.email # None
        PROVE  users[t].email # row.email
    BY <2>2 DEF AuthInv, Returning, EmailFree, Owners, Accounts
  <2>3. \A t, v \in Users :
          /\ users'[t] # None /\ users'[v] # None
          /\ users'[t].email = users'[v].email /\ users'[t].email # None
          => t = v
    BY <1>2, <2>2 DEF AuthInv, Returning
  <2>4. QED
    BY <1>4, <2>1, <2>3 DEF Returning
<1>9. QED
  BY <1>1, <1>2, <1>3, <1>4, <1>6, <1>7, <1>8 DEF UsersGrow

LEMMA NobodysSessions ==
  ASSUME AuthInv, NEW u, users[u] = None
  PROVE  Of(u) = {}
  BY DEF AuthInv, AccountsExist, Held, Of

LEMMA JoinCounts ==
  ASSUME AuthInv, NEW u \in Users, NEW p, Joins(u, p), CountUpgrade(u, p),
         NEW row \in User, ~row.guest, users' = [users EXCEPT ![u] = row]
  PROVE  UpgradesCount
<1>1. None \notin User
  BY NoneIsNoAccount
<1>2. /\ users'[u] # None /\ ~users'[u].guest
      /\ \A t \in Users \ {u} : users'[t] = users[t]
  BY <1>1 DEF AuthInv, Shape
<1>3. upgrades \in [Users -> {0, 1}] /\ UpgradedAreMembers
  BY DEF AuthInv, Shape
<1>4. p # None => upgrades[u] = 0
  BY <1>3 DEF Joins, Claimable, UpgradedAreMembers
<1>5. /\ upgrades' \in [Users -> {0, 1}]
      /\ \A t \in Users \ {u} : upgrades'[t] = upgrades[t]
  BY <1>3, <1>4 DEF CountUpgrade
<1>6. UpgradedAreMembers'
  BY <1>2, <1>3, <1>5 DEF UpgradedAreMembers
<1>7. QED
  BY <1>5, <1>6 DEF UpgradesCount

\* A new session, as every answer of tokens has it.
LEMMA NewSessionMoves ==
  ASSUME AuthInv, UsersGrow, NEW s \in Sessions, NEW u \in Users, users'[u] # None,
         NEW guest \in BOOLEAN, NEW surface \in Surfaces, NEW proof \in BOOLEAN,
         NEW known \in Knowledge, guest \/ proof, guest \/ ~users'[u].guest,
         NEW S, S \subseteq Rows,
         Issue(s, NewSession(u, guest, surface, proof, known), S)
  PROVE  SessionsMove /\ sessions'[s] # None
<1> DEFINE row == NewSession(u, guest, surface, proof, known)
<1>1. row \in Session /\ Sound(row) /\ Held(users', row)
  BY NewRow DEF Held
<1>2. None \notin Session
  BY NoneIsNoAccount
<1>3. sessions'[s] = row
  BY DEF Issue
<1>4. Issue(s, row, S)
  OBVIOUS
<1> HIDE DEF row
<1>5. SessionsMove
  BY <1>1, <1>4, IssueMoves
<1>6. QED
  BY <1>1, <1>2, <1>3, <1>5

LEMMA OfRows == \A u : Of(u) \subseteq Rows
  BY DEF Of

LEMMA ReplacedRows ==
  ASSUME NEW p \in Rows \cup {None}, NEW b
  PROVE  Replaced(p, b) \subseteq Rows
  BY OfRows DEF Replaced

LEMMA AnonymousKeeps ==
  ASSUME AuthInv, NEW u \in Users, NEW s \in Sessions, Anonymous(u, s)
  PROVE  AuthInv' /\ RevokedStays
<1> DEFINE row == [guest |-> TRUE, email |-> None, password |-> None, admin |-> FALSE]
<1>1. row \in User /\ row.guest /\ row.email = None /\ ~row.admin
  BY DEF User
<1>2. users[u] = None /\ users' = [users EXCEPT ![u] = row]
  BY DEF Anonymous
<1>3. UNCHANGED <<identities, requests, upgrades, late>>
  BY DEF Anonymous
<1> HIDE DEF row
<1>4. UsersGrow /\ users'[u] # None /\ \A v \in Users : Admin(v)' => Admin(v)
  BY <1>1, <1>2, <1>3, RowsGrow DEF Admin
<1>5. "guest" \in Surfaces /\ "current" \in Knowledge
  BY DEF Surfaces, Knowledge
<1>6. Issue(s, NewSession(u, TRUE, "guest", FALSE, "current"), {})
  BY DEF Anonymous
<1> DEFINE none == {}
<1>7. none \subseteq Rows /\ Issue(s, NewSession(u, TRUE, "guest", FALSE, "current"), none)
  BY <1>6
<1> HIDE DEF none
<1>8. SessionsMove
  BY <1>4, <1>5, <1>7, NewSessionMoves
<1>9. upgrades' \in [Users -> {0, 1}]
  BY <1>3 DEF AuthInv, Shape
<1>10. UpgradedAreMembers'
  BY <1>2, <1>3 DEF AuthInv, Shape, UpgradedAreMembers
<1>11. RequestsMove
  BY <1>3, RequestsStay
<1>12. LateCounts
  BY <1>3, <1>4, <1>8, StaleStays, LateStays
<1>13. QED
  BY <1>4, <1>8, <1>9, <1>10, <1>11, <1>12, MovesKeep DEF UpgradesCount

LEMMA SurfacesKnown ==
  /\ Clients \cup {"console", "guest"} \subseteq Surfaces
  /\ "current" \in Knowledge
  /\ \A m \in BOOLEAN : Known(m) \in Knowledge
  BY DEF Surfaces, Knowledge, Known

LEMMA RevokedByUpgradeRows == \A u, p : RevokedByUpgrade(u, p) \subseteq Rows
  BY OfRows DEF RevokedByUpgrade

\* The end of registration and of a Google account's first sign-in.
LEMMA JoinKeeps ==
  ASSUME AuthInv, NEW r \in Requests, NEW u \in Users, NEW p, NEW s \in Sessions,
         NEW surface \in Clients, NEW e \in Emails, NEW w \in Passwords \cup {None},
         Joins(u, p), CountUpgrade(u, p), users' = [users EXCEPT ![u] = Member(e, w)],
         EmailFree(e, u),
         \/ w # None /\ identities' = identities
         \/ \E g \in Subjects : Linkable(g, u) /\ identities' = [identities EXCEPT ![g] = u],
         Issue(s, NewSession(u, FALSE, surface, TRUE, "current"), RevokedByUpgrade(u, p)),
         Go(r, Idle), late' = late
  PROVE  AuthInv' /\ RevokedStays
<1> DEFINE row == Member(e, w)
<1>1. /\ row \in User /\ ~row.guest /\ ~row.admin /\ row.email = e /\ row.password = w
      /\ e # None
  BY MemberShape, AuthAssumptions DEF Member
<1>2. users' = [users EXCEPT ![u] = row]
  OBVIOUS
<1>3. w # None \/ \E g \in Subjects : identities'[g] = u
  BY DEF AuthInv, Shape
<1>4. identities' = identities \/ \E g \in Subjects :
         Linkable(g, u) /\ identities' = [identities EXCEPT ![g] = u]
  OBVIOUS
<1> HIDE DEF row
<1>5. ~Admin(u)
  BY DEF Joins, Claimable, Admin, AuthInv, Returning
<1>6. UsersGrow /\ users'[u] # None /\ \A v \in Users : Admin(v)' => Admin(v)
  BY <1>1, <1>2, <1>5, <1>3, <1>4, RowsGrow
<1>7. ~users'[u].guest
  BY <1>1, <1>2 DEF AuthInv, Shape
<1>8. UpgradesCount
  BY <1>1, <1>2, JoinCounts
<1> DEFINE S == RevokedByUpgrade(u, p)
<1>9. S \subseteq Rows /\ Issue(s, NewSession(u, FALSE, surface, TRUE, "current"), S)
  BY RevokedByUpgradeRows
<1> HIDE DEF S
<1>10. surface \in Surfaces /\ "current" \in Knowledge
  BY SurfacesKnown
<1>11. SessionsMove
  BY <1>6, <1>9, <1>10, <1>7, NewSessionMoves
<1>12. LateCounts
  BY <1>6, <1>11, IdleShrinks, LateStays
<1>13. QED
  BY <1>6, <1>8, <1>11, <1>12, EndKeeps

LEMMA RegisterCommitKeeps ==
  ASSUME AuthInv, NEW r \in Requests, NEW u \in Users, NEW w \in Passwords, NEW s \in Sessions,
         NEW surface \in Clients, NEW h, h = requests[r], RegisterCommit(r, u, w, s, surface)
  PROVE  AuthInv' /\ RevokedStays
<1>1. /\ h.step = "register" /\ Joins(u, h.principal)
      /\ users' = [users EXCEPT ![u] = Member(h.email, w)]
      /\ Issue(s, NewSession(u, FALSE, surface, TRUE, "current"),
               RevokedByUpgrade(u, h.principal))
      /\ CountUpgrade(u, h.principal) /\ Go(r, Idle) /\ UNCHANGED <<identities, late>>
      /\ EmailFree(h.email, u)
  BY DEF RegisterCommit
<1>2. h.email \in Emails /\ w # None
  BY <1>1, RequestKinds, AuthAssumptions DEF AuthInv, Shape, Register
<1>3. QED
  BY <1>1, <1>2, JoinKeeps

LEMMA GoogleJoinKeeps ==
  ASSUME AuthInv, NEW r \in Requests, NEW u \in Users, NEW s \in Sessions,
         NEW surface \in Clients, NEW h, h = requests[r], GoogleJoin(r, u, s, surface)
  PROVE  AuthInv' /\ RevokedStays
<1>1. /\ h.step = "join" /\ Joins(u, h.principal)
      /\ users' = [users EXCEPT ![u] = Member(h.email, None)]
      /\ identities' = [identities EXCEPT ![h.subject] = u]
      /\ Issue(s, NewSession(u, FALSE, surface, TRUE, "current"),
               RevokedByUpgrade(u, h.principal))
      /\ CountUpgrade(u, h.principal) /\ Go(r, Idle) /\ late' = late
      /\ EmailFree(h.email, u) /\ Linkable(h.subject, u)
  BY DEF GoogleJoin
<1>2. h.email \in Emails /\ h.subject \in Subjects
  BY <1>1, RequestKinds DEF AuthInv, Shape, Join
<1>3. QED
  BY <1>1, <1>2, JoinKeeps

LEMMA LoginCommitKeeps ==
  ASSUME AuthInv, NEW r \in Requests, NEW s \in Sessions, NEW surface \in Clients \cup {"console"},
         NEW h, h = requests[r], LoginCommit(r, s, surface)
  PROVE  AuthInv' /\ RevokedStays
<1> DEFINE m == Misplaced(surface, h.admin)
           S == {}
<1>1. /\ h.step = "login"
      /\ Issue(s, NewSession(h.user, FALSE, surface, TRUE, Known(m)), S)
      /\ Finish(r, s, m) /\ Answer(h.user, surface, m)
      /\ UNCHANGED <<users, identities, upgrades>>
  BY DEF LoginCommit
<1>2. h.user \in Users /\ users[h.user] # None /\ ~users[h.user].guest
  BY <1>1, RequestKinds DEF AuthInv, Shape, Refers, Login
<1>3. m \in BOOLEAN /\ (surface = "web" /\ ~m => ~h.admin)
  BY DEF Misplaced
<1>4. S \subseteq Rows
  OBVIOUS
<1> HIDE DEF m, S
<1>5. UsersGrow /\ UpgradesCount /\ \A v \in Users : Admin(v)' = Admin(v)
  BY <1>1, UsersStay, UpgradesStay
<1>6. surface \in Surfaces /\ Known(m) \in Knowledge
  BY <1>3, SurfacesKnown
<1>7. users'[h.user] # None /\ ~users'[h.user].guest
  BY <1>1, <1>2
<1>8. SessionsMove /\ sessions'[s] # None
  BY <1>1, <1>2, <1>4, <1>5, <1>6, <1>7, NewSessionMoves
<1>9. About(requests[r], h.user)
  BY <1>1 DEF About
<1>10. QED
  BY <1>1, <1>2, <1>3, <1>5, <1>8, <1>9, FinishKeeps

LEMMA GoogleSignInKeeps ==
  ASSUME AuthInv, NEW r \in Requests, NEW s \in Sessions, NEW surface \in Clients, NEW b,
         NEW h, h = requests[r], GoogleSignIn(r, s, surface, b)
  PROVE  AuthInv' /\ RevokedStays
<1> DEFINE m == Misplaced(surface, h.admin)
           S == Replaced(h.principal, b)
           row == IF h.setsEmail THEN [users[h.user] EXCEPT !.email = h.email] ELSE users[h.user]
<1>1. /\ h.step = "signin"
      /\ users' = IF h.setsEmail THEN [users EXCEPT ![h.user].email = h.email] ELSE users
      /\ Issue(s, NewSession(h.user, FALSE, surface, TRUE, Known(m)), S)
      /\ Finish(r, s, m) /\ Answer(h.user, surface, m)
      /\ UNCHANGED <<identities, upgrades>>
  BY DEF GoogleSignIn
<1>2. /\ h.user \in Users /\ users[h.user] # None /\ h.email \in Emails
      /\ ~users[h.user].guest /\ h.setsEmail \in BOOLEAN
      /\ h.setsEmail => EmailFree(h.email, h.user)
      /\ h.principal \in Rows \cup {None} /\ users[h.user] \in User
  BY <1>1, RequestKinds DEF GoogleSignIn, AuthInv, Shape, Refers, SignIn
<1>3. m \in BOOLEAN /\ (surface = "web" /\ ~m => ~h.admin)
  BY DEF Misplaced
<1>4. S \subseteq Rows
  BY <1>2, ReplacedRows
<1>5. row \in User /\ row.guest = users[h.user].guest /\ row.admin = users[h.user].admin
  BY <1>2 DEF User
<1>6. /\ row.email = users[h.user].email \/ EmailFree(row.email, h.user)
      /\ row.email # None /\ row.password = users[h.user].password
  BY <1>2, AuthAssumptions DEF User, AuthInv, Returning
<1>7. users' = [users EXCEPT ![h.user] = row]
  BY <1>1, <1>2 DEF AuthInv, Shape
<1> HIDE DEF m, S, row
<1>8. UsersGrow /\ users'[h.user] # None /\ \A v \in Users : Admin(v)' => Admin(v)
  <2>3. ~row.guest /\ (Admin(h.user) <=> row.admin)
    BY <1>2, <1>5 DEF Admin
  <2>1. row.password # None \/ \E g \in Subjects : identities'[g] = h.user
    BY <1>1, <1>2, <1>6 DEF AuthInv, Returning
  <2>2. QED
    BY <1>1, <1>2, <1>5, <1>7, <1>6, <2>1, <2>3, RowsGrow
<1>9. ~users'[h.user].guest
  BY <1>2, <1>5, <1>7 DEF AuthInv, Shape
<1>10. UpgradesCount
  <2>1. \A t \in Users : upgrades[t] = 1 => users'[t] # None /\ ~users'[t].guest
    BY <1>2, <1>5, <1>7, <1>8 DEF AuthInv, Shape, UpgradedAreMembers
  <2>2. QED
    BY <1>1, <2>1 DEF AuthInv, Shape, UpgradedAreMembers, UpgradesCount
<1>11. surface \in Surfaces /\ Known(m) \in Knowledge
  BY <1>3, SurfacesKnown
<1>12. SessionsMove /\ sessions'[s] # None
  BY <1>1, <1>2, <1>4, <1>8, <1>11, <1>9, NewSessionMoves
<1>13. About(requests[r], h.user)
  BY <1>1 DEF About
<1>14. QED
  BY <1>1, <1>2, <1>3, <1>8, <1>10, <1>12, <1>13, FinishKeeps

LEMMA GoogleLinkKeeps ==
  ASSUME AuthInv, NEW r \in Requests, NEW s \in Sessions, NEW surface \in Clients, NEW b,
         NEW h, h = requests[r], GoogleLink(r, s, surface, b)
  PROVE  AuthInv' /\ RevokedStays
<1> DEFINE m == Misplaced(surface, h.admin)
           S == Replaced(h.principal, b)
           u == PrincipalUser(h.principal)
<1>1. /\ h.step = "join" /\ h.principal # None /\ ~sessions[h.principal].guest
      /\ Linkable(h.subject, u)
      /\ identities' = [identities EXCEPT ![h.subject] = u]
      /\ Issue(s, NewSession(u, FALSE, surface, TRUE, Known(m)), S)
      /\ Finish(r, s, m) /\ Answer(u, surface, m)
      /\ UNCHANGED <<users, upgrades>>
  BY DEF GoogleLink
<1>2. h.principal \in Rows /\ h.subject \in Subjects
  BY <1>1, RequestKinds DEF AuthInv, Shape, Refers, Join
<1>3. m \in BOOLEAN /\ (surface = "web" /\ ~m => ~h.admin)
  BY DEF Misplaced
<1>4. S \subseteq Rows
  BY <1>2, ReplacedRows
<1>5. u \in Users /\ users[u] # None /\ ~users[u].guest
  BY <1>1, <1>2, RowShape DEF PrincipalUser, AuthInv, AccountsExist, Held
<1>12. About(requests[r], u)
  BY <1>1 DEF About, PrincipalUser
<1> HIDE DEF m, S, u
<1>6. UsersGrow /\ \A v \in Users : Admin(v)' => Admin(v)
  <2> DEFINE row == users[u]
  <2>1. /\ row \in User /\ users' = [users EXCEPT ![u] = row]
        /\ ~row.guest /\ row.email # None
    BY <1>1, <1>5 DEF AuthInv, Shape, Returning
  <2>2. identities'[h.subject] = u
    BY <1>1, <1>2 DEF AuthInv, Shape
  <2> HIDE DEF row
  <2>3. row.email = users[u].email /\ (Admin(u) <=> row.admin)
    BY <1>5 DEF row, Admin
  <2>4. QED
    BY <1>1, <1>2, <1>5, <2>1, <2>2, <2>3, RowsGrow
<1>7. UpgradesCount
  BY <1>1, UpgradesStay
<1>8. surface \in Surfaces /\ Known(m) \in Knowledge
  BY <1>3, SurfacesKnown
<1>9. users'[u] # None /\ ~users'[u].guest
  BY <1>1, <1>5
<1>10. SessionsMove /\ sessions'[s] # None
  BY <1>1, <1>4, <1>5, <1>6, <1>8, <1>9, NewSessionMoves
<1>11. QED
  BY <1>1, <1>3, <1>5, <1>6, <1>7, <1>10, <1>12, FinishKeeps

LEMMA ScanCommitKeeps ==
  ASSUME AuthInv, NEW r \in Requests, NEW s \in Sessions, NEW h, h = requests[r],
         ScanCommit(r, s)
  PROVE  AuthInv' /\ RevokedStays
<1> DEFINE p == h.principal
           u == PrincipalUser(p)
           guest == sessions[p].guest
           proof == sessions[p].proof
           S == IF sessions[p].surface = "guest" THEN {p} ELSE {}
<1>1. /\ h.step = "scan"
      /\ Issue(s, NewSession(u, guest, "guest", proof, "current"), S)
      /\ Go(r, Idle)
      /\ UNCHANGED <<users, identities, upgrades, late>>
  BY DEF ScanCommit
<1>2. p \in Rows
  BY <1>1 DEF AuthInv, Refers
<1>3. u \in Users /\ users[u] # None /\ (guest \/ ~users[u].guest)
  BY <1>2, RowShape DEF PrincipalUser, AuthInv, AccountsExist, Held
<1>4. guest \in BOOLEAN /\ proof \in BOOLEAN /\ (guest \/ proof)
  BY <1>2, RowShape DEF Session, Sound
<1>5. S \subseteq Rows
  BY <1>2
<1>6. users'[u] # None /\ (guest \/ ~users'[u].guest)
  BY <1>1, <1>3
<1> HIDE DEF u, guest, proof, S
<1>7. UsersGrow /\ UpgradesCount /\ \A v \in Users : Admin(v)' = Admin(v)
  BY <1>1, UsersStay, UpgradesStay
<1>8. "guest" \in Surfaces /\ "current" \in Knowledge
  BY SurfacesKnown
<1>9. SessionsMove
  BY <1>1, <1>3, <1>4, <1>5, <1>6, <1>7, <1>8, NewSessionMoves
<1>10. LateCounts
  BY <1>1, <1>7, <1>9, IdleShrinks, LateStays
<1>11. QED
  BY <1>1, <1>7, <1>9, <1>10, EndKeeps

LEMMA RejectCommitKeeps ==
  ASSUME AuthInv, NEW r \in Requests, RejectCommit(r)
  PROVE  AuthInv' /\ RevokedStays
<1> DEFINE S == {requests[r].session}
<1>1. requests[r].step = "reject" /\ Revoke(S) /\ Go(r, Idle)
      /\ UNCHANGED <<users, identities, upgrades, late>>
  BY DEF RejectCommit
<1>2. S \subseteq Rows
  BY <1>1 DEF AuthInv, Refers
<1> HIDE DEF S
<1>3. UsersGrow /\ UpgradesCount /\ \A v \in Users : Admin(v)' = Admin(v)
  BY <1>1, UsersStay, UpgradesStay
<1>4. SessionsMove
  BY <1>1, <1>2, <1>3, RevokeMoves
<1>5. LateCounts
  BY <1>1, <1>3, <1>4, IdleShrinks, LateStays
<1>6. QED
  BY <1>1, <1>3, <1>4, <1>5, EndKeeps

\* Logout of one session, or of all of a user.
LEMMA LogoutKeeps ==
  ASSUME AuthInv, NEW S, S \subseteq Rows, Revoke(S),
         UNCHANGED <<users, identities, requests, upgrades, late>>
  PROVE  AuthInv' /\ RevokedStays
<1>1. UsersGrow /\ UpgradesCount /\ \A v \in Users : Admin(v)' = Admin(v)
  BY UsersStay, UpgradesStay
<1>2. SessionsMove
  BY <1>1, RevokeMoves
<1>3. RequestsMove
  BY RequestsStay
<1>4. LateCounts
  BY <1>1, <1>2, StaleStays, LateStays
<1>5. QED
  BY <1>1, <1>2, <1>3, <1>4, MovesKeep

LEMMA ProvisionCommitKeeps ==
  ASSUME AuthInv, NEW r \in Requests, NEW u \in Users, NEW h, h = requests[r],
         ProvisionCommit(r, u)
  PROVE  AuthInv' /\ RevokedStays
<1> DEFINE email == IF h.user = None THEN h.email ELSE users[u].email
           row == [Member(email, h.password) EXCEPT !.admin = TRUE]
<1>1. /\ h.step = "provisioned"
      /\ IF h.user = None THEN users[u] = None /\ EmailFree(h.email, u) ELSE u = h.user
      /\ users' = [users EXCEPT ![u] = row]
      /\ Close(h.closed) /\ Go(r, Idle)
      /\ UNCHANGED <<identities, upgrades, late>>
  BY DEF ProvisionCommit
<1>2. h.email \in Emails /\ h.password \in Passwords
  BY <1>1, RequestKinds DEF AuthInv, Shape, Provisioned
<1>3. h.user # None => users[u] \in User /\ ~users[u].guest /\ users[u] # None
  BY <1>1 DEF AuthInv, Shape, Refers
<1>4. /\ h.user = None => email = h.email
      /\ h.user # None => email = users[u].email
  OBVIOUS
<1> HIDE DEF email
<1>5. /\ email \in Emails \cup {None} /\ email # None
      /\ EmailFree(email, u) \/ (users[u] # None /\ email = users[u].email)
  <2>1. CASE h.user = None
    BY <1>1, <1>2, <1>4, <2>1, AuthAssumptions
  <2>2. CASE h.user # None
    <3>1. email = users[u].email /\ email \in Emails \cup {None}
      BY <1>3, <1>4, <2>2 DEF User
    <3>2. email # None
      BY <1>3, <2>2, <3>1 DEF AuthInv, Returning
    <3>3. QED
      BY <1>3, <2>2, <3>1, <3>2
  <2>3. QED
    BY <2>1, <2>2
<1>6. row \in User /\ ~row.guest /\ row.email = email /\ row.password # None /\ row.admin
  BY <1>2, <1>5, AuthAssumptions DEF Member, User
<1> HIDE DEF row
<1>7. /\ UsersGrow /\ users'[u] # None
      /\ \A v \in Users \ {u} : Admin(v)' => Admin(v)
  BY <1>1, <1>5, <1>6, RowsGrow
<1>8. UpgradesCount
  <2>1. \A t \in Users : upgrades[t] = 1 => users'[t] # None /\ ~users'[t].guest
    BY <1>1, <1>6, <1>7 DEF AuthInv, Shape, UpgradedAreMembers
  <2>2. QED
    BY <1>1, <2>1 DEF AuthInv, Shape, UpgradedAreMembers, UpgradesCount
<1>9. SessionsMove
  <2> DEFINE S == h.closed
  <2>1. S \subseteq Rows /\ Close(S)
    BY <1>1 DEF AuthInv, Refers
  <2>2. \A s \in S : ~Rotated(s)
    BY <1>1 DEF AuthInv, LocksHold, Rotated
  <2> HIDE DEF S
  <2>3. QED
    BY <1>7, <2>1, <2>2, CloseMoves
<1>10. LateCounts
  BY <1>1, <1>7, <1>9, IdleShrinks, LatePromotes
<1>11. QED
  BY <1>1, <1>7, <1>8, <1>9, <1>10, EndKeeps

-----------------------------------------------------------------------------
(* Rotations.                                                              *)

LEMMA RefreshReadKeeps ==
  ASSUME AuthInv, NEW r \in Requests, NEW s \in Sessions, RefreshRead(r, s)
  PROVE  AuthInv' /\ RevokedStays
<1> DEFINE q == [step |-> "refresh", session |-> s, rotation |-> sessions[s].rotation,
                 admin |-> users[sessions[s].user].admin]
<1>1. /\ s \in Rows /\ ~sessions[s].revoked /\ ~Locked(s)
      /\ Go(r, q) /\ UNCHANGED <<users, identities, sessions, upgrades, late>>
  BY DEF RefreshRead, Accepted, Lockable
<1>2. sessions[s].rotation \in {0, 1} /\ users[sessions[s].user].admin \in BOOLEAN
  BY <1>1, RowShape DEF Session, User
<1>3. /\ q \in Request /\ q.step = "refresh" /\ q.session = s
      /\ q.rotation = sessions[s].rotation /\ q.admin = users[sessions[s].user].admin
  BY <1>2 DEF Request, Refresh
<1> HIDE DEF q
<1>4. /\ requests' \in [Requests -> Request] /\ requests'[r] = q
      /\ \A t \in Requests \ {r} : requests'[t] = requests[t]
  BY <1>1, <1>3 DEF AuthInv, Shape, Go
<1>5. Rows' = Rows
  BY <1>1 DEF Rows
<1>6. Shape'
  BY <1>1, <1>4 DEF AuthInv, Shape
<1>7. LocksHold'
  <2>1. \A t \in Requests : Rotating(t) => requests[t].session # s
    BY <1>1 DEF Locked, Rotating
  <2>2. \A t \in Requests : Rotating(t)' =>
          /\ requests'[t].session \in Rows
          /\ ~sessions[requests'[t].session].revoked
          /\ sessions[requests'[t].session].rotation = requests'[t].rotation
    BY <1>1, <1>3, <1>4 DEF AuthInv, LocksHold, Rotating
  <2>3. \A t, v \in Requests :
          Rotating(t)' /\ Rotating(v)' /\ requests'[t].session = requests'[v].session => t = v
    BY <1>3, <1>4, <2>1 DEF AuthInv, LocksHold, Rotating
  <2>4. \A t \in Requests : requests[t].step = "provisioned" => s \notin requests[t].closed
    BY <1>1 DEF Locked
  <2>5. \A t, v \in Requests :
          Rotating(t)' /\ requests'[v].step = "provisioned"
          => requests'[t].session \notin requests'[v].closed
    BY <1>3, <1>4, <2>4 DEF AuthInv, LocksHold, Rotating
  <2>6. QED
    BY <1>1, <1>5, <2>2, <2>3, <2>5 DEF LocksHold
<1>8. \A t \in Requests : Refers(requests[t])'
  BY <1>1, <1>3, <1>4, <1>5 DEF AuthInv, Refers
<1>9. /\ AccountsExist' /\ Returning' /\ UpgradedAreMembers'
      /\ \A t \in Rows' : Sound(sessions'[t])
  BY <1>1, <1>5 DEF AuthInv, AccountsExist, Returning, UpgradedAreMembers
<1>10. RevokedStays
  BY <1>1 DEF RevokedStays
<1>11. UsersGrow /\ \A u \in Users : Admin(u)' = Admin(u)
  BY <1>1, UsersStay
<1>12. SessionsMove
  BY <1>1, <1>11, SessionsStay
<1>13. \A u \in Users : Admin(u) => Stale(u)' \subseteq Stale(u)
  <2> SUFFICES ASSUME NEW u \in Users, Admin(u) PROVE Stale(u)' \subseteq Stale(u)
    OBVIOUS
  <2>1. PICK k : k = q
    OBVIOUS
  <2>2. Go(r, k) /\ k.step = "refresh" /\ k.session = s /\ k.admin = users[sessions[s].user].admin
    BY <1>1, <1>3, <2>1
  <2>3. ~Outdated(k, u)'
    BY <1>1, <2>2 DEF Outdated, About, Admin
  <2>4. Stale(u)' \subseteq Stale(u) \ {r}
    BY <1>12, <2>2, <2>3, StaleShrinks
  <2>5. QED
    BY <2>4
<1>14. LateCounts
  BY <1>1, <1>11, <1>13, LateStays
<1>15. QED
  BY <1>6, <1>7, <1>8, <1>9, <1>10, <1>14 DEF AuthInv, LateCounts

LEMMA RefreshCommitKeeps ==
  ASSUME AuthInv, NEW r \in Requests, NEW console \in BOOLEAN, NEW h, h = requests[r],
         RefreshCommit(r, console)
  PROVE  AuthInv' /\ RevokedStays
<1> DEFINE s == h.session
           row == sessions[s]
           m == IF console THEN row.surface # "console" \/ ~h.admin
                ELSE row.surface # "console" /\ Misplaced(row.surface, h.admin)
           next == [row EXCEPT !.rotation = 1 - @,
                               !.known = IF m THEN "access" ELSE "current",
                               !.lost = @ \/ (row.known = "current" /\ h.rotation # row.rotation)]
<1>1. /\ h.step = "refresh"
      /\ sessions' = [sessions EXCEPT ![s] = next]
      /\ Finish(r, s, m) /\ Answer(row.user, row.surface, m)
      /\ UNCHANGED <<users, identities, upgrades>>
  BY DEF RefreshCommit
<1>2. s \in Rows /\ ~row.revoked /\ row.rotation = h.rotation
  BY <1>1 DEF AuthInv, LocksHold, Rotating
<1>3. s \in Sessions /\ row \in Session /\ Sound(row)
  BY <1>2, RowShape
<1>4. m \in BOOLEAN /\ (row.surface = "web" /\ ~m => ~h.admin)
  BY DEF Misplaced
<1>19. About(h, row.user)
  BY <1>1 DEF About
<1> HIDE DEF s, row, m
<1>5. /\ next \in Session /\ Sound(next)
      /\ next.user = row.user /\ ~next.revoked /\ next.guest = row.guest
  <2> DEFINE known == IF m THEN "access" ELSE "current"
             lost == row.lost \/ (row.known = "current" /\ h.rotation # row.rotation)
  <2>1. known \in Knowledge /\ lost = FALSE /\ 1 - row.rotation \in {0, 1}
    BY <1>2, <1>3 DEF Session, Knowledge, Sound
  <2>2. next = [row EXCEPT !.rotation = 1 - row.rotation, !.known = known, !.lost = lost]
    BY <1>3 DEF Session
  <2> HIDE DEF known, lost, next
  <2>3. next \in Session
    BY <1>3, <2>1, <2>2 DEF Session
  <2>4. /\ next.user = row.user /\ next.revoked = row.revoked
        /\ next.guest = row.guest /\ next.proof = row.proof /\ next.lost = lost
    BY <1>3, <2>2 DEF Session
  <2>5. QED
    BY <1>2, <1>3, <2>1, <2>3, <2>4 DEF Sound
<1> HIDE DEF next
<1>6. /\ sessions' \in [Sessions -> Session \cup {None}] /\ sessions'[s] = next
      /\ \A t \in Sessions \ {s} : sessions'[t] = sessions[t]
  BY <1>1, <1>3, <1>5 DEF AuthInv, Shape
<1>7. Rows' = Rows
  BY <1>2, <1>5, <1>6, NoneIsNoAccount DEF Rows
<1>8. PICK q \in Request :
        Go(r, q) /\ q.step # "refresh" /\ (q.step = "reject" => q.session = s)
        /\ q.step \in {"idle", "reject"}
  <2>1. CASE m
    <3> DEFINE q == [step |-> "reject", session |-> s]
    <3>1. q \in Request /\ q.step = "reject" /\ q.session = s
      BY <1>3 DEF Request, Reject
    <3>2. Go(r, q)
      BY <1>1, <2>1 DEF Finish
    <3> HIDE DEF q
    <3>3. QED
      BY <3>1, <3>2
  <2>2. CASE ~m
    <3>1. Idle \in Request /\ Idle.step = "idle"
      BY DEF Request, Idle
    <3>2. Go(r, Idle)
      BY <1>1, <2>2 DEF Finish
    <3>3. QED
      BY <3>1, <3>2
  <2>3. QED
    BY <1>4, <2>1, <2>2
<1>9. /\ requests' \in [Requests -> Request] /\ requests'[r] = q
      /\ \A t \in Requests \ {r} : requests'[t] = requests[t]
  BY <1>8 DEF AuthInv, Shape, Go
<1>10. Shape'
  <2>1. late \in [Users -> Nat]
    BY DEF AuthInv, Shape
  <2>2. late' = late \/ late' = [late EXCEPT ![row.user] = @ + 1]
    BY <1>1 DEF Answer
  <2>3. late' \in [Users -> Nat]
    BY <2>1, <2>2
  <2>4. QED
    BY <1>1, <1>6, <1>9, <2>3 DEF AuthInv, Shape
<1>11. \A t \in Requests : Rotating(t)' =>
         /\ Rotating(t) /\ requests'[t] = requests[t] /\ requests[t].session # s
  <2>1. r \in Requests /\ Rotating(r) /\ requests[r].session = s
    BY <1>1 DEF Rotating, s
  <2>2. \A t \in Requests : Rotating(t)' => t # r /\ requests'[t] = requests[t] /\ Rotating(t)
    BY <1>8, <1>9 DEF Rotating
  <2>3. QED
    BY <2>1, <2>2 DEF AuthInv, LocksHold
<1>12. LocksHold'
  <2>1. \A t \in Requests : Rotating(t)' =>
          /\ requests'[t].session \in Rows
          /\ ~sessions'[requests'[t].session].revoked
          /\ sessions'[requests'[t].session].rotation = requests'[t].rotation
    BY <1>6, <1>11 DEF AuthInv, LocksHold, Rows
  <2>2. \A t, v \in Requests :
          Rotating(t)' /\ Rotating(v)' /\ requests'[t].session = requests'[v].session => t = v
    BY <1>11 DEF AuthInv, LocksHold
  <2>3. \A t, v \in Requests :
          Rotating(t)' /\ requests'[v].step = "provisioned"
          => requests'[t].session \notin requests'[v].closed
    BY <1>8, <1>9, <1>11 DEF AuthInv, LocksHold
  <2>4. QED
    BY <1>1, <1>7, <2>1, <2>2, <2>3 DEF LocksHold
<1>13. \A t \in Requests : Refers(requests[t])'
  BY <1>1, <1>2, <1>7, <1>8, <1>9 DEF AuthInv, Refers
<1>14. AccountsExist' /\ Returning'
  <2>1. \A t \in Rows : Held(users, sessions'[t])
    BY <1>2, <1>3, <1>5, <1>6 DEF AuthInv, AccountsExist, Held, Rows, row
  <2>2. QED
    BY <1>1, <1>7, <2>1 DEF AuthInv, AccountsExist, Returning
<1>15. UpgradedAreMembers' /\ \A t \in Rows' : Sound(sessions'[t])
  BY <1>1, <1>5, <1>6, <1>7 DEF AuthInv, UpgradedAreMembers, Rows
<1>16. RevokedStays
  BY <1>2, <1>6 DEF RevokedStays, Rows, row
<1>17. LateCounts
  <2>1. UsersGrow /\ \A u \in Users : Admin(u)' = Admin(u)
    BY <1>1, UsersStay
  <2>2. \A u \in Users : Stale(u)' \subseteq Stale(u) \ {r}
    <3> SUFFICES ASSUME NEW u \in Users, NEW t \in Requests, Outdated(requests[t], u)'
                 PROVE  t # r /\ Outdated(requests[t], u)
      BY DEF Stale
    <3>1. t # r /\ requests'[t] = requests[t] /\ Refers(requests[t])
      BY <1>8, <1>9 DEF AuthInv, Outdated, About
    <3>2. Rotating(t) => requests[t].session \in Rows
      BY DEF AuthInv, LocksHold
    <3>3. \A v \in Rows : sessions'[v].user = sessions[v].user
      BY <1>5, <1>6 DEF Rows, row
    <3>4. QED
      BY <3>1, <3>2, <3>3 DEF Outdated, About, Refers, Rotating
  <2>3. row.user \in Users
    BY <1>3 DEF Session
  <2>4. QED
    BY <1>1, <1>4, <1>19, <2>1, <2>2, <2>3, LateAnswers
<1>18. QED
  BY <1>10, <1>12, <1>13, <1>14, <1>15, <1>16, <1>17 DEF AuthInv, LateCounts

-----------------------------------------------------------------------------
LEMMA ReadsKeep ==
  ASSUME AuthInv, NEW r \in Requests, Reads(r)
  PROVE  AuthInv' /\ RevokedStays
<1>1. ASSUME NEW p \in Caller, NEW e \in Emails, RegisterRead(r, p, e)
      PROVE  AuthInv' /\ RevokedStays
  BY <1>1, RegisterReadKeeps
<1>2. ASSUME NEW u \in Users, NEW w \in Passwords, LoginRead(r, u, w)
      PROVE  AuthInv' /\ RevokedStays
  BY <1>2, LoginReadKeeps
<1>3. ASSUME NEW p \in Caller, NEW g \in Subjects, NEW e \in Emails, GoogleStart(r, p, g, e)
      PROVE  AuthInv' /\ RevokedStays
  BY <1>3, GoogleStartKeeps
<1>4. CASE GoogleReadLinked(r)
  BY <1>4, GoogleReadLinkedKeeps
<1>5. CASE GoogleReadUnlinked(r)
  BY <1>5, GoogleReadUnlinkedKeeps
<1>6. ASSUME NEW p \in Principals, ScanRead(r, p)
      PROVE  AuthInv' /\ RevokedStays
  BY <1>6, ScanReadKeeps
<1>7. ASSUME NEW s \in Sessions, RefreshRead(r, s)
      PROVE  AuthInv' /\ RevokedStays
  BY <1>7, RefreshReadKeeps
<1>8. ASSUME NEW e \in Emails, NEW w \in Passwords, ProvisionRead(r, e, w)
      PROVE  AuthInv' /\ RevokedStays
  BY <1>8, ProvisionReadKeeps
<1>9. QED
  BY <1>1, <1>2, <1>3, <1>4, <1>5, <1>6, <1>7, <1>8 DEF Reads

LEMMA CommitsKeep ==
  ASSUME AuthInv, NEW r \in Requests, Commits(r)
  PROVE  AuthInv' /\ RevokedStays
<1>1. ASSUME NEW u \in Users, NEW s \in Sessions, NEW surface \in Clients, NEW w \in Passwords,
             RegisterCommit(r, u, w, s, surface)
      PROVE  AuthInv' /\ RevokedStays
  BY <1>1, RegisterCommitKeeps
<1>2. ASSUME NEW u \in Users, NEW s \in Sessions, NEW surface \in Clients,
             GoogleJoin(r, u, s, surface)
      PROVE  AuthInv' /\ RevokedStays
  BY <1>2, GoogleJoinKeeps
<1>3. ASSUME NEW s \in Sessions, NEW surface \in Clients \cup {"console"},
             LoginCommit(r, s, surface)
      PROVE  AuthInv' /\ RevokedStays
  BY <1>3, LoginCommitKeeps
<1>4. ASSUME NEW s \in Sessions, NEW surface \in Clients, NEW b,
             GoogleSignIn(r, s, surface, b) \/ GoogleLink(r, s, surface, b)
      PROVE  AuthInv' /\ RevokedStays
  BY <1>4, GoogleSignInKeeps, GoogleLinkKeeps
<1>5. ASSUME NEW s \in Sessions, ScanCommit(r, s)
      PROVE  AuthInv' /\ RevokedStays
  BY <1>5, ScanCommitKeeps
<1>6. CASE RejectCommit(r)
  BY <1>6, RejectCommitKeeps
<1>7. ASSUME NEW console \in BOOLEAN, RefreshCommit(r, console)
      PROVE  AuthInv' /\ RevokedStays
  BY <1>7, RefreshCommitKeeps
<1>8. ASSUME NEW u \in Users, ProvisionCommit(r, u)
      PROVE  AuthInv' /\ RevokedStays
  BY <1>8, ProvisionCommitKeeps
<1>9. CASE ProvisionRevoke(r)
  BY <1>9, ProvisionRevokeKeeps
<1>10. QED
  BY <1>1, <1>2, <1>3, <1>4, <1>5, <1>6, <1>7, <1>8, <1>9 DEF Commits

LEMMA AuthStutters ==
  ASSUME AuthInv, UNCHANGED vars
  PROVE  AuthInv' /\ RevokedStays
<1>1. UNCHANGED <<users, identities, sessions, requests, upgrades, late>>
  BY DEF vars
<1>2. /\ UsersGrow /\ UpgradesCount /\ RequestsMove
      /\ \A u \in Users : Admin(u)' = Admin(u)
  BY <1>1, UsersStay, UpgradesStay, RequestsStay
<1>3. SessionsMove
  BY <1>1, <1>2, SessionsStay
<1>4. LateCounts
  BY <1>1, <1>2, <1>3, StaleStays, LateStays
<1>5. QED
  BY <1>2, <1>3, <1>4, MovesKeep

LEMMA AuthSteps ==
  ASSUME AuthInv, [Next]_vars
  PROVE  AuthInv' /\ RevokedStays
<1>1. ASSUME NEW u \in Users, NEW s \in Sessions, Anonymous(u, s)
      PROVE  AuthInv' /\ RevokedStays
  BY <1>1, AnonymousKeeps
<1>2. ASSUME NEW r \in Requests, Reads(r) \/ Commits(r) \/ Abandon(r)
      PROVE  AuthInv' /\ RevokedStays
  BY <1>2, ReadsKeep, CommitsKeep, AbandonKeeps
<1>3. ASSUME NEW s \in Sessions, Logout(s)
      PROVE  AuthInv' /\ RevokedStays
  <2> DEFINE S == {s}
  <2>1. Revoke(S) /\ UNCHANGED <<users, identities, requests, upgrades, late>>
    BY <1>3 DEF Logout
  <2>2. S \subseteq Rows
    BY <1>3, CallersHaveRows DEF Logout
  <2> HIDE DEF S
  <2>3. QED
    BY <2>1, <2>2, LogoutKeeps
<1>4. ASSUME NEW s \in Sessions, LogoutEverywhere(s)
      PROVE  AuthInv' /\ RevokedStays
  <2> DEFINE S == Of(PrincipalUser(s))
  <2>1. Revoke(S) /\ UNCHANGED <<users, identities, requests, upgrades, late>>
    BY <1>4 DEF LogoutEverywhere
  <2>2. S \subseteq Rows
    BY OfRows
  <2> HIDE DEF S
  <2>3. QED
    BY <2>1, <2>2, LogoutKeeps
<1>5. CASE UNCHANGED vars
  BY <1>5, AuthStutters
<1>6. QED
  BY <1>1, <1>2, <1>3, <1>4, <1>5 DEF Next

\* The inductive invariant: every session of a member was proved, a rotation
\* holds its session, and what a request has read is still there.
THEOREM AuthInvariant == Spec => []AuthInv
<1>1. AuthInv /\ [Next]_vars => AuthInv'
  BY AuthSteps
<1>2. QED
  BY <1>1, AuthStarts, PTL DEF Spec

\* Every reachable state has the declared shape: no request writes half a row,
\* and none is issued a session that is bound to neither guest nor member
\* (auth.py:62).
THEOREM AccountsTypeCorrect == Spec => []TypeOK
<1>1. AuthInv => TypeOK
  <2>1. ASSUME Shape PROVE upgrades \in [Users -> Nat]
    BY <2>1 DEF Shape
  <2>2. QED
    BY <2>1 DEF AuthInv, Shape, TypeOK
<1>2. QED
  BY <1>1, AuthInvariant, PTL

\* Nobody acts as a member without a password or a Google token shown, also
\* with a session issued to the guest that the member was (auth.py:62, :592).
THEOREM MembersAlwaysShowedProof == Spec => []MembersShowedProof
<1>1. AuthInv => MembersShowedProof
  <2> SUFFICES ASSUME AuthInv, NEW s \in Rows, Accepted(s), ~users[sessions[s].user].guest
               PROVE  sessions[s].proof
    BY DEF MembersShowedProof
  <2>1. ~sessions[s].guest /\ Sound(sessions[s])
    BY DEF Accepted, AuthInv
  <2>2. QED
    BY <2>1 DEF Sound
<1>2. QED
  BY <1>1, AuthInvariant, PTL

\* However many requests upgrade one guest at the same time, by password or by
\* Google, one is answered (auth.py:118).
THEOREM OneUpgradeAlwaysWins == Spec => []OneUpgradeWins
<1>1. AuthInv => OneUpgradeWins
  <2> SUFFICES ASSUME AuthInv, NEW u \in Users PROVE upgrades[u] <= 1
    BY DEF OneUpgradeWins
  <2>1. upgrades[u] \in {0, 1}
    BY DEF AuthInv, Shape
  <2>2. QED
    BY <2>1
<1>2. QED
  BY <1>1, AuthInvariant, PTL

\* Of the refreshes with one token one is answered, and the token of that
\* answer works (auth.py:572).
THEOREM HeldTokensStayCurrent == Spec => []HeldTokensAreCurrent
<1>1. AuthInv => HeldTokensAreCurrent
  BY DEF AuthInv, Sound, HeldTokensAreCurrent
<1>2. QED
  BY <1>1, AuthInvariant, PTL

\* A revoked session is accepted never again, and yields no token
\* (auth.py:584, :650).
THEOREM RevocationsAreFinal == Spec => RevokedIsFinal
<1>1. AuthInv /\ [Next]_vars => RevokedStays
  BY AuthSteps
<1>2. RevokedStays => [\A s \in Rows : sessions[s].revoked =>
         sessions'[s].revoked /\ sessions'[s].rotation = sessions[s].rotation]_vars
  BY DEF RevokedStays
<1>3. QED
  BY <1>1, <1>2, AuthInvariant, PTL DEF Spec, RevokedIsFinal

\* Once an account is an administrator's, the public web site answers its browser
\* with tokens at most as often as requests were under way besides the promotion,
\* for ever after and on whatever path (api/auth.py:146, :188, :226;
\* create_admin.py:120).
THEOREM LateWebAnswersStayFew == Spec => []LateWebAnswersAreFew
<1>1. AuthInv => LateWebAnswersAreFew
  <2> SUFFICES ASSUME AuthInv, NEW u \in Users
               PROVE  late[u] <= Cardinality(Requests) - 1
    BY DEF LateWebAnswersAreFew
  <2>1. /\ late[u] \in Nat
        /\ Admin(u) => late[u] + Cardinality(Stale(u)) <= Cardinality(Requests) - 1
        /\ ~Admin(u) => late[u] = 0
    BY DEF AuthInv, Shape, LateCounted
  <2>2. CASE Admin(u)
    BY <2>1, <2>2, StaleFinite
  <2>3. CASE ~Admin(u)
    <3>1. Cardinality(Requests) # 0
      BY AuthAssumptions, FS_EmptySet
    <3>2. QED
      BY <2>1, <2>3, <3>1, StaleFinite
  <2>4. QED
    BY <2>2, <2>3
<1>2. QED
  BY <1>1, AuthInvariant, PTL

\* Every member can sign in again: it has a password or the one Google account
\* that is linked to it, and its email is nobody else's (auth.py:271, :549).
THEOREM MembersCanAlwaysReturn == Spec => []MembersCanReturn
<1>1. AuthInv => MembersCanReturn
  <2> SUFFICES ASSUME AuthInv, NEW u \in Accounts, ~users[u].guest
               PROVE  /\ users[u].password # None \/ Subject(u) # {}
                      /\ Cardinality(Subject(u)) <= 1
                      /\ Owners(users[u].email) = {u}
    BY DEF MembersCanReturn
  <2>1. u \in Users /\ users[u] # None /\ users[u].email # None
    BY DEF Accounts, AuthInv, Returning
  <2>2. users[u].password # None \/ Subject(u) # {}
    BY <2>1 DEF AuthInv, Returning, Subject
  <2>3. Cardinality(Subject(u)) <= 1
    <3>1. \A g, h \in Subject(u) : g = h
      BY <2>1, AuthAssumptions DEF AuthInv, Returning, Subject
    <3>2. CASE Subject(u) = {}
      <4>1. Cardinality(Subject(u)) = 0
        BY <3>2, FS_EmptySet
      <4>2. QED
        BY <4>1
    <3>3. CASE Subject(u) # {}
      <4>1. PICK g : g \in Subject(u)
        BY <3>3
      <4>2. Subject(u) = {g}
        BY <3>1, <4>1
      <4>3. Cardinality({g}) = 1
        BY FS_Singleton
      <4>4. QED
        BY <4>2, <4>3
    <3>4. QED
      BY <3>2, <3>3
  <2>4. Owners(users[u].email) = {u}
    BY <2>1 DEF AuthInv, Returning, Owners, Accounts
  <2>5. QED
    BY <2>2, <2>3, <2>4
<1>2. QED
  BY <1>1, AuthInvariant, PTL
=============================================================================
