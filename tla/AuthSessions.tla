---------------------------- MODULE AuthSessions ----------------------------
(***************************************************************************)
(* Accounts and their sessions: anonymous and QR guests, registration,     *)
(* password and Google sign-in, guest upgrades, refresh rotation, logout,  *)
(* the separate sign-in of administrators (app/services/auth.py,           *)
(* app/api/auth.py, app/api/admin.py, app/api/qr.py, app/dependencies.py)  *)
(* and the operator's script that provisions one (scripts/create_admin.py).*)
(*                                                                         *)
(* A request reads in one step and writes in another; what it wrote is     *)
(* seen at its commit.  The row locks that decide who waits are those on   *)
(* sessions: FOR UPDATE of rotate_refresh_token, and the rows that         *)
(* provision_admin has updated, which it holds until it commits.  Of a     *)
(* refresh token only whether it is the current one of its session is      *)
(* kept: a bit that every rotation flips.  Expiry is left out: like        *)
(* revocation, and later, it makes a session refuse.                       *)
(***************************************************************************)
EXTENDS Integers, FiniteSets

CONSTANTS
    Users, Sessions,        \* ids of rows
    Subjects,               \* Google accounts
    Emails, Passwords,
    Clients,                \* "web", "app": client_type, by the rules that ask for it
    Requests,               \* requests served at the same time
    None

ASSUME AuthAssumptions ==
    /\ Clients \subseteq {"app", "web"}
    /\ IsFiniteSet(Requests) /\ Requests # {}
    /\ None \notin Users \cup Sessions \cup Subjects \cup Emails \cup Passwords

VARIABLES
    users,          \* users, None for an id not used yet
    identities,     \* auth_identities: provider "google", unique by subject
    sessions,       \* auth_sessions, None for an id not used yet
    requests,       \* per request: what it has read
    upgrades,       \* history: upgrades of a guest that were answered
    late            \* history: answers with tokens of the public web site to an
                    \* account that was an administrator's when they were committed

vars == <<users, identities, sessions, requests, upgrades, late>>

User == [guest: BOOLEAN, email: Emails \cup {None}, password: Passwords \cup {None},
         admin: BOOLEAN]
\* The scopes "guest" and "qr_guest", which no rule of this module tells
\* apart, are the surface "guest"; "full" is "web" or "app" by its client;
\* "console" is the scope "admin".
Surfaces == Clients \cup {"guest", "console"}
\* What of the session the client was answered and may still use: nothing, an
\* access token whose refresh token has been replaced since, or the current tokens.
Knowledge == {"nothing", "access", "current"}
\* History: "proof", whether the requests that led to the session began with
\* a password or a Google token; "lost", whether a refresh token that a client
\* had was replaced by another exchange than its own.
Session == [user: Users, guest: BOOLEAN, surface: Surfaces, revoked: BOOLEAN,
            rotation: {0, 1}, known: Knowledge, proof: BOOLEAN, lost: BOOLEAN]

Idle == [step |-> "idle"]
Register == [step: {"register"}, principal: Sessions \cup {None}, email: Emails]
Login == [step: {"login"}, user: Users, admin: BOOLEAN]
Google == [step: {"google"}, principal: Sessions \cup {None}, subject: Subjects, email: Emails]
SignIn == [step: {"signin"}, principal: Sessions \cup {None}, subject: Subjects,
           email: Emails, user: Users, admin: BOOLEAN, setsEmail: BOOLEAN]
Join == [step: {"join"}, principal: Sessions \cup {None}, subject: Subjects, email: Emails,
         admin: BOOLEAN]
Scan == [step: {"scan"}, principal: Sessions]
Refresh == [step: {"refresh"}, session: Sessions, rotation: {0, 1}, admin: BOOLEAN]
Reject == [step: {"reject"}, session: Sessions]
Provision == [step: {"provision"}, user: Users \cup {None}, email: Emails,
              password: Passwords]
Provisioned == [step: {"provisioned"}, user: Users \cup {None}, email: Emails,
                password: Passwords, closed: SUBSET Sessions]
Request == {Idle} \cup Register \cup Login \cup Google \cup SignIn \cup Join \cup Scan
    \cup Refresh \cup Reject \cup Provision \cup Provisioned

ASSUME NoneIsNoAccount == None \notin User \cup Session

TypeOK ==
    /\ users \in [Users -> User \cup {None}]
    /\ identities \in [Subjects -> Users \cup {None}]
    /\ sessions \in [Sessions -> Session \cup {None}]
    /\ requests \in [Requests -> Request]
    /\ upgrades \in [Users -> Nat]
    /\ late \in [Users -> Nat]

-----------------------------------------------------------------------------
Rows == {s \in Sessions : sessions[s] # None}
Of(u) == {s \in Rows : sessions[s].user = u}
Accounts == {u \in Users : users[u] # None}
Owners(e) == {u \in Accounts : users[u].email = e}

\* Fault: is_guest_at_issue is not compared.
AcceptedUnlessRevoked(s) == s \in Rows /\ ~sessions[s].revoked

\* get_optional_principal and rotate_refresh_token: the session is not
\* revoked, and its user is the guest or the member it was issued to.
Accepted(s) ==
    /\ s \in Rows /\ ~sessions[s].revoked
    /\ sessions[s].guest = users[sessions[s].user].guest

\* SELECT ... FOR UPDATE of a rotation, or the UPDATE of a promotion, that has
\* not committed.
Locked(s) ==
    \E r \in Requests :
        \/ requests[r].step = "refresh" /\ requests[r].session = s
        \/ requests[r].step = "provisioned" /\ s \in requests[r].closed

\* Fault: users.email is not unique.
EmailsMayRepeat(e, u) == TRUE

\* The unique key of users.email, when u is about to have it.
EmailFree(e, u) == Owners(e) \subseteq {u}

Go(r, q) == requests' = [requests EXCEPT ![r] = q]

\* The caller's access token; None is a request without one.
Principals == {s \in Sessions : Accepted(s) /\ sessions[s].known # "nothing"}
PrincipalUser(s) == sessions[s].user

Closed(row) == [row EXCEPT !.revoked = TRUE, !.known = "nothing"]

\* issue_session, once the sessions in "revoked" are.
Issue(s, row, revoked) ==
    /\ sessions[s] = None
    /\ \A t \in revoked : ~Locked(t)
    /\ sessions' = [t \in Sessions |->
         IF t = s THEN row
         ELSE IF t \in revoked THEN Closed(sessions[t])
         ELSE sessions[t]]

\* Fault: is_guest_at_issue is not set.
NewSessionUnbound(u, guest, surface, proof, known) ==
    [user |-> u, guest |-> None, surface |-> surface, revoked |-> FALSE, rotation |-> 0,
     known |-> known, proof |-> proof, lost |-> FALSE]

NewSession(u, guest, surface, proof, known) ==
    [user |-> u, guest |-> guest, surface |-> surface, revoked |-> FALSE, rotation |-> 0,
     known |-> known, proof |-> proof, lost |-> FALSE]

\* revoked_at of the rows S.
Close(S) ==
    sessions' = [s \in Sessions |->
         IF s \in S THEN Closed(sessions[s]) ELSE sessions[s]]

\* Fault: a revocation does not wait for a rotation.
RevokeUnlocked(S) == Close(S)

Revoke(S) == (\A s \in S : ~Locked(s)) /\ Close(S)

-----------------------------------------------------------------------------
Init ==
    /\ users = [u \in Users |-> None]
    /\ identities = [g \in Subjects |-> None]
    /\ sessions = [s \in Sessions |-> None]
    /\ requests = [r \in Requests |-> Idle]
    /\ upgrades = [u \in Users |-> 0]
    /\ late = [u \in Users |-> 0]

\* create_anonymous_user, and a QR scan without a bearer token.
Anonymous(u, s) ==
    /\ users[u] = None
    /\ users' = [users EXCEPT ![u] =
         [guest |-> TRUE, email |-> None, password |-> None, admin |-> FALSE]]
    /\ Issue(s, NewSession(u, TRUE, "guest", FALSE, "current"), {})
    /\ UNCHANGED <<identities, requests, upgrades, late>>

\* register: the principal must be a guest, the email free.
RegisterRead(r, p, e) ==
    /\ requests[r] = Idle
    /\ Owners(e) = {}
    /\ p # None => users[PrincipalUser(p)].guest
    /\ Go(r, [step |-> "register", principal |-> p, email |-> e])
    /\ UNCHANGED <<users, identities, sessions, upgrades, late>>

\* Fault: the UPDATE is by id only.
ClaimableById(u) == users[u] # None

\* _claim_guest_upgrade: UPDATE ... WHERE is_guest, and its rowcount.
Claimable(u) == users[u] # None /\ users[u].guest

\* The caller becomes a member: a new account, or the guest it was.
Joins(u, p) ==
    IF p = None THEN users[u] = None ELSE u = PrincipalUser(p) /\ Claimable(u)

\* A member's row; an upgrade keeps the guest's roles.
Member(e, w) == [guest |-> FALSE, email |-> e, password |-> w, admin |-> FALSE]

\* _revoke_active_sessions_for_guest_upgrade.
RevokedByUpgrade(u, p) == IF p = None THEN {} ELSE Of(u)

CountUpgrade(u, p) ==
    upgrades' = IF p = None THEN upgrades ELSE [upgrades EXCEPT ![u] = @ + 1]

\* register_user from the claim or the insert to its commit; users.email is
\* unique.
RegisterCommit(r, u, w, s, surface) ==
    LET q == requests[r] IN
    /\ q.step = "register"
    /\ Joins(u, q.principal)
    /\ EmailFree(q.email, u)
    /\ users' = [users EXCEPT ![u] = Member(q.email, w)]
    /\ Issue(s, NewSession(u, FALSE, surface, TRUE, "current"),
             RevokedByUpgrade(u, q.principal))
    /\ CountUpgrade(u, q.principal)
    /\ Go(r, Idle)
    /\ UNCHANGED <<identities, late>>

-----------------------------------------------------------------------------
\* login_user until the password is verified.
LoginRead(r, u, w) ==
    /\ requests[r] = Idle
    /\ users[u] # None /\ ~users[u].guest /\ users[u].password = w
    /\ Go(r, [step |-> "login", user |-> u, admin |-> users[u].admin])
    /\ UNCHANGED <<users, identities, sessions, upgrades, late>>

\* Fault: an administrator may stay on the public site.
MisplacedAtConsole(surface, admin) == surface = "console" /\ ~admin

\* login, google_login, refresh answer 403 to an administrator's browser;
\* admin_login and admin_refresh to everyone else.
Misplaced(surface, admin) ==
    (surface = "web" /\ admin) \/ (surface = "console" /\ ~admin)

\* Then a second transaction revokes the session just issued.
Finish(r, s, misplaced) ==
    Go(r, IF misplaced THEN [step |-> "reject", session |-> s] ELSE Idle)
Known(misplaced) == IF misplaced THEN "nothing" ELSE "current"

\* The answer that is then given counts, when it is late.
Answer(u, surface, misplaced) ==
    late' = IF surface = "web" /\ ~misplaced /\ users[u].admin
            THEN [late EXCEPT ![u] = @ + 1] ELSE late

LoginCommit(r, s, surface) ==
    LET q == requests[r]
        misplaced == Misplaced(surface, q.admin) IN
    /\ q.step = "login"
    /\ Issue(s, NewSession(q.user, FALSE, surface, TRUE, Known(misplaced)), {})
    /\ Finish(r, s, misplaced)
    /\ Answer(q.user, surface, misplaced)
    /\ UNCHANGED <<users, identities, upgrades>>

\* revoke_sessions of the session that was just issued or rotated.
RejectCommit(r) ==
    /\ requests[r].step = "reject"
    /\ Revoke({requests[r].session})
    /\ Go(r, Idle)
    /\ UNCHANGED <<users, identities, upgrades, late>>

-----------------------------------------------------------------------------
\* login_google_user while Google's certificates are fetched.
GoogleStart(r, p, g, e) ==
    /\ requests[r] = Idle
    /\ Go(r, [step |-> "google", principal |-> p, subject |-> g, email |-> e])
    /\ UNCHANGED <<users, identities, sessions, upgrades, late>>

\* The subject is linked to an account: sign in to it, unless the caller is
\* another member.
GoogleReadLinked(r) ==
    LET q == requests[r]
        u == identities[q.subject]
        c == PrincipalUser(q.principal) IN
    /\ q.step = "google" /\ u # None
    /\ q.principal # None => users[c].guest \/ c = u
    /\ Go(r, [step |-> "signin", principal |-> q.principal, subject |-> q.subject,
              email |-> q.email, user |-> u, admin |-> users[u].admin,
              setsEmail |-> users[u].password = None /\ Owners(q.email) \subseteq {u}])
    /\ UNCHANGED <<users, identities, sessions, upgrades, late>>

\* What a Google sign-in of a member revokes: the caller's session and, by
\* the hash of its refresh token, the one the client kept as a backup.
Replaced(p, backup) ==
    IF p = None THEN {}
    ELSE {p} \cup {s \in Of(PrincipalUser(p)) \cap backup : sessions[s].known = "current"}

GoogleSignIn(r, s, surface, backup) ==
    LET q == requests[r]
        misplaced == Misplaced(surface, q.admin) IN
    /\ q.step = "signin"
    /\ q.setsEmail => EmailFree(q.email, q.user)
    /\ users' = IF q.setsEmail THEN [users EXCEPT ![q.user].email = q.email] ELSE users
    /\ Issue(s, NewSession(q.user, FALSE, surface, TRUE, Known(misplaced)),
             Replaced(q.principal, backup))
    /\ Finish(r, s, misplaced)
    /\ Answer(q.user, surface, misplaced)
    /\ UNCHANGED <<identities, upgrades>>

Subject(u) == {g \in Subjects : identities[g] = u}

\* Not linked yet: the caller's account, if any, has no other Google account
\* (asked of members), and the email belongs to nobody else.
GoogleReadUnlinked(r) ==
    LET q == requests[r]
        c == PrincipalUser(q.principal) IN
    /\ q.step = "google" /\ identities[q.subject] = None
    /\ IF q.principal = None THEN Owners(q.email) = {}
       ELSE /\ Owners(q.email) \subseteq {c}
            /\ ~sessions[q.principal].guest => Subject(c) = {}
    /\ Go(r, [step |-> "join", principal |-> q.principal, subject |-> q.subject,
              email |-> q.email, admin |-> q.principal # None /\ users[c].admin])
    /\ UNCHANGED <<users, identities, sessions, upgrades, late>>

\* uq_auth_identities_provider_subject and uq_auth_identities_user_provider.
Linkable(g, u) == identities[g] = None /\ Subject(u) = {}

\* A new account or an upgrade.
GoogleJoin(r, u, s, surface) ==
    LET q == requests[r] IN
    /\ q.step = "join"
    /\ q.principal # None => sessions[q.principal].guest
    /\ Joins(u, q.principal)
    /\ EmailFree(q.email, u)
    /\ Linkable(q.subject, u)
    /\ users' = [users EXCEPT ![u] = Member(q.email, None)]
    /\ identities' = [identities EXCEPT ![q.subject] = u]
    /\ Issue(s, NewSession(u, FALSE, surface, TRUE, "current"),
             RevokedByUpgrade(u, q.principal))
    /\ CountUpgrade(u, q.principal)
    /\ Go(r, Idle)
    /\ UNCHANGED late

\* A member links a Google account; its email does not change.
GoogleLink(r, s, surface, backup) ==
    LET q == requests[r]
        u == PrincipalUser(q.principal)
        misplaced == Misplaced(surface, q.admin) IN
    /\ q.step = "join"
    /\ q.principal # None /\ ~sessions[q.principal].guest
    /\ Linkable(q.subject, u)
    /\ identities' = [identities EXCEPT ![q.subject] = u]
    /\ Issue(s, NewSession(u, FALSE, surface, TRUE, Known(misplaced)),
             Replaced(q.principal, backup))
    /\ Finish(r, s, misplaced)
    /\ Answer(u, surface, misplaced)
    /\ UNCHANGED <<users, upgrades>>

-----------------------------------------------------------------------------
\* create_qr_guest_session of a signed-in caller.
ScanRead(r, p) ==
    /\ requests[r] = Idle
    /\ Go(r, [step |-> "scan", principal |-> p])
    /\ UNCHANGED <<users, identities, sessions, upgrades, late>>

\* The session is issued to the guest or member that was read; a guest's own
\* session ends.
ScanCommit(r, s) ==
    LET p == requests[r].principal IN
    /\ requests[r].step = "scan"
    /\ Issue(s, NewSession(PrincipalUser(p), sessions[p].guest, "guest", sessions[p].proof,
                           "current"),
             IF sessions[p].surface = "guest" THEN {p} ELSE {})
    /\ Go(r, Idle)
    /\ UNCHANGED <<users, identities, upgrades, late>>

\* Fault: the session row is read without a lock.
LockableAlways(s) == TRUE

\* rotate_refresh_token: who waits for the row sees what the other committed.
Lockable(s) == ~Locked(s)

RefreshRead(r, s) ==
    /\ requests[r] = Idle
    /\ Accepted(s) /\ sessions[s].known = "current"
    /\ Lockable(s)
    /\ Go(r, [step |-> "refresh", session |-> s, rotation |-> sessions[s].rotation,
              admin |-> users[sessions[s].user].admin])
    /\ UNCHANGED <<users, identities, sessions, upgrades, late>>

\* "console" is admin_refresh.  The new hash is that of a random token.
RefreshCommit(r, console) ==
    LET q == requests[r]
        s == q.session
        row == sessions[s]
        misplaced == IF console THEN row.surface # "console" \/ ~q.admin
                     ELSE row.surface # "console" /\ Misplaced(row.surface, q.admin) IN
    /\ q.step = "refresh"
    /\ sessions' = [sessions EXCEPT ![s] =
         [row EXCEPT !.rotation = 1 - @,
                     !.known = IF misplaced THEN "access" ELSE "current",
                     !.lost = @ \/ (row.known = "current" /\ q.rotation # row.rotation)]]
    /\ Finish(r, s, misplaced)
    /\ Answer(row.user, row.surface, misplaced)
    /\ UNCHANGED <<users, identities, upgrades>>

\* logout of one session, by access or by refresh token.
Logout(s) ==
    /\ s \in Principals
    /\ Revoke({s})
    /\ UNCHANGED <<users, identities, requests, upgrades, late>>

\* logout with all_sessions.
LogoutEverywhere(p) ==
    /\ p \in Principals
    /\ Revoke(Of(PrincipalUser(p)))
    /\ UNCHANGED <<users, identities, requests, upgrades, late>>

-----------------------------------------------------------------------------
\* provision_admin of scripts/create_admin.py.
ProvisionRead(r, e, w) ==
    /\ requests[r] = Idle
    /\ \E u \in Users \cup {None} :
         /\ IF Owners(e) = {} THEN u = None ELSE u \in Owners(e)
         /\ Go(r, [step |-> "provision", user |-> u, email |-> e, password |-> w])
    /\ UNCHANGED <<users, identities, sessions, upgrades, late>>

\* UPDATE auth_sessions: of the sessions that are committed by now.  Plain reads
\* still accept them; who would rotate or revoke one waits.
ProvisionRevoke(r) ==
    LET q == requests[r]
        closed == {s \in Of(q.user) : ~sessions[s].revoked} IN
    /\ q.step = "provision"
    /\ \A s \in closed : ~Locked(s)
    /\ Go(r, [step |-> "provisioned", user |-> q.user, email |-> q.email,
              password |-> q.password, closed |-> closed])
    /\ UNCHANGED <<users, identities, sessions, upgrades, late>>

\* The ORM sends UPDATE users with the COMMIT; the email read is the one written,
\* and is left out of it.
ProvisionCommit(r, u) ==
    LET q == requests[r] IN
    /\ q.step = "provisioned"
    /\ IF q.user = None THEN users[u] = None /\ EmailFree(q.email, u) ELSE u = q.user
    /\ users' = [users EXCEPT ![u] =
         [Member(IF q.user = None THEN q.email ELSE users[u].email, q.password)
            EXCEPT !.admin = TRUE]]
    /\ Close(q.closed)
    /\ Go(r, Idle)
    /\ UNCHANGED <<identities, upgrades, late>>

\* A request is refused, rolled back, or its process dies: it ends with no
\* change but what it committed.
Abandon(r) ==
    /\ requests[r] # Idle
    /\ Go(r, Idle)
    /\ UNCHANGED <<users, identities, sessions, upgrades, late>>

Caller == Principals \cup {None}

Reads(r) ==
    \/ \E p \in Caller, e \in Emails : RegisterRead(r, p, e)
    \/ \E u \in Users, w \in Passwords : LoginRead(r, u, w)
    \/ \E p \in Caller, g \in Subjects, e \in Emails : GoogleStart(r, p, g, e)
    \/ GoogleReadLinked(r) \/ GoogleReadUnlinked(r)
    \/ \E p \in Principals : ScanRead(r, p)
    \/ \E s \in Sessions : RefreshRead(r, s)
    \/ \E e \in Emails, w \in Passwords : ProvisionRead(r, e, w)

\* replaced_refresh_token of a Google sign-in.
Backups == {{}} \cup {{s} : s \in Rows}

Commits(r) ==
    \/ \E u \in Users, s \in Sessions, surface \in Clients :
         \/ \E w \in Passwords : RegisterCommit(r, u, w, s, surface)
         \/ GoogleJoin(r, u, s, surface)
    \/ \E s \in Sessions :
         \/ \E surface \in Clients \cup {"console"} : LoginCommit(r, s, surface)
         \/ \E surface \in Clients, b \in Backups :
              GoogleSignIn(r, s, surface, b) \/ GoogleLink(r, s, surface, b)
         \/ ScanCommit(r, s)
    \/ RejectCommit(r)
    \/ \E console \in BOOLEAN : RefreshCommit(r, console)
    \/ ProvisionRevoke(r)
    \/ \E u \in Users : ProvisionCommit(r, u)

Next ==
    \/ \E u \in Users, s \in Sessions : Anonymous(u, s)
    \/ \E r \in Requests : Reads(r) \/ Commits(r) \/ Abandon(r)
    \/ \E s \in Sessions : Logout(s) \/ LogoutEverywhere(s)

Spec == Init /\ [][Next]_vars

-----------------------------------------------------------------------------
\* A credential issued to a guest never becomes one of the member the guest
\* turned into, also when its request read the guest before the upgrade and
\* commits after it: whoever acts as a member showed a password or a Google
\* token (auth.py:62, :592; dependencies.py:64).
MembersShowedProof ==
    \A s \in Rows : Accepted(s) /\ ~users[sessions[s].user].guest => sessions[s].proof

\* Of the Google and password upgrades of one guest one succeeds
\* (auth.py:118, _claim_guest_upgrade).
OneUpgradeWins == \A u \in Users : upgrades[u] <= 1

\* A refresh token a client was given works until that client exchanges it:
\* of two refreshes with one token only one is answered (auth.py:572).
HeldTokensAreCurrent == \A s \in Rows : ~sessions[s].lost

\* A member can sign in again, with a password or with the one Google account
\* that is linked to it, and no two accounts have one email (auth.py:271, :549).
MembersCanReturn ==
    \A u \in Accounts : ~users[u].guest =>
        /\ users[u].password # None \/ Subject(u) # {}
        /\ Cardinality(Subject(u)) <= 1
        /\ Owners(users[u].email) = {u}

Admin(u) == users[u] # None /\ users[u].admin

\* The public web site stops serving an account once it is an administrator's:
\* tokens go only to requests that had read the account before the promotion
\* committed, whether they log in, sign in with Google, link an account or
\* refresh a session, and the promotion is a request itself.  The roles that are
\* checked were read before the answer is committed (api/auth.py:146, :188, :226),
\* and a session that is opened while the promotion runs is not revoked by it
\* (create_admin.py:120): what it may still be answered is counted here.
LateWebAnswersAreFew == \A u \in Users : late[u] <= Cardinality(Requests) - 1

\* A session that was revoked is accepted never again, and yields no token:
\* a logout and a rotation of one session are ordered by its row lock
\* (auth.py:584, :650).
RevokedIsFinal ==
    [][\A s \in Rows : sessions[s].revoked =>
         sessions'[s].revoked /\ sessions'[s].rotation = sessions[s].rotation]_vars
=============================================================================
