------------------------------- MODULE Profile -------------------------------
(***************************************************************************)
(* What a user keeps (app/services/profile.py): the food passport, created *)
(* by the first request that asks for it and patched under a version that  *)
(* is compared but not locked, and one saved restaurant, whose PUT is      *)
(* retried at will.  A request reads in one step and commits in another.   *)
(***************************************************************************)
EXTENDS Integers, FiniteSets

CONSTANTS
    Tabs,           \* requests of one user served at the same time
    Details,        \* values of the passport's fields
    LastVersion,    \* bound on the version
    LastRow         \* bound on the rows saved_restaurants had

ASSUME ProfileAssumptions == LastVersion \in Nat \ {0} /\ LastRow \in Nat

VARIABLES
    passport,       \* food_passports: version 0 is no row
    rows,           \* how many times the saved_restaurants row was inserted
    saved,          \* the insert that is there, 0 for none
    tabs,           \* per request: where it is and what it has read
    changes,        \* history: patches committed, and the creation by a GET
    lost            \* history: a patch landed on another version than it read

profileVars == <<passport, rows, saved, tabs, changes, lost>>

Free == [step |-> "free"]
Patching == [step: {"patch"}, read: 0 .. LastVersion, details: Details]
\* "row" is the one to answer; "met" is history: those that were there at some
\* time of the request.
Saving == [step: {"insert", "refresh", "reread", "done", "failed", "delete"},
           row: 0 .. LastRow, met: SUBSET (1 .. LastRow)]
Tab == {Free, [step |-> "create"]} \cup Patching \cup Saving

ProfileTypes ==
    /\ passport \in [version: 0 .. LastVersion, details: Details]
    /\ rows \in 0 .. LastRow /\ saved \in 0 .. rows
    /\ tabs \in [Tabs -> Tab]
    /\ changes \in Nat /\ lost \in BOOLEAN

ProfileInit ==
    /\ passport \in [version: {0}, details: Details]
    /\ rows = 0 /\ saved = 0
    /\ tabs = [t \in Tabs |-> Free]
    /\ changes = 0 /\ lost = FALSE

At(t, q) == tabs' = [tabs EXCEPT ![t] = q]

-----------------------------------------------------------------------------
\* get_passport, when there is none: version 1, the column's default.
PassportMissing(t) ==
    /\ tabs[t] = Free /\ passport.version = 0
    /\ At(t, [step |-> "create"])
    /\ UNCHANGED <<passport, rows, saved, changes, lost>>

PassportCreate(t) ==
    /\ tabs[t].step = "create" /\ passport.version = 0
    /\ \E d \in Details : passport' = [version |-> 1, details |-> d]
    /\ changes' = changes + 1
    /\ At(t, Free)
    /\ UNCHANGED <<rows, saved, lost>>

\* update_passport: the version it expects is the row's, or it says none: -1.
PatchRead(t, d, expected) ==
    /\ tabs[t] = Free
    /\ expected \in {-1, passport.version}
    /\ At(t, [step |-> "patch", read |-> passport.version, details |-> d])
    /\ UNCHANGED <<passport, rows, saved, changes, lost>>

\* Fault: a passport that the patch creates has the version of an update.
NextVersionFromDefault(read) == IF read = 0 THEN 2 ELSE read + 1

NextVersion(read) == read + 1

\* The insert of a second row fails on its primary key.
PatchCommit(t) ==
    LET q == tabs[t] IN
    /\ q.step = "patch"
    /\ q.read = 0 => passport.version = 0
    /\ NextVersion(q.read) <= LastVersion
    /\ passport' = [version |-> NextVersion(q.read), details |-> q.details]
    /\ changes' = changes + 1
    /\ lost' = (lost \/ passport.version # q.read)
    /\ At(t, Free)
    /\ UNCHANGED <<rows, saved>>

-----------------------------------------------------------------------------
Meets(q, row) == IF q.step \in {"insert", "refresh", "reread"} /\ row # 0
                  THEN [q EXCEPT !.met = @ \cup {row}] ELSE q

\* t goes on to a step with a row to answer, while "there" is the row.
To(t, step, row, there) ==
    tabs' = [u \in Tabs |->
        IF u # t THEN Meets(tabs[u], there)
        ELSE [step |-> step, row |-> row,
              met |-> (IF tabs[t] = Free THEN {} ELSE tabs[t].met)
                      \cup (IF there = 0 THEN {} ELSE {there})]]

\* save_restaurant: the row is there, or it is inserted.
SaveRead(t) ==
    /\ tabs[t] = Free
    /\ To(t, IF saved = 0 THEN "insert" ELSE "done", saved, saved)
    /\ UNCHANGED <<passport, rows, saved, changes, lost>>

\* Fault: the row that was to be inserted is answered after the conflict.
AfterConflictDone == "done"

\* Another PUT inserted it: rolled back, the row is read again.
AfterConflict == "reread"

SaveCommit(t) ==
    /\ tabs[t].step = "insert"
    /\ IF saved = 0
       THEN /\ rows < LastRow
            /\ rows' = rows + 1 /\ saved' = rows + 1
            /\ To(t, "refresh", rows + 1, rows + 1)
       ELSE To(t, AfterConflict, 0, saved) /\ UNCHANGED <<rows, saved>>
    /\ UNCHANGED <<passport, changes, lost>>

\* db.refresh, db.get: without a row they raise.
SaveFinish(t) ==
    /\ tabs[t].step \in {"refresh", "reread"}
    /\ To(t, IF saved = 0 THEN "failed" ELSE "done", saved, saved)
    /\ UNCHANGED <<passport, rows, saved, changes, lost>>

\* unsave_restaurant: a row that is gone already is no error.
UnsaveRead(t) ==
    /\ tabs[t] = Free /\ saved # 0
    /\ To(t, "delete", 0, saved)
    /\ UNCHANGED <<passport, rows, saved, changes, lost>>

UnsaveCommit(t) ==
    /\ tabs[t].step = "delete"
    /\ saved' = 0
    /\ At(t, Free)
    /\ UNCHANGED <<passport, rows, changes, lost>>

\* The request was answered, is rolled back, or its process dies.
LeaveProfile(t) ==
    /\ tabs[t] # Free
    /\ At(t, Free)
    /\ UNCHANGED <<passport, rows, saved, changes, lost>>

ProfileNext ==
    \E t \in Tabs :
        \/ PassportMissing(t) \/ PassportCreate(t) \/ PatchCommit(t)
        \/ \E d \in Details, v \in -1 .. LastVersion : PatchRead(t, d, v)
        \/ SaveRead(t) \/ SaveCommit(t) \/ SaveFinish(t)
        \/ UnsaveRead(t) \/ UnsaveCommit(t) \/ LeaveProfile(t)

ProfileSpec == ProfileInit /\ [][ProfileNext]_profileVars

-----------------------------------------------------------------------------
\* The passport's version counts its changes, whether a GET or a PATCH created
\* it, so that a client that sees the version it sent has seen every change;
\* it falls behind only when a patch landed on a version it had not read,
\* which the comparison without a lock allows (profile.py:91, :107).
VersionCountsChanges == lost \/ passport.version = changes

\* "Concurrent PUTs are still idempotent; the winning row is returned"
\* (profile.py:210): a PUT answers with a row that was there while it ran,
\* however other PUTs and DELETEs of the same restaurant interleave.
SavedAnswersAreRows ==
    \A t \in Tabs : tabs[t].step = "done" => tabs[t].row \in tabs[t].met
=============================================================================
