---------------------------- MODULE OpeningHours ----------------------------
(***************************************************************************)
(* The opening hours of one restaurant on one day, patched by members who  *)
(* may write it (update_opening_hours of app/services/owner.py).  The row  *)
(* is read without a lock; the ORM writes the columns whose value differs  *)
(* from what it read, or inserts the row, unique by restaurant and day.    *)
(***************************************************************************)
EXTENDS Naturals, FiniteSets

CONSTANTS
    Patches,        \* OpeningHourPatch, as its validator admits them
    Screens         \* requests served at the same time

Columns == {"opens_at", "closes_at", "is_closed"}

ASSUME PatchesAreRows == \A p \in Patches : p = [c \in Columns |-> p[c]]

VARIABLES
    hours,          \* the row: empty, or the set of one
    editing,        \* per screen: what it read and wants, empty when away
    raced           \* history: a patch landed on another row than it read

hoursVars == <<hours, editing, raced>>

HoursRows == [Columns -> UNION {{p[c] : c \in Columns} : p \in Patches}]

HoursTypes ==
    /\ hours \subseteq HoursRows /\ Cardinality(hours) <= 1
    /\ \A e \in Screens : \A q \in editing[e] :
         q.read \subseteq HoursRows /\ q.patch \in Patches
    /\ raced \in BOOLEAN

HoursInit ==
    /\ hours = {}
    /\ editing = [e \in Screens |-> {}]
    /\ raced = FALSE

HoursRead(e, p) ==
    /\ editing[e] = {}
    /\ editing' = [editing EXCEPT ![e] = {[read |-> hours, patch |-> p]}]
    /\ UNCHANGED <<hours, raced>>

\* Fault: is_closed is set on a new row only.
PatchedTimes(row, read, patch) ==
    [c \in Columns |-> IF c = "is_closed" \/ read[c] = patch[c] THEN row[c] ELSE patch[c]]

\* The UPDATE of what differs from the row that was read.
Patched(row, read, patch) ==
    [c \in Columns |-> IF read[c] = patch[c] THEN row[c] ELSE patch[c]]

\* Fault: the row is not unique by restaurant and day.
InsertedTwice(p) == hours' = hours \cup {p}

Inserted(p) == hours = {} /\ hours' = {p}

HoursCommit(e) ==
    \E q \in editing[e] :
        /\ \/ q.read = {} /\ Inserted(q.patch)
           \/ \E old \in q.read : hours' = {Patched(row, old, q.patch) : row \in hours}
        /\ raced' = (raced \/ q.read # hours)
        /\ editing' = [editing EXCEPT ![e] = {}]

\* Refused, rolled back, also when another request inserted the row first.
HoursAbort(e) ==
    /\ editing[e] # {}
    /\ editing' = [editing EXCEPT ![e] = {}]
    /\ UNCHANGED <<hours, raced>>

HoursNext ==
    \E e \in Screens : (\E p \in Patches : HoursRead(e, p)) \/ HoursCommit(e) \/ HoursAbort(e)

HoursSpec == HoursInit /\ [][HoursNext]_hoursVars

-----------------------------------------------------------------------------
\* The hours of a day are one whole patch, so that they pass the validator of
\* OpeningHourPatch (a closed day has no times, an open day two that differ),
\* unless a patch landed on hours it had not read: two that overlap can mix
\* (owner.py:471, app/schemas/owner.py:172).
HoursAreOnePatchUnlessRaced == raced \/ hours \subseteq Patches
=============================================================================
