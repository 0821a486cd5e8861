------------------------------ MODULE OpenNow ------------------------------
(***************************************************************************)
(* Whether a restaurant is open: restaurant_is_open, shown on every        *)
(* restaurant, and _sql_open_now_predicate, by which nearby and search     *)
(* select (services/catalog.py).  The second reads the time zones of the   *)
(* published restaurants in a statement of its own.  One restaurant is     *)
(* followed; its rows of opening hours change as owner and importer write. *)
(***************************************************************************)
EXTENDS Naturals, FiniteSets

CONSTANTS
    WeekDays, DayLength,    \* days of a week, times of a day (7 and 24 hours)
    Offsets,                \* the zones ZoneInfo knows, and their clocks
    Zone, OtherZones,       \* timezone_name here, and of the other published ones
    HourRows,                   \* rows of opening_hours that are written
    NoTime

ASSUME OpenAssumptions ==
    /\ WeekDays \in Nat \ {0} /\ DayLength \in Nat \ {0}
    /\ HourRows \subseteq [opens : (0 .. DayLength - 1) \cup {NoTime},
                       closes : (0 .. DayLength - 1) \cup {NoTime}, closed : BOOLEAN]
    /\ \A z \in DOMAIN Offsets : Offsets[z] \in Nat

VARIABLES
    switch,     \* restaurants.is_open
    listed,     \* restaurants.is_published
    hours,      \* opening_hours, by day of the week
    zones       \* the zones a search in flight has read, if there is one

openVars == <<switch, listed, hours, zones>>

Days == 0 .. WeekDays - 1
Instants == 0 .. WeekDays * DayLength - 1

OpenTypes ==
    /\ switch \in BOOLEAN /\ listed \in BOOLEAN
    /\ hours \in UNION {[D -> HourRows] : D \in SUBSET Days}
    /\ zones \in SUBSET SUBSET (OtherZones \cup {Zone}) /\ Cardinality(zones) <= 1

OpenInit ==
    /\ switch = TRUE /\ listed = TRUE
    /\ hours = [d \in {} |-> 0]
    /\ zones = {}

-----------------------------------------------------------------------------
\* The clock of a zone; that of UTC for a name ZoneInfo does not know.
Local(z, now) ==
    IF z \in DOMAIN Offsets THEN (now + Offsets[z]) % (WeekDays * DayLength) ELSE now
Today(z, now) == Local(z, now) \div DayLength
Time(z, now) == Local(z, now) % DayLength
Before(d) == (d + WeekDays - 1) % WeekDays

\* The row of a day that says when it is open.
Timed(d) ==
    d \in DOMAIN hours /\ ~hours[d].closed /\ hours[d].opens # NoTime /\ hours[d].closes # NoTime

\* restaurant_is_open: the rows of today and of the day before.
OpenToday(d, t) ==
    /\ Timed(d)
    /\ \/ hours[d].opens = hours[d].closes
       \/ hours[d].closes > hours[d].opens /\ hours[d].opens <= t /\ t < hours[d].closes
       \/ hours[d].closes < hours[d].opens /\ t >= hours[d].opens

OpenSince(d, t) ==
    Timed(d) /\ hours[d].closes < hours[d].opens /\ t < hours[d].closes

ShownOpen(now) ==
    /\ switch
    /\ \/ hours = [d \in {} |-> 0]
       \/ OpenToday(Today(Zone, now), Time(Zone, now))
       \/ OpenSince(Before(Today(Zone, now)), Time(Zone, now))

-----------------------------------------------------------------------------
\* Fault: the restaurant need not lie in the zone whose clock is used.
AnywhereScheduledIn(z, now) ==
    \/ \E d \in {Today(z, now)} : OpenToday(d, Time(z, now))
    \/ \E d \in {Before(Today(z, now))} : OpenSince(d, Time(z, now))

\* _sql_open_now_predicate, the part of one zone.
ScheduledIn(z, now) == Zone = z /\ AnywhereScheduledIn(z, now)

\* The predicate, when Z are the zones read; a large catalog asks for hours.
FoundOpen(Z, now, large) ==
    /\ switch
    /\ \/ ~large /\ hours = [d \in {} |-> 0]
       \/ \E z \in Z : ScheduledIn(z, now)

-----------------------------------------------------------------------------
\* update_opening_hours and the importers.
WriteHours(d, row) ==
    /\ hours' = [e \in DOMAIN hours \cup {d} |-> IF e = d THEN row ELSE hours[e]]
    /\ UNCHANGED <<switch, listed, zones>>

\* update_open_status.
ToggleOpen ==
    /\ switch' = ~switch
    /\ UNCHANGED <<listed, hours, zones>>

\* update_restaurant_moderation, and an importer that publishes.
Publish(b) ==
    /\ listed' = b
    /\ UNCHANGED <<switch, hours, zones>>

ReadZones ==
    /\ zones = {}
    /\ zones' = {OtherZones \cup IF listed THEN {Zone} ELSE {}}
    /\ UNCHANGED <<switch, listed, hours>>

\* The search's own statement; what it finds is FoundOpen.
Answer ==
    /\ zones # {}
    /\ zones' = {}
    /\ UNCHANGED <<switch, listed, hours>>

OpenNext ==
    \/ \E d \in Days, row \in HourRows : WriteHours(d, row)
    \/ ToggleOpen
    \/ \E b \in BOOLEAN : Publish(b)
    \/ ReadZones
    \/ Answer

OpenSpec == OpenInit /\ [][OpenNext]_openVars

-----------------------------------------------------------------------------
\* A restaurant is shown as open exactly in the spans its rows describe: from
\* opens_at to closes_at, past midnight where that is the earlier, the whole day
\* where the two are equal (catalog.py:1045).
Span(d) ==
    LET row == hours[d] IN
    CASE row.opens = row.closes -> [from |-> d * DayLength, length |-> DayLength]
      [] row.opens < row.closes -> [from |-> d * DayLength + row.opens,
                                    length |-> row.closes - row.opens]
      [] OTHER -> [from |-> d * DayLength + row.opens,
                   length |-> DayLength + row.closes - row.opens]

ShownByItsSpans ==
    \A now \in Instants :
        ShownOpen(now) <=>
            /\ switch
            /\ \/ DOMAIN hours = {}
               \/ \E d \in {e \in Days : Timed(e)} :
                    (Local(Zone, now) + WeekDays * DayLength - Span(d).from)
                        % (WeekDays * DayLength) < Span(d).length

\* A search whose zones were read while the restaurant was published finds it
\* when, and only when, its screen shows it open, and one that asks for hours
\* finds it only then; one that read them before finds it never too often
\* (catalog.py:763).
SearchAgreesWithScreen ==
    \A Z \in zones, now \in Instants :
        /\ Zone \in Z => (FoundOpen(Z, now, FALSE) <=> ShownOpen(now))
        /\ \A large \in BOOLEAN : FoundOpen(Z, now, large) => ShownOpen(now)

\* The rows have one meaning, on the screen and in the search (catalog.py:763,
\* :1045).
OneOpenNow == ShownByItsSpans /\ SearchAgreesWithScreen
=============================================================================
