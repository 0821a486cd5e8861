--------------------------- MODULE CatalogPages ---------------------------
(***************************************************************************)
(* The paged reads of the catalog: nearby restaurants without and with     *)
(* filters, and search (services/catalog.py, cursors of utils.py).  Each   *)
(* is several statements under READ COMMITTED, so that owners, moderators  *)
(* and importers write between them; a cursor is an offset.  Each request  *)
(* reads the clock and the estimate of the catalog's size anew.  One       *)
(* client walks from page to page.                                         *)
(***************************************************************************)
EXTENDS Integers, Sequences, FiniteSets, SequencesExt

CONSTANTS
    Spots,          \* restaurants, numbers in the order of their slugs
    Dishes,         \* menu items, <<restaurant, number by sort_order and id>>
    Openings,       \* the sets of restaurants that are open at one time or another
    Fitting,        \* the items that match the filters or the query, by large_catalog
    Far, Stars,     \* distance_m and rating_avg of a restaurant
    Score,          \* what a query gives an item, by large_catalog
    PageSize, MaxOffset

ASSUME PageAssumptions ==
    /\ Spots \subseteq Nat /\ Dishes \subseteq Spots \X (Nat \ {0})
    /\ IsFiniteSet(Spots) /\ IsFiniteSet(Dishes)
    /\ Openings \subseteq SUBSET Spots /\ Fitting \in [BOOLEAN -> SUBSET Dishes]
    /\ PageSize \in Nat \ {0} /\ MaxOffset \in Nat
    /\ Far \in [Spots -> Nat] /\ Stars \in [Spots -> Nat]
    /\ Score \in [BOOLEAN -> [Dishes -> Nat]]

VARIABLES
    shown,      \* the restaurants with is_published
    served,     \* the items with is_available
    walk        \* the client's walk, and the request it has in flight

pageVars == <<shown, served, walk>>

\* What a request asks for: restaurants, restaurants by their items, items, items
\* by a query.
Asks == {"nearby", "filtered", "search", "query"}

\* A request, with what it read of the catalog's size and of the clock: open is
\* the set of restaurants that are open then, or all when openNow is not asked.
PageQueries == [ask : Asks, openNow : BOOLEAN, large : BOOLEAN, open : SUBSET Spots]

\* Which of the coded reads answers it.
Path(q) ==
    CASE q.ask = "nearby" /\ ~q.large /\ ~q.openNow -> "nearby"
      [] q.ask \in {"nearby", "filtered"} /\ (q.ask = "filtered" \/ q.large \/ q.openNow) -> "filtered"
      [] q.ask = "query" /\ q.large -> "large_search"
      [] OTHER -> "search"

\* A row is an item, or a restaurant s as <<s, 0>>.
PageRows == Dishes \cup (Spots \X {0})

PageTypes ==
    /\ shown \subseteq Spots /\ served \subseteq Dishes
    /\ walk \in [query : PageQueries,
                at : {"idle", "read", "select", "count", "feature", "load", "answered",
                      "done", "refused"},
                cursor : Nat, count : Nat, rows : Seq(PageRows), seen : Seq(PageRows),
                featured : UNION {[D -> Dishes] : D \in SUBSET Spots},
                quiet : BOOLEAN, touched : SUBSET Spots]

NoRows == [s \in {} |-> 0]

PageInit ==
    /\ shown = Spots /\ served = Dishes
    /\ walk = [query |-> [ask |-> "nearby", openNow |-> FALSE, large |-> FALSE, open |-> Spots],
               at |-> "idle", cursor |-> 0, count |-> 0, rows |-> <<>>,
               featured |-> NoRows, seen |-> <<>>, quiet |-> TRUE, touched |-> {}]

-----------------------------------------------------------------------------
\* The items that pass a request's filters.
Fits(q) == IF q.ask = "nearby" THEN Dishes ELSE Fitting[q.large]

\* What each read selects from.
Matches(q) ==
    CASE Path(q) = "nearby" -> shown \X {0}
      [] Path(q) = "filtered" ->
            {s \in shown \cap q.open :
                q.ask = "filtered" => \E d \in Fits(q) \cap served : d[1] = s} \X {0}
      [] OTHER -> {d \in Fits(q) \cap served : d[1] \in shown \cap q.open}

OfSpots(q) == Path(q) \in {"nearby", "filtered"}

\* score_expression: nothing to score without a query.
Points(q, row) == IF q.ask = "query" THEN Score[q.large][row] ELSE 0

\* Fault: rows of one distance and rating come in any order.
KeyWithoutSlug(q, row) ==
    IF OfSpots(q) THEN <<Far[row[1]], 0 - Stars[row[1]]>>
    ELSE <<0 - Points(q, row), Far[row[1]], 0 - Stars[row[1]]>>

\* ORDER BY, and the key of matches.sort.
Key(q, row) ==
    IF OfSpots(q) THEN <<Far[row[1]], 0 - Stars[row[1]], row[1]>>
    ELSE <<0 - Points(q, row), Far[row[1]], 0 - Stars[row[1]], row[1], row[2]>>

Less(k, l) == \E n \in DOMAIN k : k[n] < l[n] /\ \A m \in 1 .. n - 1 : k[m] = l[m]

\* The orders a query may answer in: those of its key.
Sorted(q, S) ==
    {s \in SetToSeqs(S) : \A i, j \in DOMAIN s :
        i < j => ~Less(Key(q, s[j]), Key(q, s[i]))}

\* OFFSET and LIMIT.
Page(s, offset) == SubSeq(s, offset + 1, Min({offset + PageSize, Len(s)}))

\* decode_cursor: a negative offset or text that is none is not sent by this client.
Acceptable(offset) == offset <= MaxOffset

-----------------------------------------------------------------------------
\* The first statement of a request: the small catalog's search counts first.
Asking(w, at) ==
    [w EXCEPT !.at = at, !.rows = <<>>, !.count = 0, !.featured = NoRows, !.touched = {}]

Ask(w) == Asking(w, IF Path(w.query) = "search" THEN "read" ELSE "select")

\* _catalog_is_large reads an estimate, _sql_open_now_predicate the clock.
Reading(ask, openNow) ==
    [ask : {ask}, openNow : {openNow}, large : BOOLEAN,
     open : IF openNow THEN Openings ELSE {Spots}]

Begin(ask, openNow) ==
    /\ walk.at \in {"idle", "done", "refused"}
    /\ \E q \in Reading(ask, openNow) :
         walk' = Ask([walk EXCEPT !.query = q, !.cursor = 0, !.seen = <<>>, !.quiet = TRUE])
    /\ UNCHANGED <<shown, served>>

\* search_catalog, small: item_count is read before the page.
CountSearch ==
    /\ walk.at = "read"
    /\ walk' = [walk EXCEPT !.at = "select", !.count = Cardinality(Matches(walk.query))]
    /\ UNCHANGED <<shown, served>>

\* Where a request goes once it has its rows.
After(w) ==
    IF w.rows = <<>> /\ w.cursor > 0 /\ Path(w.query) \in {"filtered", "large_search"} THEN "count"
    ELSE IF Path(w.query) = "filtered" THEN "feature" ELSE "load"

\* total_count comes with the rows, except in the small catalog's search.
CountWithRows(q, old, rows) ==
    CASE Path(q) = "search" -> old
      [] Path(q) = "nearby" -> Cardinality(Matches(q))
      [] OTHER -> IF rows = <<>> THEN 0 ELSE Cardinality(Matches(q))

Select ==
    /\ walk.at = "select"
    /\ \E s \in Sorted(walk.query, Matches(walk.query)) :
         LET rows == Page(s, walk.cursor)
             w == [walk EXCEPT !.rows = rows,
                               !.count = CountWithRows(walk.query, walk.count, rows)] IN
         walk' = [w EXCEPT !.at = After(w)]
    /\ UNCHANGED <<shown, served>>

\* The count of an empty page past the first.
CountAgain ==
    /\ walk.at = "count"
    /\ walk' = [walk EXCEPT !.count = Cardinality(Matches(walk.query)),
                            !.at = IF Path(walk.query) = "filtered" THEN "feature" ELSE "load"]
    /\ UNCHANGED <<shown, served>>

First(D) == CHOOSE d \in D : \A e \in D : d[2] <= e[2]
Of(s, D) == {d \in D : d[1] = s}
Restaurants(rows) == {rows[n][1] : n \in {m \in DOMAIN rows : rows[m][2] = 0}}

\* Fault: the item a restaurant is shown with need not match.
FeaturableAny(s) == Of(s, served)

Featurable(s) == Of(s, Fits(walk.query) \cap served)

\* nearby_restaurants: the first matching item of each restaurant of the page.
Feature ==
    /\ walk.at = "feature"
    /\ walk' = [walk EXCEPT !.at = "load",
                            !.featured = [s \in {r \in Restaurants(walk.rows) : Featurable(r) # {}} |->
                                             First(Featurable(s))]]
    /\ UNCHANGED <<shown, served>>

\* The rows are loaded by id, whatever became of them; a restaurant that has
\* no item yet is shown with the first of its menu.
Load ==
    /\ walk.at = "load"
    /\ LET bare == {s \in Restaurants(walk.rows) :
                      s \notin DOMAIN walk.featured /\ Of(s, served) # {}} IN
       walk' = [walk EXCEPT !.at = "answered",
                            !.featured = [s \in DOMAIN walk.featured \cup bare |->
                                IF s \in bare THEN First(Of(s, served)) ELSE walk.featured[s]],
                            !.seen = IF walk.quiet THEN @ \o walk.rows ELSE <<>>]
    /\ UNCHANGED <<shown, served>>

HasMore == walk.cursor + Len(walk.rows) < walk.count

\* The client follows next_cursor, or has come to the end.  A page that finds
\* others open, or another size, than the one before ends what is said of seen.
Continue ==
    /\ walk.at = "answered"
    /\ LET next == walk.cursor + Len(walk.rows) IN
       IF ~HasMore THEN walk' = Asking(walk, "done")
       ELSE IF ~Acceptable(next) THEN walk' = Asking(walk, "refused")
       ELSE \E q \in Reading(walk.query.ask, walk.query.openNow) :
              walk' = Ask([walk EXCEPT !.cursor = next, !.query = q,
                                       !.quiet = @ /\ q = walk.query,
                                       !.seen = IF q = walk.query THEN @ ELSE <<>>])
    /\ UNCHANGED <<shown, served>>

\* Owners and importers, and moderators.  A filter that an item no longer passes
\* is an item that goes.
Disturb(S) == [walk EXCEPT !.quiet = FALSE, !.seen = <<>>,
                           !.touched = IF walk.at \in {"idle", "answered", "done", "refused"} THEN @
                                       ELSE @ \cup S]

ChangeItem(d) ==
    /\ served' = IF d \in served THEN served \ {d} ELSE served \cup {d}
    /\ walk' = Disturb({d[1]})
    /\ UNCHANGED shown

ChangeSpot(s) ==
    /\ shown' = IF s \in shown THEN shown \ {s} ELSE shown \cup {s}
    /\ walk' = Disturb({s})
    /\ UNCHANGED served

\* The statements of a request compare its one reading of the clock with the
\* hours as each finds them.
ChangeHours(S) ==
    /\ walk.query.openNow /\ S # walk.query.open
    /\ walk' = [Disturb((S \cup walk.query.open) \ (S \cap walk.query.open))
                  EXCEPT !.query.open = S]
    /\ UNCHANGED <<shown, served>>

PageNext ==
    \/ \E ask \in Asks, openNow \in BOOLEAN : Begin(ask, openNow)
    \/ CountSearch \/ Select \/ CountAgain \/ Feature \/ Load \/ Continue
    \/ \E d \in Dishes : ChangeItem(d)
    \/ \E s \in Spots : ChangeSpot(s)
    \/ \E S \in Openings : ChangeHours(S)

PageSpec == PageInit /\ [][PageNext]_pageVars

-----------------------------------------------------------------------------
\* A walk during which nothing was written, and whose pages found the same
\* restaurants open and the same estimate of the catalog's size, has seen every
\* match once, in order, when it is told that there is no more, and more than
\* MaxOffset of them when its cursor is refused.  Where a restaurant opens or
\* closes between two pages, rows are skipped or come again though nothing was
\* written (catalog.py:1173, :1292, :1348, :1944, :2048, utils.py:60).
QuietWalksAreExact ==
    walk.quiet =>
        /\ walk.at = "done" => walk.seen \in Sorted(walk.query, Matches(walk.query))
        /\ walk.at = "refused" =>
              /\ Len(walk.seen) > MaxOffset
              /\ \E s \in Sorted(walk.query, Matches(walk.query)) : IsPrefix(walk.seen, s)

\* The rows of a page are those that its count leaves for it.  A search of a small
\* catalog counts before it selects, and a page past the first that finds no rows
\* counts afterwards: a write in between may tell them apart.
RowsAreCounted ==
    \/ IF walk.count <= walk.cursor THEN walk.rows = <<>>
       ELSE Len(walk.rows) = Min({PageSize, walk.count - walk.cursor})
    \/ /\ walk.touched # {}
       /\ \/ Path(walk.query) = "search"
          \/ Path(walk.query) # "nearby" /\ walk.rows = <<>> /\ walk.cursor > 0

\* What an answer says of the total and of a next page agrees with its rows,
\* whatever is written while it is put together, wherever one statement reads
\* both (catalog.py:1359, :2029).
PagesAreCounted == walk.at = "answered" => RowsAreCounted

\* A restaurant on a filtered page is shown with an item that passes the
\* filters, whatever is written to other restaurants while the page is put
\* together (catalog.py:1388, :1088).
FeaturedItemsFit ==
    walk.at = "answered" /\ walk.query.ask = "filtered" =>
        \A n \in DOMAIN walk.rows :
            walk.rows[n][1] \notin walk.touched =>
                /\ walk.rows[n][1] \in DOMAIN walk.featured
                /\ walk.featured[walk.rows[n][1]] \in Fits(walk.query)

\* A page is answered with the rows it announces and with items that fit them
\* (catalog.py:1359, :1388).
AnsweredPagesAreWhole == PagesAreCounted /\ FeaturedItemsFit
=============================================================================
