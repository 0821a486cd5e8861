----------------------------- MODULE MCCatalog -----------------------------
(***************************************************************************)
(* Instances for TLC of what a diner reads and of the cart it fills: open  *)
(* hours, pages, filters and facets, the evidence on an item, the          *)
(* importers, and carts.  TLC checks them side by side: a behaviour is one *)
(* of one component at a time, while the others are as they started.       *)
(***************************************************************************)
EXTENDS OpenNow, CatalogPages, MenuSearch, MenuEvidence, CatalogImport, Cart, TLC

CONSTANTS c1, c2, c3, dish1, r1, r2, t1, t2

Interchangeable == Permutations(Requests)

\* Open hours: a shift, one past midnight, a whole day, a closed day, a day
\* without a time of closing; a zone that is ahead, one further ahead.
Shift(opens, closes, closed) == [opens |-> opens, closes |-> closes, closed |-> closed]
Shifts == {Shift(0, 2, FALSE), Shift(2, 1, FALSE), Shift(1, 1, FALSE), Shift(0, 2, TRUE),
           Shift(1, NoTime, FALSE)}
Clocks == [seoul |-> 1, tokyo |-> 2]

\* Pages: two restaurants at one distance, of which the first closes; an item
\* that a large catalog drops before one that it keeps.
SpotDishes == {<<1, 1>>, <<1, 2>>, <<2, 1>>}
DishesThatFit == [big \in BOOLEAN |-> IF big THEN SpotDishes \ {<<1, 1>>} ELSE SpotDishes]
DayAndNight == {{1, 2}, {2}}
Distances == [s \in Spots |-> 2]
SameStars == [s \in Spots |-> 4]
DishScores == [big \in BOOLEAN |->
    [d \in SpotDishes |-> IF d = <<2, 1>> /\ ~big THEN 7 ELSE 4]]

\* Filters: prices at both sides of the buckets' ends, keys of taste_profile that
\* fold, category slugs of which one is part of another.
Plate(cost, heat, keys, codes, part, texts, single) ==
    [price |-> cost, spice |-> heat, taste |-> keys, links |-> codes, slug |-> part,
     words |-> texts, solo |-> single]
PlateProfiles ==
    {Plate({}, 0, {}, {}, "menu", {}, FALSE),
     Plate({9999}, 1, {"rich"}, {"mackerel", "squid"}, "menu", {"noodles"}, TRUE),
     Plate({10000}, 2, {"rich", "sour"}, {"mackerel", "onion"}, "set",
           {"noodles", "ramen"}, FALSE),
     Plate({19999}, 0, {"Rich"}, {"onion", "kimchi"}, "set-menu", {"stew"}, TRUE),
     Plate({20000}, 1, {"crispy"}, {"beef"}, "set", {"bbq", "soup"}, FALSE),
     Plate({35000}, 3, {}, {"beef", "onion"}, "set-menu", {}, TRUE)}
OneHome == [i \in Plates |-> "bistro"]
SlugPart(a, b) == a = b \/ (a \in {"set", "menu"} /\ b = "set-menu")

\* Imports: a product that is listed twice, one without a number, both sources,
\* a price that is none, a crawl that is not complete; a manifest that names one
\* column of each of two items.
Entry(product, price, soldout) == [product |-> product, price |-> price, soldout |-> soldout]
Sources(menuList, yogiyoList) == [menus |-> menuList, yogiyo |-> yogiyoList]
Crawl(lists, jobs) == [places |-> DOMAIN lists, jobs |-> jobs, lists |-> lists]
RegionCrawls ==
    {Crawl(1 :> Sources(<<Entry(1, 9, FALSE), Entry(0, 5, FALSE), Entry(1, 7, TRUE)>>,
                        <<Entry(2, 5, FALSE)>>), {1}),
     Crawl(1 :> Sources(<<>>, <<Entry(2, 0, TRUE), Entry(1, 9, FALSE)>>), {1}),
     Crawl(1 :> Sources(<<>>, <<>>), {})}
ManifestFiles ==
    {[restaurants |-> 1 :> [published |-> {}, items |-> 1 :> [Unset EXCEPT !.price = {{3}}]]],
     [restaurants |-> 1 :> [published |-> {FALSE},
                            items |-> 2 :> [Unset EXCEPT !.available = {TRUE}]]]}

\* Every component but c is as it started, and stays so.
Alone(c) ==
    /\ IF c = "open" THEN TRUE ELSE OpenInit /\ UNCHANGED openVars
    /\ IF c = "pages" THEN TRUE ELSE PageInit /\ UNCHANGED pageVars
    /\ IF c = "search" THEN TRUE ELSE SearchInit /\ UNCHANGED searchVars
    /\ IF c = "evidence" THEN TRUE ELSE EvidenceInit /\ UNCHANGED evidenceVars
    /\ IF c = "import" THEN TRUE ELSE ImportInit /\ UNCHANGED importVars
    /\ IF c = "cart" THEN TRUE ELSE Init /\ UNCHANGED vars

CatalogInit == OpenInit /\ PageInit /\ SearchInit /\ EvidenceInit /\ ImportInit /\ Init

CatalogNext ==
    \/ Alone("open") /\ OpenNext
    \/ Alone("pages") /\ PageNext
    \/ Alone("search") /\ SearchNext
    \/ Alone("evidence") /\ EvidenceNext
    \/ Alone("import") /\ ImportNext
    \/ Alone("cart") /\ Next

CatalogSpec ==
    CatalogInit /\ [][CatalogNext]_<<openVars, pageVars, searchVars, evidenceVars, importVars,
                                     vars>>

\* The shape of every variable of the catalog.
CatalogTypes ==
    OpenTypes /\ PageTypes /\ SearchTypes /\ EvidenceTypes /\ ImportTypes /\ TypeOK
=============================================================================
