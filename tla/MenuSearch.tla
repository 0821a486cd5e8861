---------------------------- MODULE MenuSearch ----------------------------
(***************************************************************************)
(* The filters of search and nearby and the facets that offer them         *)
(* (services/catalog.py).  The code has the filters three times: as SQL    *)
(* predicates, which differ in a large catalog, as the counts of           *)
(* search_facets, and as the matcher in Python that the predicates         *)
(* replaced and that is still there.  Texts are taken as the set of alias  *)
(* words they contain; diets and allergens are in MenuEvidence.            *)
(***************************************************************************)
EXTENDS Naturals, FiniteSets

CONSTANTS
    Plates, Home,       \* menu items, and the restaurant of each
    Profiles,           \* what an importer or an owner may write as an item
    Part(_, _)          \* one category slug is part of another

VARIABLES
    plate,      \* the columns and links of each item
    eligible,   \* published restaurant, active category, available item
    large       \* _catalog_is_large: the planner's estimate is over its threshold

searchVars == <<plate, eligible, large>>

\* price: none or one.  taste: the keys of taste_profile of 0.5 and more.  words:
\* of the texts of item and category.  solo: a marker in serving_description.
Profile == [price : SUBSET Nat, spice : Nat, taste : SUBSET STRING, links : SUBSET STRING,
            slug : STRING, words : SUBSET STRING, solo : BOOLEAN]

ASSUME SearchAssumptions ==
    /\ IsFiniteSet(Plates) /\ DOMAIN Home = Plates
    /\ Profiles # {}
    /\ \A p \in Profiles : /\ p \in Profile /\ Cardinality(p.price) <= 1
                          /\ Part(p.slug, p.slug)

SearchTypes ==
    /\ plate \in [Plates -> Profiles]
    /\ eligible \subseteq Plates
    /\ large \in BOOLEAN

SearchInit ==
    /\ plate = [i \in Plates |-> CHOOSE p \in Profiles : TRUE]
    /\ eligible = {}
    /\ large = FALSE

-----------------------------------------------------------------------------
\* _fold, on the keys that occur.
Folded(code) == IF code = "Rich" THEN "rich" ELSE code

MainGroups(code) ==
    CASE code = "seafood" -> {"seafood", "fish", "mackerel", "squid", "shrimp"}
      [] code = "beef" -> {"beef", "steak", "bulgogi"}
      [] code = "chicken" -> {"chicken", "poultry"}
      [] code = "vegetables" -> {"vegetable", "vegetables", "spinach", "onion", "kimchi"}
      [] OTHER -> {}
MainCodes == {"seafood", "beef", "chicken", "vegetables"}

DishGroups(code) ==
    CASE code = "bbq-grilled" -> {"bbq", "grill", "samgyeopsal"}
      [] code = "soup-stew" -> {"soup", "stew", "jjigae"}
      [] code = "noodles" -> {"noodles", "ramen", "japchae"}
      [] code = "rice-dishes" -> {"rice-bowl", "bibimbap", "juk"}
      [] OTHER -> {}
DishCodes == {"bbq-grilled", "soup-stew", "noodles", "rice-dishes"}

\* _PRICE_BUCKETS: the minimum, and the maximum it does not reach.
PriceCodes == {"under-10000", "10000-20000", "20000-35000", "35000-plus"}

InBucket(amount, code) ==
    CASE code = "under-10000" -> amount < 10000
      [] code = "10000-20000" -> 10000 <= amount /\ amount < 20000
      [] code = "20000-35000" -> 20000 <= amount /\ amount < 35000
      [] code = "35000-plus" -> 35000 <= amount

TasteCodes == {"not-spicy", "mild", "rich", "light", "crispy"}

-----------------------------------------------------------------------------
\* The predicates in SQL.
FoundByMain(i, code) ==
    IF code \in MainCodes THEN plate[i].links \cap MainGroups(code) # {}
    ELSE code \in plate[i].links

FoundByDish(i, code) ==
    IF code \in DishCodes THEN plate[i].words \cap DishGroups(code) # {}
    ELSE Part(code, plate[i].slug)

FoundByPrice(i, code) == \E amount \in plate[i].price : InBucket(amount, code)

\* A large catalog knows no tastes, no servings and no level of zero.
FoundByTaste(i, code) ==
    ~large /\ CASE code = "not-spicy" -> plate[i].spice = 0
                [] code = "mild" -> plate[i].spice <= 1
                [] OTHER -> code \in plate[i].taste

FoundBySolo(i) == ~large /\ plate[i].solo

\* Fault: one of the ingredients suffices.
FoundByAnyIngredient(i, codes) == codes = {} \/ codes \cap plate[i].links # {}

FoundByIngredients(i, codes) == codes \subseteq plate[i].links

FoundBySpice(i, spicy) ==
    CASE spicy = "yes" -> plate[i].spice > 0
      [] spicy = "no" -> ~large /\ plate[i].spice = 0
      [] OTHER -> TRUE

\* One code of a facet; several are joined by OR.
Found(section, code) ==
    {i \in eligible :
        CASE section = "main_ingredients" -> FoundByMain(i, code)
          [] section = "dish_types" -> FoundByDish(i, code)
          [] section = "price" -> FoundByPrice(i, code)
          [] section = "taste" -> FoundByTaste(i, Folded(code))
          [] section = "solo" -> FoundBySolo(i)}

-----------------------------------------------------------------------------
\* search_facets.  Fault: the links are counted, and not their items.
MainCountOfLinks(code) ==
    Cardinality({x \in eligible \X UNION {plate[i].links : i \in Plates} :
        /\ x[2] \in plate[x[1]].links
        /\ x[2] = code \/ (code \in MainCodes /\ x[2] \in MainGroups(code))})

MainCount(code) ==
    Cardinality({i \in eligible :
        \E l \in plate[i].links : l = code \/ (code \in MainCodes /\ l \in MainGroups(code))})

DishCount(code) ==
    Cardinality({i \in eligible : ~large /\
        IF code \in DishCodes THEN plate[i].words \cap DishGroups(code) # {}
        ELSE plate[i].slug = code})

PriceCount(code) ==
    Cardinality({i \in eligible : \E amount \in plate[i].price : InBucket(amount, code)})

\* The curated ones are counted by their folded key, the others by their own.
TasteCount(code) ==
    Cardinality({i \in eligible : ~large /\
        CASE code = "not-spicy" -> plate[i].spice = 0
          [] code = "mild" -> plate[i].spice <= 1
          [] code \in TasteCodes \ {"not-spicy", "mild"} ->
                \E key \in plate[i].taste : Folded(key) = code
          [] OTHER -> code \in plate[i].taste})

\* Restaurants with an item for one.
SoloCount == Cardinality({Home[i] : i \in {j \in eligible : ~large /\ plate[j].solo}})

\* The count of an option; a curated code that is also a key or a slug is listed once.
Announced(section, code) ==
    CASE section = "main_ingredients" -> MainCount(code)
      [] section = "dish_types" -> DishCount(code)
      [] section = "price" -> PriceCount(code)
      [] section = "taste" -> TasteCount(code)
      [] section = "solo" -> SoloCount

-----------------------------------------------------------------------------
\* _item_matches_filters, the matcher in Python.
MatchesMain(i, codes) ==
    codes = {} \/ \E code \in codes :
        IF MainGroups(code) # {} THEN \E l \in plate[i].links : l \in MainGroups(code)
        ELSE code \in plate[i].links
MatchesDish(i, codes) ==
    codes = {} \/ \E code \in codes :
        IF DishGroups(code) # {} THEN DishGroups(code) \cap plate[i].words # {}
        ELSE Part(code, plate[i].slug)
MatchesPrice(i, codes) ==
    codes = {} \/ (plate[i].price # {} /\ \E code \in codes, amount \in plate[i].price :
                       InBucket(amount, code))
MatchesTaste(i, codes) ==
    codes = {} \/ \E code \in codes :
        CASE code = "not-spicy" -> plate[i].spice = 0
          [] code = "mild" -> plate[i].spice <= 1
          [] OTHER -> \E key \in plate[i].taste : Folded(key) = code

Matcher(i, q) ==
    /\ q.ingredients \subseteq plate[i].links
    /\ ~(q.spicy = "yes" /\ plate[i].spice = 0)
    /\ ~(q.spicy = "no" /\ plate[i].spice > 0)
    /\ MatchesMain(i, q.main) /\ MatchesDish(i, q.dish)
    /\ MatchesPrice(i, q.price) /\ MatchesTaste(i, q.taste)
    /\ q.solo => plate[i].solo

\* _sql_item_filter_predicates, of the same query.
Kept(i, q) ==
    /\ FoundByIngredients(i, q.ingredients)
    /\ FoundBySpice(i, q.spicy)
    /\ q.main = {} \/ \E code \in q.main : FoundByMain(i, code)
    /\ q.dish = {} \/ \E code \in q.dish : FoundByDish(i, code)
    /\ q.price = {} \/ \E code \in q.price : FoundByPrice(i, code)
    /\ q.taste = {} \/ \E code \in q.taste : FoundByTaste(i, code)
    /\ q.solo => FoundBySolo(i)

-----------------------------------------------------------------------------
\* Importers, the seed and owners.
WritePlate(i, p) ==
    /\ plate' = [plate EXCEPT ![i] = p]
    /\ UNCHANGED <<eligible, large>>

Offer(i) ==
    /\ eligible' = IF i \in eligible THEN eligible \ {i} ELSE eligible \cup {i}
    /\ UNCHANGED <<plate, large>>

\* The planner's statistics pass the threshold, in either direction.
Analyze ==
    /\ large' = ~large
    /\ UNCHANGED <<plate, eligible>>

SearchNext ==
    \/ \E i \in Plates, p \in Profiles : WritePlate(i, p)
    \/ \E i \in Plates : Offer(i)
    \/ Analyze

SearchSpec == SearchInit /\ [][SearchNext]_searchVars

-----------------------------------------------------------------------------
\* Each facet announces as many items as a search for it alone finds; of a
\* category, whose slug a search also finds within others, at least as many are
\* found.  The dish groups of a large catalog are announced as unavailable, and
\* keys of taste_profile are taken as written in the folded form
\* (catalog.py:2149, :641, :755).
LinkedCodes == UNION {plate[i].links : i \in eligible}

FacetsAnnounceWhatSearchFinds ==
    LET exact(section, code) ==
            Announced(section, code) = Cardinality(Found(section, code)) IN
    /\ \A c \in MainCodes \cup LinkedCodes : exact("main_ingredients", c)
    /\ \A c \in DishCodes : ~large => exact("dish_types", c)
    /\ \A c \in {plate[i].slug : i \in eligible} :
            Announced("dish_types", c) <= Cardinality(Found("dish_types", c))
    /\ \A c \in PriceCodes : exact("price", c)
    /\ (\A i \in eligible : \A key \in plate[i].taste : Folded(key) = key) =>
            \A c \in TasteCodes \cup UNION {plate[i].taste : i \in eligible} : exact("taste", c)
    /\ Announced("solo", "solo-friendly") =
            Cardinality({Home[i] : i \in Found("solo", "solo-friendly")})

\* The query of every filter the matcher knows, over the codes the items use.
Queries ==
    [ingredients : SUBSET {"mackerel", "onion"}, spicy : {"yes", "no", "any"},
     main : {{}, {"seafood"}, {"onion", "beef"}}, dish : {{}, {"noodles"}, {"set"}},
     price : {{}, {"under-10000", "35000-plus"}}, taste : {{}, {"mild", "rich"}},
     solo : BOOLEAN]

\* The SQL predicates keep the items that the matcher they replaced keeps, in a
\* catalog that is not large; in a large one they keep no others
\* (catalog.py:641, :951).
PredicatesKeepWhatMatches ==
    \A i \in eligible, q \in Queries :
        (\A key \in plate[i].taste : Folded(key) = key) =>
            /\ ~large => (Kept(i, q) <=> Matcher(i, q))
            /\ Kept(i, q) => Matcher(i, q)
=============================================================================
