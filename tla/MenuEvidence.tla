---------------------------- MODULE MenuEvidence ----------------------------
(***************************************************************************)
(* What the service says about one menu item and one food passport: the    *)
(* assessment shown with the menu (_compatibility of services/catalog.py), *)
(* the one on the order card (_compatibility of services/cart.py), and     *)
(* whether a search for the passport's codes keeps the item                *)
(* (_sql_item_filter_predicates).  The item's evidence and the passport    *)
(* change one entry at a time.  Codes are taken as normalised.             *)
(***************************************************************************)
EXTENDS Naturals, FiniteSets

CONSTANTS
    Diets, Allergens, Ingredients,  \* codes an item or a passport may have
    Avoidable,                      \* ingredient codes a passport may avoid
    Relations                       \* relation_type of menu_item_allergens

ASSUME EvidenceAssumptions ==
    Relations \subseteq {"contains", "may_contain", "cross_contact", "free_from",
                         "does_not_contain"}

VARIABLES
    claims,         \* menu_item_dietary_claims: Diets -> Evidence
    links,          \* menu_item_allergens, by allergen and relation
    ingredients,    \* menu_item_ingredients
    passport        \* food_passports: the empty set, or the set of one

evidenceVars == <<claims, links, ingredients, passport>>

\* verification_status, of a row there is: "unknown" and "unverified", or better.
Evidence == {"absent", "unverified", "verified"}
PassportRow == [diets: SUBSET Diets, allergens: SUBSET Allergens, avoided: SUBSET Avoidable]

EvidenceTypes ==
    /\ claims \in [Diets -> Evidence]
    /\ links \in [Allergens \X Relations -> Evidence]
    /\ ingredients \subseteq Ingredients
    /\ passport \subseteq PassportRow /\ Cardinality(passport) <= 1

EvidenceInit ==
    /\ claims = [d \in Diets |-> "absent"]
    /\ links = [l \in Allergens \X Relations |-> "absent"]
    /\ ingredients = {}
    /\ passport = {}

-----------------------------------------------------------------------------
Positive == {"contains", "may_contain", "cross_contact"} \cap Relations
Negative == {"free_from", "does_not_contain"} \cap Relations

\* Tables: the keys they do not have stand for themselves, or for nothing.
DietImplications(d) ==
    CASE d = "vegan" -> {"vegan", "vegetarian", "pescatarian"}
      [] d = "vegetarian" -> {"vegetarian", "pescatarian"}
      [] OTHER -> {d}

Covers(i) ==
    CASE i \in {"pork", "pork-belly"} -> {"vegan", "vegetarian", "pescatarian", "halal"}
      [] i \in {"meat", "beef", "chicken"} -> {"vegan", "vegetarian", "pescatarian"}
      [] i \in {"dairy", "milk", "cheese"} -> {"vegan"}
      [] i \in {"seafood", "fish", "shellfish"} -> {"vegan", "vegetarian"}
      [] OTHER -> {}

Descendants(i) ==
    {i} \cup CASE i = "allium" -> {"garlic", "onion", "scallion", "chive"}
      [] i = "dairy" -> {"milk", "cheese"}
      [] i = "fish" -> {"fish-cake", "mackerel"}
      [] i = "gluten" -> {"wheat", "wheat-flour"}
      [] i = "meat" -> {"pork", "pork-belly", "beef", "chicken"}
      [] i = "pork" -> {"pork-belly"}
      [] i = "seafood" -> {"fish", "fish-cake", "mackerel", "squid", "shrimp", "abalone"}
      [] i = "sesame" -> {"sesame-oil"}
      [] i = "shellfish" -> {"squid", "shrimp", "abalone"}
      [] i = "soy" -> {"soybean", "tofu"}
      [] OTHER -> {}

\* The order card's own tables.
CardCovers(i) ==
    CASE i \in {"meat", "dairy", "milk", "cheese", "seafood"} -> {} [] OTHER -> Covers(i)
CardDescendants(i) == IF i \in {"pork", "dairy"} THEN Descendants(i) ELSE {i}

-----------------------------------------------------------------------------
Declared(a, R) == \E r \in R : links[<<a, r>>] # "absent"
VerifiedFree(a) == \E r \in Negative : links[<<a, r>>] = "verified"

Implied(known) == UNION {DietImplications(d) : d \in {e \in Diets : claims[e] \in known}}

\* _expanded_diet_claims, by their best verification.
SupportedClaims == Implied({"verified"})

AllergenConflicts(p) == {a \in p.allergens : Declared(a, Positive)}

IngredientConflicts(p) == {i \in p.avoided : Descendants(i) \cap ingredients # {}}

\* Fault: a list of ingredients is taken as complete.
MissingUnlessNamed(p) ==
    (p.diets \ SupportedClaims)
    \cup {a \in p.allergens \ AllergenConflicts(p) : ~VerifiedFree(a)}
    \cup {i \in p.avoided \ IngredientConflicts(p) :
            ingredients = {} /\ Covers(i) \cap SupportedClaims = {}}

Missing(p) ==
    (p.diets \ SupportedClaims)
    \cup {a \in p.allergens \ AllergenConflicts(p) : ~VerifiedFree(a)}
    \cup {i \in p.avoided \ IngredientConflicts(p) : Covers(i) \cap SupportedClaims = {}}

\* The status with the menu.
MenuStatus(P) ==
    IF P = {} THEN "unknown"
    ELSE LET p == CHOOSE q \in P : TRUE IN
         IF AllergenConflicts(p) \cup IngredientConflicts(p) # {} THEN "conflict"
         ELSE IF Missing(p) # {} THEN "unknown" ELSE "compatible"

-----------------------------------------------------------------------------
CardConflicts(p) ==
    {a \in p.allergens : Declared(a, Positive)}
    \cup {i \in p.avoided : CardDescendants(i) \cap ingredients # {}}

\* found: the verification of the negative link that the loop saw last.
CardMissing(p, found) ==
    (p.diets \ SupportedClaims)
    \cup {a \in p.allergens : ~Declared(a, Positive) /\ ~found[a]}
    \cup {i \in p.avoided : CardDescendants(i) \cap ingredients = {}
                            /\ CardCovers(i) \cap SupportedClaims = {}}

\* The links come in no order: of several negative ones any may be the last.
LastFound ==
    {f \in [Allergens -> BOOLEAN] : \A a \in Allergens :
        IF Declared(a, Negative)
        THEN \E r \in Negative : links[<<a, r>>] # "absent" /\ f[a] = (links[<<a, r>>] = "verified")
        ELSE ~f[a]}

\* The status on the order card of this item alone; a card with several has
\* the worst of theirs.
CardStatus(P, found) ==
    IF P = {} THEN "unknown"
    ELSE LET p == CHOOSE q \in P : TRUE IN
         IF CardConflicts(p) # {} THEN "conflict"
         ELSE IF CardMissing(p, found) # {} THEN "unknown" ELSE "compatible"

-----------------------------------------------------------------------------
\* Fault: a claim must be that of the diet itself.
SearchDietsExact(p) == \A d \in p.diets : claims[d] # "absent"

\* A claim of the diet, or of one that implies it, verified or not.
SearchDiets(p) == p.diets \subseteq Implied({"verified", "unverified"})

\* The search with the passport's diets and avoided allergens.  A large catalog
\* asks for the evidence that an allergen is absent.
SearchKeeps(p, large) ==
    /\ SearchDiets(p)
    /\ IF large THEN \A a \in p.allergens : VerifiedFree(a)
       ELSE \A a \in p.allergens : ~Declared(a, Positive)

-----------------------------------------------------------------------------
\* Importers and the seed declare or withdraw evidence.
ChangeClaim(d, e) ==
    /\ claims' = [claims EXCEPT ![d] = e]
    /\ UNCHANGED <<links, ingredients, passport>>

ChangeLink(a, r, e) ==
    /\ links' = [links EXCEPT ![<<a, r>>] = e]
    /\ UNCHANGED <<claims, ingredients, passport>>

ChangeIngredient(i) ==
    /\ ingredients' = IF i \in ingredients THEN ingredients \ {i} ELSE ingredients \cup {i}
    /\ UNCHANGED <<claims, links, passport>>

\* Fault: the passport is inserted again.
AnotherPassport(p) ==
    /\ passport' = passport \cup {p}
    /\ UNCHANGED <<claims, links, ingredients>>

\* update_passport.
ChangePassport(p) ==
    /\ passport' = {p}
    /\ UNCHANGED <<claims, links, ingredients>>

EvidenceNext ==
    \/ \E d \in Diets, e \in Evidence : ChangeClaim(d, e)
    \/ \E a \in Allergens, r \in Relations, e \in Evidence : ChangeLink(a, r, e)
    \/ \E i \in Ingredients : ChangeIngredient(i)
    \/ \E p \in PassportRow : ChangePassport(p)

EvidenceSpec == EvidenceInit /\ [][EvidenceNext]_evidenceVars

-----------------------------------------------------------------------------
\* An item that the menu calls compatible with a passport is found by a search
\* for that passport's diets without its allergens, in a small catalog and in a
\* large one, which ask for different evidence (catalog.py:218, :641).
CompatibleItemsAreFound ==
    \A p \in passport : MenuStatus({p}) = "compatible" =>
        SearchKeeps(p, FALSE) /\ SearchKeeps(p, TRUE)

\* No verified claim names a diet that the item's own ingredients exclude.
Consistent ==
    \A i \in Avoidable : Descendants(i) \cap ingredients # {} =>
        Covers(i) \cap SupportedClaims = {}

\* The card, whose tables of ingredients and diets are shorter, clears no item
\* that the menu does not, in whatever order its rows are read, as long as the
\* item's own claims and ingredients agree (cart.py:338, catalog.py:218).
CardClearsNoMore ==
    Consistent =>
        \A found \in LastFound :
            CardStatus(passport, found) = "compatible" => MenuStatus(passport) = "compatible"

\* The three readings of the evidence on an item, by the menu, the search and
\* the order card, differ on the safe side only (catalog.py:218, :641, cart.py:338).
ReadingsAgree == CompatibleItemsAreFound /\ CardClearsNoMore

\* Evidence against an item never clears it, on the menu or on the card: what is
\* compatible after an ingredient or a positive relation was added was so before
\* (catalog.py:241, cart.py:436).
WarningsNeverClear ==
    [][/\ passport' = passport /\ claims' = claims
       /\ ingredients \subseteq ingredients'
       /\ \A l \in Allergens \X Relations : links'[l] # links[l] =>
              l[2] \in Positive /\ links[l] = "absent"
       => /\ MenuStatus(passport)' = "compatible" => MenuStatus(passport) = "compatible"
          /\ \A found \in LastFound :
               CardStatus(passport, found)' = "compatible" =>
                   CardStatus(passport, found) = "compatible"]_evidenceVars
=============================================================================
