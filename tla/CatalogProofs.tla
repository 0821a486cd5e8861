---------------------------- MODULE CatalogProofs ----------------------------
(***************************************************************************)
(* For every value of the constants: what a diner reads of the catalog,    *)
(* what the importers write to it, and the run that checks both side by    *)
(* side with the cart.                                                     *)
(***************************************************************************)
EXTENDS MCCatalog, CartProofs, FiniteSetTheorems, FunctionTheorems,
        WellFoundedInduction, TLAPS

-----------------------------------------------------------------------------
(* Evidence on an item.  What each reading concludes is a matter of the     *)
(* rows there are, whatever wrote them.                                     *)

LEMMA EvidenceTypesHold == EvidenceSpec => []EvidenceTypes
<1>1. EvidenceInit => EvidenceTypes
  BY FS_EmptySet DEF EvidenceInit, EvidenceTypes, Evidence
<1>2. EvidenceTypes /\ [EvidenceNext]_evidenceVars => EvidenceTypes'
  <2> SUFFICES ASSUME EvidenceTypes, [EvidenceNext]_evidenceVars PROVE EvidenceTypes'
    OBVIOUS
  <2>1. ASSUME NEW d \in Diets, NEW e \in Evidence, ChangeClaim(d, e) PROVE EvidenceTypes'
    BY <2>1 DEF ChangeClaim, EvidenceTypes
  <2>2. ASSUME NEW a \in Allergens, NEW r \in Relations, NEW e \in Evidence, ChangeLink(a, r, e)
        PROVE  EvidenceTypes'
    BY <2>2 DEF ChangeLink, EvidenceTypes
  <2>3. ASSUME NEW i \in Ingredients, ChangeIngredient(i) PROVE EvidenceTypes'
    BY <2>3 DEF ChangeIngredient, EvidenceTypes
  <2>4. ASSUME NEW p \in PassportRow, ChangePassport(p) PROVE EvidenceTypes'
    <3>1. Cardinality({p}) = 1
      BY FS_Singleton
    <3>2. QED
      BY <2>4, <3>1 DEF ChangePassport, EvidenceTypes
  <2>5. CASE UNCHANGED evidenceVars
    BY <2>5 DEF evidenceVars, EvidenceTypes
  <2>6. QED
    BY <2>1, <2>2, <2>3, <2>4, <2>5 DEF EvidenceNext
<1>3. QED
  BY <1>1, <1>2, PTL DEF EvidenceSpec

\* A user has at most one passport.
OnePassport == \A p, q \in passport : p = q

LEMMA OnePassportHolds == EvidenceSpec => []OnePassport
<1>1. EvidenceInit => OnePassport
  BY DEF EvidenceInit, OnePassport
<1>2. OnePassport /\ [EvidenceNext]_evidenceVars => OnePassport'
  BY DEF OnePassport, EvidenceNext, evidenceVars, ChangeClaim, ChangeLink, ChangeIngredient,
     ChangePassport
<1>3. QED
  BY <1>1, <1>2, PTL DEF EvidenceSpec

LEMMA CompatibleIsFound == EvidenceTypes => CompatibleItemsAreFound
<1> SUFFICES ASSUME EvidenceTypes, NEW p \in passport, MenuStatus({p}) = "compatible"
             PROVE  SearchKeeps(p, FALSE) /\ SearchKeeps(p, TRUE)
  BY DEF CompatibleItemsAreFound
<1>1. (CHOOSE q \in {p} : TRUE) = p /\ {p} # {}
  OBVIOUS
<1>2. AllergenConflicts(p) = {} /\ Missing(p) = {}
  BY <1>1 DEF MenuStatus
<1>3. p.diets \subseteq SupportedClaims
  BY <1>2 DEF Missing
<1>4. SearchDiets(p)
  BY <1>3 DEF SearchDiets, SupportedClaims, Implied
<1>5. \A a \in p.allergens : VerifiedFree(a) /\ ~Declared(a, Positive)
  BY <1>2 DEF Missing, AllergenConflicts
<1>6. QED
  BY <1>4, <1>5 DEF SearchKeeps

\* The tables of the order card are part of those of the menu.
LEMMA CardTables == \A i : CardCovers(i) \subseteq Covers(i)
  BY DEF CardCovers

LEMMA CardClears == EvidenceTypes /\ OnePassport => CardClearsNoMore
<1> SUFFICES ASSUME EvidenceTypes, OnePassport, Consistent, NEW found \in LastFound,
                    CardStatus(passport, found) = "compatible"
             PROVE  MenuStatus(passport) = "compatible"
  BY DEF CardClearsNoMore
<1>1. passport # {}
  BY DEF CardStatus
<1>2. PICK p : p \in passport /\ p = CHOOSE q \in passport : TRUE
  BY <1>1
<1>3. p \in PassportRow
  BY <1>2 DEF EvidenceTypes
<1>4. CardConflicts(p) = {} /\ CardMissing(p, found) = {}
  BY <1>1, <1>2 DEF CardStatus
<1>5. AllergenConflicts(p) = {}
  BY <1>4 DEF CardConflicts, AllergenConflicts
<1>6. p.diets \ SupportedClaims = {}
  BY <1>4 DEF CardMissing
<1>7. ASSUME NEW a \in p.allergens PROVE VerifiedFree(a)
  <2>1. a \in Allergens
    BY <1>3 DEF PassportRow
  <2>2. found[a]
    BY <1>4 DEF CardMissing, CardConflicts
  <2>3. QED
    BY <2>1, <2>2 DEF LastFound, VerifiedFree
<1>8. ASSUME NEW i \in p.avoided
      PROVE  Covers(i) \cap SupportedClaims # {} /\ Descendants(i) \cap ingredients = {}
  <2>1. i \in Avoidable
    BY <1>3 DEF PassportRow
  <2>2. CardCovers(i) \cap SupportedClaims # {}
    BY <1>4 DEF CardMissing, CardConflicts
  <2>3. QED
    BY <2>1, <2>2, CardTables DEF Consistent
<1>9. IngredientConflicts(p) = {} /\ Missing(p) = {}
  BY <1>5, <1>6, <1>7, <1>8 DEF IngredientConflicts, Missing
<1>10. QED
  BY <1>1, <1>2, <1>5, <1>9 DEF MenuStatus

\* For any item and passport: what the menu clears is found by a search for it,
\* and the order card clears nothing that the menu does not (catalog.py:218,
\* :641, cart.py:338).
THEOREM ReadingsAlwaysAgree == EvidenceSpec => []ReadingsAgree
<1>1. EvidenceTypes /\ OnePassport => ReadingsAgree
  BY CompatibleIsFound, CardClears DEF ReadingsAgree
<1>2. QED
  BY <1>1, EvidenceTypesHold, OnePassportHolds, PTL

\* What a step that only adds evidence against the item leaves alone.
LEMMA WarningsAdd ==
  ASSUME EvidenceTypes, passport' = passport, claims' = claims,
         ingredients \subseteq ingredients',
         \A l \in Allergens \X Relations : links'[l] # links[l] =>
             l[2] \in Positive /\ links[l] = "absent",
         NEW p \in PassportRow
  PROVE  /\ SupportedClaims' = SupportedClaims
         /\ \A a \in Allergens : Declared(a, Positive) => Declared(a, Positive)'
         /\ \A a \in Allergens : VerifiedFree(a)' <=> VerifiedFree(a)
<1>1. SupportedClaims' = SupportedClaims
  BY DEF SupportedClaims, Implied
<1>2. Positive \cap Negative = {} /\ Positive \subseteq Relations /\ Negative \subseteq Relations
  BY DEF Positive, Negative
<1>3. \A a \in Allergens, r \in Relations : <<a, r>> \in Allergens \X Relations
  OBVIOUS
<1>4. ASSUME NEW a \in Allergens, NEW r \in Negative PROVE links'[<<a, r>>] = links[<<a, r>>]
  BY <1>2, <1>3
<1>5. ASSUME NEW a \in Allergens, NEW r \in Positive, links[<<a, r>>] # "absent"
      PROVE  links'[<<a, r>>] # "absent"
  BY <1>2, <1>3, <1>5
<1>6. \A a \in Allergens : Declared(a, Positive) => Declared(a, Positive)'
  BY <1>5 DEF Declared, Positive
<1>7. \A a \in Allergens : VerifiedFree(a)' <=> VerifiedFree(a)
  BY <1>4 DEF VerifiedFree, Negative
<1>8. QED
  BY <1>1, <1>6, <1>7

LEMMA MenuWarns ==
  ASSUME EvidenceTypes, OnePassport, passport' = passport, claims' = claims,
         ingredients \subseteq ingredients',
         \A l \in Allergens \X Relations : links'[l] # links[l] =>
             l[2] \in Positive /\ links[l] = "absent",
         MenuStatus(passport)' = "compatible"
  PROVE  MenuStatus(passport) = "compatible"
<1>1. passport # {}
  BY DEF MenuStatus
<1>2. PICK p : p \in passport /\ p = CHOOSE q \in passport : TRUE
  BY <1>1
<1>3. p \in PassportRow
  BY <1>2 DEF EvidenceTypes
<1>4. AllergenConflicts(p)' = {} /\ IngredientConflicts(p)' = {} /\ Missing(p)' = {}
  BY <1>1, <1>2 DEF MenuStatus
<1>5. /\ SupportedClaims' = SupportedClaims
      /\ \A a \in p.allergens : Declared(a, Positive) => Declared(a, Positive)'
      /\ \A a \in p.allergens : VerifiedFree(a)' <=> VerifiedFree(a)
  BY <1>3, WarningsAdd DEF PassportRow
<1>6. AllergenConflicts(p) = {} /\ IngredientConflicts(p) = {}
  BY <1>4, <1>5 DEF AllergenConflicts, IngredientConflicts
<1>7. Missing(p) = {}
  BY <1>4, <1>5, <1>6 DEF Missing
<1>8. QED
  BY <1>1, <1>2, <1>6, <1>7 DEF MenuStatus

LEMMA CardWarns ==
  ASSUME EvidenceTypes, OnePassport, passport' = passport, claims' = claims,
         ingredients \subseteq ingredients',
         \A l \in Allergens \X Relations : links'[l] # links[l] =>
             l[2] \in Positive /\ links[l] = "absent",
         NEW found \in LastFound, CardStatus(passport, found)' = "compatible"
  PROVE  CardStatus(passport, found) = "compatible"
<1>1. passport # {}
  BY DEF CardStatus
<1>2. PICK p : p \in passport /\ p = CHOOSE q \in passport : TRUE
  BY <1>1
<1>3. p \in PassportRow
  BY <1>2 DEF EvidenceTypes
<1>9. PICK f : f = found
  OBVIOUS
<1>4. CardConflicts(p)' = {} /\ CardMissing(p, f)' = {}
  BY <1>1, <1>2, <1>9 DEF CardStatus
<1>5. /\ SupportedClaims' = SupportedClaims
      /\ \A a \in p.allergens : Declared(a, Positive) => Declared(a, Positive)'
  BY <1>3, WarningsAdd DEF PassportRow
<1>6. CardConflicts(p) = {}
  BY <1>4, <1>5 DEF CardConflicts
<1>7. CardMissing(p, f) = {}
  BY <1>4, <1>5, <1>6 DEF CardMissing, CardConflicts
<1>8. QED
  BY <1>1, <1>2, <1>6, <1>7, <1>9 DEF CardStatus

\* Evidence against an item that an importer adds makes neither the menu nor the
\* order card clear it (catalog.py:241, cart.py:436).
THEOREM EvidenceNeverClears == EvidenceSpec => WarningsNeverClear
<1> DEFINE Warned ==
      /\ passport' = passport /\ claims' = claims
      /\ ingredients \subseteq ingredients'
      /\ \A l \in Allergens \X Relations : links'[l] # links[l] =>
             l[2] \in Positive /\ links[l] = "absent"
      => /\ MenuStatus(passport)' = "compatible" => MenuStatus(passport) = "compatible"
         /\ \A found \in LastFound :
              CardStatus(passport, found)' = "compatible" =>
                  CardStatus(passport, found) = "compatible"
<1>1. EvidenceTypes /\ OnePassport => Warned
  BY MenuWarns, CardWarns
<1>2. QED
  BY <1>1, EvidenceTypesHold, OnePassportHolds, PTL DEF WarningsNeverClear

-----------------------------------------------------------------------------
(* Open hours.  A week is a circle of times, and a span is an arc of it.    *)

\* A position on a circle of N, seen from f.
LEMMA Around ==
  ASSUME NEW N \in Nat \ {0}, NEW l \in 0 .. N - 1, NEW f \in 0 .. N - 1
  PROVE  (l + N - f) % N = IF l >= f THEN l - f ELSE l + N - f
<1>1. CASE l >= f
  <2>1. l + N - f \in N .. 2 * N - 1
    BY <1>1
  <2>2. \A x \in N .. 2 * N - 1 : x % N = x - N
    BY SMT
  <2>3. QED
    BY <1>1, <2>1, <2>2
<1>2. CASE l < f
  <2>1. l + N - f \in 0 .. N - 1
    BY <1>2
  <2>2. \A x \in 0 .. N - 1 : x % N = x
    BY SMT
  <2>3. QED
    BY <1>2, <2>1, <2>2
<1>3. QED
  BY <1>1, <1>2

LEMMA Division ==
  ASSUME NEW D \in Nat \ {0}, NEW l \in Nat, NEW q, NEW r,
         q = l \div D, r = l % D
  PROVE  l = D * q + r
  BY SMTT(30)

\* The day and the time of an instant of the week.
LEMMA DayAndTime ==
  ASSUME NEW W \in Nat \ {0}, NEW D \in Nat \ {0}, NEW l \in 0 .. W * D - 1
  PROVE  /\ l \div D \in 0 .. W - 1 /\ l % D \in 0 .. D - 1
         /\ l = D * (l \div D) + (l % D)
<1>1. l \in Nat
  OBVIOUS
<1>2. l \div D \in Int /\ l % D \in 0 .. D - 1
  BY <1>1, SMT
<1>3. l = D * (l \div D) + (l % D)
  BY <1>1, Division
<1>4. PICK q \in Int, r \in 0 .. D - 1 : q = l \div D /\ r = l % D
  BY <1>2
<1>5. q >= 0
  <2>1. ASSUME q <= 0 - 1 PROVE FALSE
    <3>1. D * q <= 0 - D
      BY <2>1, SMT
    <3>2. QED
      BY <1>3, <1>4, <3>1
  <2>2. QED
    BY <2>1
<1>6. q <= W - 1
  <2>1. ASSUME q >= W PROVE FALSE
    <3>1. D * q >= W * D
      BY <2>1, SMT
    <3>2. QED
      BY <1>3, <1>4, <3>1
  <2>2. QED
    BY <2>1
<1>7. QED
  BY <1>2, <1>3, <1>4, <1>5, <1>6

\* Whether an instant lies in the span that starts on day d.
LEMMA InSpan ==
  ASSUME NEW W \in Nat \ {0}, NEW D \in Nat \ {0}, NEW T \in 0 .. W - 1, NEW d \in 0 .. W - 1,
         NEW t \in 0 .. D - 1, NEW o \in 0 .. D - 1, NEW c \in 0 .. D - 1,
         NEW from \in Int, NEW length \in Int,
         o = c => from = d * D /\ length = D,
         o < c => from = d * D + o /\ length = c - o,
         c < o => from = d * D + o /\ length = D + c - o
  PROVE  (D * T + t + W * D - from) % (W * D) < length <=>
           \/ d = T /\ (o = c \/ (o < c /\ o <= t /\ t < c) \/ (c < o /\ o <= t))
           \/ d = (T + W - 1) % W /\ c < o /\ t < c
<1> DEFINE N == W * D
           l == D * T + t
<1>1. /\ N \in Nat \ {0} /\ l \in 0 .. N - 1 /\ from \in 0 .. N - 1 /\ D <= N
  <2>1. D * T <= W * D - D /\ D * T >= 0
    BY SMT
  <2>2. d * D <= W * D - D /\ d * D >= 0
    BY SMT
  <2>3. QED
    BY <2>1, <2>2
<1>2. (l + N - from) % N = IF l >= from THEN l - from ELSE l + N - from
  BY <1>1, Around
<1>3. (T + W - 1) % W = IF T = 0 THEN W - 1 ELSE T - 1
  <2>1. \A x \in 0 .. W - 1 : x % W = x
    BY SMT
  <2>2. \A x \in W .. 2 * W - 1 : x % W = x - W
    BY SMT
  <2>3. QED
    BY <2>1, <2>2
<1>4. \A k \in Nat : (k >= 1 => D * k >= D) /\ (k >= 2 => D * k >= 2 * D)
  BY SMT
<1>5. CASE d = T
  <2>1. d * D = D * T
    BY <1>5
  <2>2. W = 1 => N = D
    OBVIOUS
  <2>3. W >= 2 => N >= 2 * D
    BY <1>4
  <2>4. CASE W = 1
    BY <1>2, <1>3, <1>5, <2>1, <2>2, <2>4
  <2>5. CASE W >= 2
    BY <1>2, <1>3, <1>5, <2>1, <2>3, <2>5
  <2>6. QED
    BY <2>4, <2>5
<1>6. CASE d < T
  <2>1. PICK k \in Nat : k = T - d
    BY <1>6
  <2>2. D * T = d * D + D * k /\ k >= 1
    BY <1>6, <2>1
  <2>3. (T + W - 1) % W = d <=> k = 1
    BY <1>3, <1>6, <2>1
  <2>4. k = 1 => D * k = D
    OBVIOUS
  <2>5. D * k >= D /\ (k >= 2 => D * k >= 2 * D)
    BY <1>4, <2>2
  <2>6. l >= from
    BY <2>2, <2>5
  <2>7. QED
    BY <1>2, <1>6, <2>2, <2>3, <2>4, <2>5, <2>6
<1>7. CASE T < d
  <2>1. PICK k \in Nat : k = W - (d - T)
    BY <1>7
  <2>2. D * T + N = d * D + D * k /\ k >= 1
    BY <1>7, <2>1
  <2>3. (T + W - 1) % W = d <=> k = 1
    BY <1>3, <1>7, <2>1
  <2>4. k = 1 => D * k = D
    OBVIOUS
  <2>5. D * k >= D /\ (k >= 2 => D * k >= 2 * D)
    BY <1>4, <2>2
  <2>6. l < from
    <3>1. d * D >= D * T + D
      BY <1>7, SMT
    <3>2. QED
      BY <3>1
  <2>7. QED
    BY <1>2, <1>7, <2>2, <2>3, <2>4, <2>5, <2>6
<1>8. QED
  BY <1>5, <1>6, <1>7

LEMMA OpenTypesHold == OpenSpec => []OpenTypes
<1>1. OpenInit => OpenTypes
  <2> SUFFICES ASSUME OpenInit PROVE OpenTypes
    OBVIOUS
  <2>1. hours \in [{} -> HourRows]
    BY DEF OpenInit
  <2>2. Cardinality(zones) = 0
    BY FS_EmptySet DEF OpenInit
  <2>3. QED
    BY <2>1, <2>2 DEF OpenInit, OpenTypes
<1>2. OpenTypes /\ [OpenNext]_openVars => OpenTypes'
  <2> SUFFICES ASSUME OpenTypes, [OpenNext]_openVars PROVE OpenTypes'
    OBVIOUS
  <2>1. ASSUME NEW d \in Days, NEW row \in HourRows, WriteHours(d, row) PROVE OpenTypes'
    <3>1. PICK D \in SUBSET Days : hours \in [D -> HourRows]
      BY DEF OpenTypes
    <3>2. hours' \in [D \cup {d} -> HourRows] /\ D \cup {d} \in SUBSET Days
      BY <2>1, <3>1 DEF WriteHours
    <3>3. QED
      BY <2>1, <3>2 DEF WriteHours, OpenTypes
  <2>2. CASE ToggleOpen
    BY <2>2 DEF ToggleOpen, OpenTypes
  <2>3. ASSUME NEW b \in BOOLEAN, Publish(b) PROVE OpenTypes'
    BY <2>3 DEF Publish, OpenTypes
  <2>4. CASE ReadZones
    <3>1. PICK Z : zones' = {Z} /\ Z \subseteq OtherZones \cup {Zone}
      BY <2>4 DEF ReadZones
    <3>2. Cardinality(zones') = 1
      BY <3>1, FS_Singleton
    <3>3. QED
      BY <2>4, <3>1, <3>2 DEF ReadZones, OpenTypes
  <2>5. CASE Answer
    <3>1. Cardinality(zones') = 0
      BY <2>5, FS_EmptySet DEF Answer
    <3>2. QED
      BY <2>5, <3>1 DEF Answer, OpenTypes
  <2>6. CASE UNCHANGED openVars
    BY <2>6 DEF openVars, OpenTypes
  <2>7. QED
    BY <2>1, <2>2, <2>3, <2>4, <2>5, <2>6 DEF OpenNext
<1>3. QED
  BY <1>1, <1>2, PTL DEF OpenSpec

LEMMA LocalTime ==
  ASSUME NEW z, NEW now \in Instants
  PROVE  /\ Local(z, now) \in Instants
         /\ Today(z, now) \in Days /\ Time(z, now) \in 0 .. DayLength - 1
         /\ Local(z, now) = DayLength * Today(z, now) + Time(z, now)
<1>1. WeekDays * DayLength \in Nat \ {0}
  BY OpenAssumptions
<1>2. Local(z, now) \in Instants
  <2>1. CASE z \in DOMAIN Offsets
    <3>1. now + Offsets[z] \in Nat
      BY <2>1, OpenAssumptions DEF Instants
    <3>2. \A x \in Nat, N \in Nat \ {0} : x % N \in 0 .. N - 1
      BY SMT
    <3>3. QED
      BY <1>1, <2>1, <3>1, <3>2 DEF Local, Instants
  <2>2. CASE z \notin DOMAIN Offsets
    BY <2>2 DEF Local
  <2>3. QED
    BY <2>1, <2>2
<1>3. QED
  BY <1>2, DayAndTime, OpenAssumptions DEF Instants, Days, Today, Time

\* A day's row as it is read and as the arc that it stands for.
LEMMA SpanOfDay ==
  ASSUME OpenTypes, NEW now \in Instants, NEW d \in Days, Timed(d)
  PROVE  (Local(Zone, now) + WeekDays * DayLength - Span(d).from) % (WeekDays * DayLength)
             < Span(d).length
         <=> \/ d = Today(Zone, now) /\ OpenToday(d, Time(Zone, now))
             \/ d = Before(Today(Zone, now)) /\ OpenSince(d, Time(Zone, now))
<1> DEFINE o == hours[d].opens
           c == hours[d].closes
<1>1. o \in 0 .. DayLength - 1 /\ c \in 0 .. DayLength - 1
  BY OpenAssumptions DEF OpenTypes, Timed
<1>0. WeekDays \in Nat \ {0} /\ DayLength \in Nat \ {0} /\ d \in 0 .. WeekDays - 1
  BY OpenAssumptions DEF Days
<1>11. /\ o = c => Span(d).from = d * DayLength /\ Span(d).length = DayLength
       /\ o < c => Span(d).from = d * DayLength + o /\ Span(d).length = c - o
       /\ c < o => Span(d).from = d * DayLength + o /\ Span(d).length = DayLength + c - o
  BY <1>1 DEF Span
<1>12. Span(d).from \in Int /\ Span(d).length \in Int
  <2>1. d * DayLength \in Int
    BY <1>0
  <2>2. QED
    BY <1>0, <1>1, <1>11, <2>1
<1>2. PICK from \in Int, length \in Int : from = Span(d).from /\ length = Span(d).length
  BY <1>12
<1>4. PICK T \in Days, t \in 0 .. DayLength - 1 : T = Today(Zone, now) /\ t = Time(Zone, now)
  BY LocalTime
<1>5. Local(Zone, now) = DayLength * T + t
  BY <1>4, LocalTime
<1>6. PICK op \in 0 .. DayLength - 1, cl \in 0 .. DayLength - 1 : op = o /\ cl = c
  BY <1>1
<1>7. (DayLength * T + t + WeekDays * DayLength - from) % (WeekDays * DayLength) < length <=>
        \/ d = T /\ (op = cl \/ (op < cl /\ op <= t /\ t < cl) \/ (cl < op /\ op <= t))
        \/ d = (T + WeekDays - 1) % WeekDays /\ cl < op /\ t < cl
  <2>1. /\ op = cl => from = d * DayLength /\ length = DayLength
        /\ op < cl => from = d * DayLength + op /\ length = cl - op
        /\ cl < op => from = d * DayLength + op /\ length = DayLength + cl - op
    BY <1>2, <1>6, <1>11
  <2>2. T \in 0 .. WeekDays - 1
    BY DEF Days
  <2>3. QED
    BY <1>0, <2>1, <2>2, InSpan
<1>8. OpenToday(d, t) <=> (op = cl \/ (op < cl /\ op <= t /\ t < cl) \/ (cl < op /\ op <= t))
  BY <1>6 DEF OpenToday
<1>9. OpenSince(d, t) <=> cl < op /\ t < cl
  BY <1>6 DEF OpenSince
<1>10. QED
  BY <1>2, <1>4, <1>5, <1>7, <1>8, <1>9 DEF Before

LEMMA SpansAreShown == OpenTypes => ShownByItsSpans
<1> SUFFICES ASSUME OpenTypes, NEW now \in Instants
             PROVE  ShownOpen(now) <=>
                        /\ switch
                        /\ \/ DOMAIN hours = {}
                           \/ \E d \in {e \in Days : Timed(e)} :
                                (Local(Zone, now) + WeekDays * DayLength - Span(d).from)
                                    % (WeekDays * DayLength) < Span(d).length
  BY DEF ShownByItsSpans
<1>1. hours = [d \in {} |-> 0] <=> DOMAIN hours = {}
  BY DEF OpenTypes
<1>2. Today(Zone, now) \in Days /\ Before(Today(Zone, now)) \in Days
  <2>1. Today(Zone, now) \in Days
    BY LocalTime
  <2>2. \A x \in Nat : x % WeekDays \in 0 .. WeekDays - 1
    BY OpenAssumptions, SMT
  <2>3. QED
    BY <2>1, <2>2, OpenAssumptions DEF Before, Days
<1>3. OpenToday(Today(Zone, now), Time(Zone, now)) => Timed(Today(Zone, now))
  BY DEF OpenToday
<1>4. OpenSince(Before(Today(Zone, now)), Time(Zone, now)) => Timed(Before(Today(Zone, now)))
  BY DEF OpenSince
<1>5. QED
  BY <1>1, <1>2, <1>3, <1>4, SpanOfDay DEF ShownOpen

\* Whatever the rows say: the screen and the search read the same meaning out of
\* them, in every zone, past midnight and over the end of the week
\* (catalog.py:763, :1045).
THEOREM OpenHoursHaveOneMeaning == OpenSpec => []OneOpenNow
<1>1. SearchAgreesWithScreen
  BY DEF SearchAgreesWithScreen, FoundOpen, ShownOpen, ScheduledIn, AnywhereScheduledIn
<1>2. OpenTypes => OneOpenNow
  BY <1>1, SpansAreShown DEF OneOpenNow
<1>3. QED
  BY <1>2, OpenTypesHold, PTL

-----------------------------------------------------------------------------
(* Filters and facets.                                                      *)

LEMMA SearchTypesHold == SearchSpec => []SearchTypes
<1>1. SearchInit => SearchTypes
  BY SearchAssumptions DEF SearchInit, SearchTypes
<1>2. SearchTypes /\ [SearchNext]_searchVars => SearchTypes'
  BY DEF SearchTypes, SearchNext, searchVars, WritePlate, Offer, Analyze
<1>3. QED
  BY <1>1, <1>2, PTL DEF SearchSpec

LEMMA PlateShape ==
  ASSUME SearchTypes, NEW i \in Plates
  PROVE  /\ plate[i] \in Profiles /\ plate[i].spice \in Nat
         /\ Part(plate[i].slug, plate[i].slug)
<1>1. plate[i] \in Profiles
  BY DEF SearchTypes
<1>2. QED
  BY <1>1, SearchAssumptions DEF Profile

\* The tables of groups have an entry for each code of their facet, which has
\* the code of the facet itself.
LEMMA GroupTables ==
  /\ \A code : MainGroups(code) # {} <=> code \in MainCodes
  /\ \A code : DishGroups(code) # {} <=> code \in DishCodes
  /\ \A code \in MainCodes : code \in MainGroups(code)
  BY DEF MainGroups, MainCodes, DishGroups, DishCodes

LEMMA MainIsExact ==
  ASSUME NEW code
  PROVE  Announced("main_ingredients", code) = Cardinality(Found("main_ingredients", code))
<1>1. Found("main_ingredients", code) = {i \in eligible : FoundByMain(i, code)}
  BY DEF Found
<1>2. \A i \in eligible :
        FoundByMain(i, code) <=>
            \E l \in plate[i].links : l = code \/ (code \in MainCodes /\ l \in MainGroups(code))
  BY GroupTables DEF FoundByMain
<1>3. QED
  BY <1>1, <1>2 DEF Announced, MainCount

LEMMA DishIsExact ==
  ASSUME NEW code \in DishCodes, ~large
  PROVE  Announced("dish_types", code) = Cardinality(Found("dish_types", code))
<1>1. Found("dish_types", code) = {i \in eligible : plate[i].words \cap DishGroups(code) # {}}
  BY DEF Found, FoundByDish
<1>2. QED
  BY <1>1 DEF Announced, DishCount

LEMMA SlugIsFound ==
  ASSUME SearchTypes, NEW code
  PROVE  Announced("dish_types", code) <= Cardinality(Found("dish_types", code))
<1> DEFINE F == {i \in eligible : FoundByDish(i, code)}
           S == {i \in eligible : ~large /\
                    IF code \in DishCodes THEN plate[i].words \cap DishGroups(code) # {}
                    ELSE plate[i].slug = code}
<1>1. Found("dish_types", code) = F /\ Announced("dish_types", code) = Cardinality(S)
  BY DEF Found, Announced, DishCount
<1>2. S \subseteq F
  BY PlateShape DEF FoundByDish, SearchTypes
<1>3. IsFiniteSet(F)
  BY SearchAssumptions, FS_Subset DEF SearchTypes
<1> HIDE DEF F, S
<1>4. Cardinality(S) <= Cardinality(F)
  BY <1>2, <1>3, FS_Subset
<1>5. QED
  BY <1>1, <1>4

LEMMA PriceIsExact ==
  ASSUME NEW code
  PROVE  Announced("price", code) = Cardinality(Found("price", code))
<1>1. Found("price", code) = {i \in eligible : FoundByPrice(i, code)}
  BY DEF Found
<1>2. QED
  BY <1>1 DEF Announced, PriceCount, FoundByPrice

LEMMA TasteIsExact ==
  ASSUME \A i \in eligible : \A key \in plate[i].taste : Folded(key) = key,
         NEW code \in TasteCodes \cup UNION {plate[i].taste : i \in eligible}
  PROVE  Announced("taste", code) = Cardinality(Found("taste", code))
<1>1. Folded(code) = code
  BY DEF Folded, TasteCodes
<1>2. Found("taste", code) = {i \in eligible : FoundByTaste(i, code)}
  BY <1>1 DEF Found
<1>3. ASSUME NEW i \in eligible
      PROVE  FoundByTaste(i, code) <=>
               ~large /\ CASE code = "not-spicy" -> plate[i].spice = 0
                           [] code = "mild" -> plate[i].spice <= 1
                           [] code \in TasteCodes \ {"not-spicy", "mild"} ->
                                \E key \in plate[i].taste : Folded(key) = code
                           [] OTHER -> code \in plate[i].taste
  <2>1. (\E key \in plate[i].taste : Folded(key) = code) <=> code \in plate[i].taste
    OBVIOUS
  <2>2. CASE code = "not-spicy" \/ code = "mild"
    BY <2>2 DEF FoundByTaste, TasteCodes
  <2>3. CASE code # "not-spicy" /\ code # "mild"
    BY <2>1, <2>3 DEF FoundByTaste
  <2>4. QED
    BY <2>2, <2>3
<1>4. QED
  BY <1>2, <1>3 DEF Announced, TasteCount

LEMMA SoloIsExact ==
  Announced("solo", "solo-friendly") =
      Cardinality({Home[i] : i \in Found("solo", "solo-friendly")})
<1>1. Found("solo", "solo-friendly") = {j \in eligible : ~large /\ plate[j].solo}
  BY DEF Found, FoundBySolo
<1>2. QED
  BY <1>1 DEF Announced, SoloCount

\* In any catalog: a facet announces what a search for it finds, one of a category
\* slug no more than that (catalog.py:2149, :641).
THEOREM FacetsAlwaysAnnounce == SearchSpec => []FacetsAnnounceWhatSearchFinds
<1>1. SearchTypes => FacetsAnnounceWhatSearchFinds
  BY MainIsExact, DishIsExact, SlugIsFound, PriceIsExact, TasteIsExact, SoloIsExact
     DEF FacetsAnnounceWhatSearchFinds
<1>2. QED
  BY <1>1, SearchTypesHold, PTL

LEMMA KeptMatches ==
  ASSUME SearchTypes, NEW i \in Plates, NEW q \in Queries,
         \A key \in plate[i].taste : Folded(key) = key
  PROVE  (~large => (Kept(i, q) <=> Matcher(i, q))) /\ (Kept(i, q) => Matcher(i, q))
<1>1. q.spicy \in {"yes", "no", "any"} /\ q.solo \in BOOLEAN
  BY DEF Queries
<1>2. plate[i].spice \in Nat
  BY PlateShape
<1>3. \A codes : MatchesMain(i, codes) <=> codes = {} \/ \E code \in codes : FoundByMain(i, code)
  BY GroupTables DEF MatchesMain, FoundByMain
<1>4. \A codes : MatchesDish(i, codes) <=> codes = {} \/ \E code \in codes : FoundByDish(i, code)
  BY GroupTables DEF MatchesDish, FoundByDish
<1>5. \A codes : MatchesPrice(i, codes) <=> codes = {} \/ \E code \in codes : FoundByPrice(i, code)
  BY DEF MatchesPrice, FoundByPrice
<1>6. ASSUME NEW codes
      PROVE  /\ ~large => (MatchesTaste(i, codes) <=>
                               codes = {} \/ \E code \in codes : FoundByTaste(i, code))
             /\ (codes = {} \/ \E code \in codes : FoundByTaste(i, code)) =>
                    MatchesTaste(i, codes)
  <2>1. \A code : (\E key \in plate[i].taste : Folded(key) = code) <=> code \in plate[i].taste
    OBVIOUS
  <2>2. ASSUME NEW code
        PROVE  (CASE code = "not-spicy" -> plate[i].spice = 0
                  [] code = "mild" -> plate[i].spice <= 1
                  [] OTHER -> \E key \in plate[i].taste : Folded(key) = code)
               <=> (CASE code = "not-spicy" -> plate[i].spice = 0
                      [] code = "mild" -> plate[i].spice <= 1
                      [] OTHER -> code \in plate[i].taste)
    <3>1. CASE code = "not-spicy" \/ code = "mild"
      BY <3>1
    <3>2. CASE code # "not-spicy" /\ code # "mild"
      BY <2>1, <3>2
    <3>3. QED
      BY <3>1, <3>2
  <2>3. QED
    BY <2>2 DEF MatchesTaste, FoundByTaste
<1>7. /\ FoundBySpice(i, q.spicy) => ~(q.spicy = "yes" /\ plate[i].spice = 0)
                                     /\ ~(q.spicy = "no" /\ plate[i].spice > 0)
      /\ ~large /\ ~(q.spicy = "yes" /\ plate[i].spice = 0)
                /\ ~(q.spicy = "no" /\ plate[i].spice > 0) => FoundBySpice(i, q.spicy)
  BY <1>1, <1>2 DEF FoundBySpice
<1>8. (~large => (FoundBySolo(i) <=> plate[i].solo)) /\ (FoundBySolo(i) => plate[i].solo)
  BY DEF FoundBySolo
<1>9. QED
  BY <1>3, <1>4, <1>5, <1>6, <1>7, <1>8 DEF Kept, Matcher, FoundByIngredients

\* In any catalog: the predicates keep what the matcher they replaced keeps, and a
\* large catalog drops some of it but adds nothing (catalog.py:641, :951).
THEOREM PredicatesAlwaysMatch == SearchSpec => []PredicatesKeepWhatMatches
<1>1. SearchTypes => PredicatesKeepWhatMatches
  BY KeptMatches DEF PredicatesKeepWhatMatches, SearchTypes
<1>2. QED
  BY <1>1, SearchTypesHold, PTL
-----------------------------------------------------------------------------
(* Pages.                                                                   *)

\* The requests whose rows have been selected and counted.
Counted == walk.at \in {"feature", "load", "answered"}

\* What the statements of a request know of the catalog while nobody has
\* written to it since the first of them.
RequestInvariant ==
    /\ walk.at = "select" /\ Path(walk.query) = "search" /\ walk.touched = {} =>
          walk.count = Cardinality(Matches(walk.query))
    /\ walk.at = "count" =>
          /\ walk.rows = <<>> /\ walk.cursor > 0 /\ Path(walk.query) \notin {"nearby", "search"}
          /\ walk.touched = {} => Cardinality(Matches(walk.query)) <= walk.cursor
    /\ Counted => RowsAreCounted
    /\ walk.at = "feature" /\ walk.query.ask = "filtered" =>
          \A n \in DOMAIN walk.rows :
              walk.rows[n][1] \notin walk.touched => walk.rows[n] \in Matches(walk.query)
    /\ walk.at \in {"load", "answered"} /\ walk.query.ask = "filtered" =>
          \A n \in DOMAIN walk.rows :
              walk.rows[n][1] \notin walk.touched =>
                  /\ walk.rows[n][1] \in DOMAIN walk.featured
                  /\ walk.featured[walk.rows[n][1]] \in Fits(walk.query)

\* The orders that the walk's query may answer in.
Orders == Sorted(walk.query, Matches(walk.query))

\* What a walk has seen while nobody has written since its first request.
WalkInvariant ==
    walk.quiet =>
        /\ walk.at \in {"read", "select", "count", "feature", "load", "answered"} => walk.touched = {}
        /\ walk.at \in {"read", "select"} =>
              \/ walk.cursor = 0 /\ walk.seen = <<>>
              \/ \E s \in Orders : walk.cursor <= Len(s) /\ walk.seen = SubSeq(s, 1, walk.cursor)
        /\ walk.at \in {"count", "feature", "load"} =>
              \E s \in Orders : /\ walk.cursor <= Len(s) /\ walk.seen = SubSeq(s, 1, walk.cursor)
                                /\ walk.rows = Page(s, walk.cursor)
        /\ Counted => walk.count = Cardinality(Matches(walk.query))
        /\ walk.at = "answered" =>
              \E s \in Orders : /\ walk.cursor + Len(walk.rows) <= Len(s)
                                /\ walk.seen = SubSeq(s, 1, walk.cursor + Len(walk.rows))
        /\ walk.at = "done" => walk.seen \in Orders
        /\ walk.at = "refused" =>
              Len(walk.seen) > MaxOffset /\ \E s \in Orders : IsPrefix(walk.seen, s)

LEMMA LeastExists ==
  ASSUME NEW T \in SUBSET Nat, T # {}
  PROVE  \E m \in T : \A n \in T : m <= n
<1> DEFINE less == {p \in Nat \X Nat : p[1] < p[2]}
<1>1. IsWellFoundedOn(less, Nat)
  BY NatLessThanWellFounded DEF OpToRel
<1>2. PICK m \in T : \A n \in T : ~(<<n, m>> \in less)
  BY <1>1, WFMin
<1>3. ASSUME NEW n \in T PROVE m <= n
  <2>1. n \in Nat /\ m \in Nat /\ <<n, m>> \notin less
    BY <1>2
  <2>2. QED
    BY <2>1
<1>4. QED
  BY <1>3

\* A page of restaurants is one of the two reads near a place.
LEMMA Paths ==
  ASSUME NEW q \in PageQueries
  PROVE  /\ Path(q) \in {"nearby", "filtered", "search", "large_search"}
         /\ q.ask = "filtered" => Path(q) = "filtered"
BY DEF Path, PageQueries, Asks

LEMMA MatchesAreRows ==
  ASSUME PageTypes, NEW q \in PageQueries
  PROVE  /\ Matches(q) \subseteq PageRows
         /\ IsFiniteSet(Matches(q)) /\ Cardinality(Matches(q)) \in Nat
         /\ OfSpots(q) => Matches(q) \subseteq shown \X {0}
         /\ ~OfSpots(q) => Matches(q) \subseteq Dishes
<1>1. Fits(q) \subseteq Dishes
  BY PageAssumptions DEF Fits, PageQueries
<1>2. /\ OfSpots(q) => Matches(q) \subseteq shown \X {0}
      /\ ~OfSpots(q) => Matches(q) \subseteq Dishes
  BY <1>1, Paths DEF Matches, OfSpots
<1>3. IsFiniteSet(Spots \X {0}) /\ IsFiniteSet(Dishes)
  BY PageAssumptions, FS_Product, FS_Singleton
<1>4. IsFiniteSet(PageRows)
  BY <1>3, FS_Union DEF PageRows
<1>5. Matches(q) \subseteq PageRows
  BY <1>2 DEF PageRows, PageTypes
<1>6. IsFiniteSet(Matches(q)) /\ Cardinality(Matches(q)) \in Nat
  BY <1>4, <1>5, FS_Subset, FS_CardinalityType
<1>7. QED
  BY <1>2, <1>5, <1>6

LEMMA OrdersAreSequences ==
  ASSUME NEW S, IsFiniteSet(S), NEW q, NEW s \in Sorted(q, S)
  PROVE  s \in Seq(S) /\ Cardinality(S) \in Nat /\ Len(s) = Cardinality(S)
<1>1. Cardinality(S) \in Nat
  BY FS_CardinalityType
<1>2. s \in [1 .. Cardinality(S) -> S]
  BY DEF Sorted, SetToSeqs
<1>3. QED
  BY <1>1, <1>2

LEMMA PageOfSequence ==
  ASSUME NEW S, NEW s \in Seq(S), NEW o \in Nat
  PROVE  /\ Page(s, o) \in Seq(S)
         /\ Page(s, o) = <<>> <=> Len(s) <= o
         /\ \A n \in DOMAIN Page(s, o) : Page(s, o)[n] \in S
         /\ Len(s) > o => Len(Page(s, o)) = Min({PageSize, Len(s) - o})
         /\ o <= Len(s) => /\ o + Len(Page(s, o)) <= Len(s)
                           /\ SubSeq(s, 1, o) \o Page(s, o) = SubSeq(s, 1, o + Len(Page(s, o)))
<1> DEFINE last == Min({o + PageSize, Len(s)})
<1>1. last \in Nat /\ last <= Len(s) /\ last <= o + PageSize
      /\ (last = Len(s) \/ last = o + PageSize)
  <2>1. o + PageSize \in Nat /\ Len(s) \in Nat
    BY PageAssumptions
  <2>2. \A m, n \in Nat : Min({m, n}) \in {m, n} /\ Min({m, n}) <= m /\ Min({m, n}) <= n
    <3> SUFFICES ASSUME NEW m \in Nat, NEW n \in Nat
                 PROVE  Min({m, n}) \in {m, n} /\ Min({m, n}) <= m /\ Min({m, n}) <= n
      OBVIOUS
    <3>1. \E a \in {m, n} : \A b \in {m, n} : a <= b
      BY LeastExists
    <3>2. QED
      BY <3>1 DEF Min
  <2>3. QED
    BY <2>1, <2>2
<1>2. Page(s, o) = SubSeq(s, o + 1, last)
  BY DEF Page
<1> HIDE DEF last
<1>3. PageSize \in Nat /\ PageSize >= 1
  BY PageAssumptions
<1>4. Page(s, o) \in Seq(S)
      /\ Len(Page(s, o)) = (IF o + 1 <= last THEN last - o ELSE 0)
      /\ \A n \in 1 .. Len(Page(s, o)) : Page(s, o)[n] = s[o + n]
  BY <1>1, <1>2
<1>5. Page(s, o) = <<>> <=> Len(s) <= o
  BY <1>1, <1>3, <1>4
<1>6. \A n \in DOMAIN Page(s, o) : Page(s, o)[n] \in S
  BY <1>4
<1>7. ASSUME o <= Len(s)
      PROVE  /\ o + Len(Page(s, o)) <= Len(s)
             /\ SubSeq(s, 1, o) \o Page(s, o) = SubSeq(s, 1, o + Len(Page(s, o)))
  <2>1. o + Len(Page(s, o)) <= Len(s)
    BY <1>1, <1>4, <1>7
  <2> DEFINE t == SubSeq(s, 1, o)
             p == Page(s, o)
             u == SubSeq(s, 1, o + Len(p))
  <2>2. t \in Seq(S) /\ Len(t) = o /\ \A n \in 1 .. o : t[n] = s[n]
    BY <1>7
  <2>3. u \in Seq(S) /\ Len(u) = o + Len(p) /\ \A n \in 1 .. o + Len(p) : u[n] = s[n]
    BY <1>4, <2>1
  <2>4. t \o p \in Seq(S) /\ Len(t \o p) = o + Len(p)
    BY <1>4, <2>2
  <2>5. \A n \in 1 .. o + Len(p) : (t \o p)[n] = IF n <= o THEN t[n] ELSE p[n - o]
    BY <1>4, <2>2
  <2>6. \A n \in 1 .. o + Len(p) : (t \o p)[n] = u[n]
    BY <1>4, <2>2, <2>3, <2>5
  <2>7. t \o p = u
    BY <2>3, <2>4, <2>6
  <2>8. QED
    BY <2>1, <2>7
<1>8. ASSUME Len(s) > o PROVE Len(Page(s, o)) = Min({PageSize, Len(s) - o})
  <2>1. \A m, n \in Nat : Min({m, n}) = IF m <= n THEN m ELSE n
    <3> SUFFICES ASSUME NEW m \in Nat, NEW n \in Nat
                 PROVE  Min({m, n}) = IF m <= n THEN m ELSE n
      OBVIOUS
    <3>1. \E a \in {m, n} : \A b \in {m, n} : a <= b
      BY LeastExists
    <3>2. Min({m, n}) \in {m, n} /\ Min({m, n}) <= m /\ Min({m, n}) <= n
      BY <3>1 DEF Min
    <3>3. QED
      BY <3>2
  <2>2. Len(s) \in Nat /\ Len(s) - o \in Nat /\ o + PageSize \in Nat
    BY <1>3, <1>8
  <2>3. Min({o + PageSize, Len(s)}) = IF o + PageSize <= Len(s) THEN o + PageSize ELSE Len(s)
    BY <2>1, <2>2
  <2>4. Min({PageSize, Len(s) - o}) = IF PageSize <= Len(s) - o THEN PageSize ELSE Len(s) - o
    BY <1>3, <2>1, <2>2
  <2>5. last = IF o + PageSize <= Len(s) THEN o + PageSize ELSE Len(s)
    BY <2>3 DEF last
  <2>6. QED
    BY <1>3, <1>4, <1>8, <2>2, <2>4, <2>5
<1>9. QED
  BY <1>4, <1>5, <1>6, <1>7, <1>8

\* Keys of three and of five columns: one of two different ones is the lesser.
LEMMA ShortKeysCompare ==
  ASSUME NEW k1 \in Int, NEW k2 \in Int, NEW k3 \in Int,
         NEW l1 \in Int, NEW l2 \in Int, NEW l3 \in Int, <<k1, k2, k3>> # <<l1, l2, l3>>
  PROVE  Less(<<k1, k2, k3>>, <<l1, l2, l3>>) \/ Less(<<l1, l2, l3>>, <<k1, k2, k3>>)
<1> DEFINE k == <<k1, k2, k3>>
           l == <<l1, l2, l3>>
<1>1. k \in Seq(Int) /\ l \in Seq(Int) /\ Len(k) = 3 /\ Len(l) = 3 /\ DOMAIN k = 1 .. 3 /\ DOMAIN l = 1 .. 3
      /\ k[1] = k1 /\ k[2] = k2 /\ k[3] = k3 /\ l[1] = l1 /\ l[2] = l2 /\ l[3] = l3
  OBVIOUS
<1>2. \E n \in 1 .. 3 : k[n] # l[n] /\ \A m \in 1 .. n - 1 : k[m] = l[m]
  <2>1. CASE k1 # l1
    BY <1>1, <2>1
  <2>2. CASE k1 = l1 /\ k2 # l2
    BY <1>1, <2>2
  <2>3. CASE k1 = l1 /\ k2 = l2 /\ k3 # l3
    BY <1>1, <2>3
  <2>4. QED
    BY <2>1, <2>2, <2>3
<1> HIDE DEF k, l
<1>3. Less(k, l) \/ Less(l, k)
  <2>1. PICK n \in 1 .. 3 : k[n] # l[n] /\ \A m \in 1 .. n - 1 : k[m] = l[m]
    BY <1>2
  <2>2. k[n] < l[n] \/ l[n] < k[n]
    BY <1>1, <2>1
  <2>3. QED
    BY <1>1, <2>1, <2>2 DEF Less
<1>4. QED
  BY <1>3 DEF k, l

LEMMA LongKeysCompare ==
  ASSUME NEW k1 \in Int, NEW k2 \in Int, NEW k3 \in Int, NEW k4 \in Int, NEW k5 \in Int,
         NEW l1 \in Int, NEW l2 \in Int, NEW l3 \in Int, NEW l4 \in Int, NEW l5 \in Int,
         k4 # l4 \/ k5 # l5
  PROVE  \/ Less(<<k1, k2, k3, k4, k5>>, <<l1, l2, l3, l4, l5>>)
         \/ Less(<<l1, l2, l3, l4, l5>>, <<k1, k2, k3, k4, k5>>)
<1> DEFINE k == <<k1, k2, k3, k4, k5>>
           l == <<l1, l2, l3, l4, l5>>
<1>1. k \in Seq(Int) /\ l \in Seq(Int) /\ DOMAIN k = 1 .. 5 /\ DOMAIN l = 1 .. 5
  OBVIOUS
<1>2. /\ k[1] = k1 /\ k[2] = k2 /\ k[3] = k3 /\ k[4] = k4 /\ k[5] = k5
      /\ l[1] = l1 /\ l[2] = l2 /\ l[3] = l3 /\ l[4] = l4 /\ l[5] = l5
  OBVIOUS
<1> HIDE DEF k, l
<1>3. \E n \in 1 .. 5 : k[n] # l[n] /\ \A m \in 1 .. n - 1 : k[m] = l[m]
  <2>1. CASE k1 # l1
    BY <1>2, <2>1
  <2>2. CASE k1 = l1 /\ k2 # l2
    BY <1>2, <2>2
  <2>3. CASE k1 = l1 /\ k2 = l2 /\ k3 # l3
    BY <1>2, <2>3
  <2>4. CASE k1 = l1 /\ k2 = l2 /\ k3 = l3 /\ k4 # l4
    BY <1>2, <2>4
  <2>5. CASE k1 = l1 /\ k2 = l2 /\ k3 = l3 /\ k4 = l4 /\ k5 # l5
    BY <1>2, <2>5
  <2>6. QED
    BY <2>1, <2>2, <2>3, <2>4, <2>5
<1>4. Less(k, l) \/ Less(l, k)
  <2>1. PICK n \in 1 .. 5 : k[n] # l[n] /\ \A m \in 1 .. n - 1 : k[m] = l[m]
    BY <1>3
  <2>2. k[n] < l[n] \/ l[n] < k[n]
    BY <1>1, <2>1
  <2>3. QED
    BY <1>1, <2>1, <2>2 DEF Less
<1>5. QED
  BY <1>4 DEF k, l

\* Of two rows that a read selects one comes before the other: the last columns
\* of each key, the slug or the slug and the item, tell any two apart.
LEMMA KeysCompare ==
  ASSUME PageTypes, NEW q \in PageQueries,
         NEW a \in Matches(q), NEW b \in Matches(q), a # b
  PROVE  Less(Key(q, a), Key(q, b)) \/ Less(Key(q, b), Key(q, a))
<1>1. CASE OfSpots(q)
  <2>1. a \in Spots \X {0} /\ b \in Spots \X {0}
    BY <1>1, MatchesAreRows DEF PageTypes
  <2>2. a[1] \in Spots /\ b[1] \in Spots /\ a[1] # b[1]
    BY <2>1
  <2>3. /\ Far[a[1]] \in Int /\ 0 - Stars[a[1]] \in Int /\ a[1] \in Int
        /\ Far[b[1]] \in Int /\ 0 - Stars[b[1]] \in Int /\ b[1] \in Int
    <3>1. \A s \in Spots : s \in Nat /\ Far[s] \in Nat /\ Stars[s] \in Nat
      BY PageAssumptions
    <3>2. QED
      BY <2>2, <3>1
  <2>4. <<Far[a[1]], 0 - Stars[a[1]], a[1]>> # <<Far[b[1]], 0 - Stars[b[1]], b[1]>>
    BY <2>2
  <2>5. QED
    BY <1>1, <2>3, <2>4, ShortKeysCompare DEF Key
<1>2. CASE ~OfSpots(q)
  <2>1. a \in Dishes /\ b \in Dishes
    BY <1>2, MatchesAreRows
  <2>2. a \in Spots \X (Nat \ {0}) /\ b \in Spots \X (Nat \ {0})
    BY <2>1, PageAssumptions
  <2>3. a[1] \in Spots /\ b[1] \in Spots /\ a[2] \in Nat /\ b[2] \in Nat
        /\ (a[1] # b[1] \/ a[2] # b[2])
    BY <2>2
  <2>4. /\ 0 - Points(q, a) \in Int /\ 0 - Points(q, b) \in Int
        /\ Far[a[1]] \in Int /\ 0 - Stars[a[1]] \in Int /\ a[1] \in Int /\ a[2] \in Int
        /\ Far[b[1]] \in Int /\ 0 - Stars[b[1]] \in Int /\ b[1] \in Int /\ b[2] \in Int
    <3>1. Points(q, a) \in Nat /\ Points(q, b) \in Nat
      BY <2>1, PageAssumptions DEF Points, PageQueries
    <3>2. /\ Far[a[1]] \in Nat /\ Stars[a[1]] \in Nat /\ a[1] \in Nat
          /\ Far[b[1]] \in Nat /\ Stars[b[1]] \in Nat /\ b[1] \in Nat
      BY <2>3, PageAssumptions
    <3>3. QED
      BY <2>3, <3>1, <3>2
  <2>5. QED
    BY <1>2, <2>3, <2>4, LongKeysCompare DEF Key
<1>3. QED
  BY <1>1, <1>2

\* An order of a finite set has every row of it.
LEMMA OrdersHaveEveryRow ==
  ASSUME NEW S, IsFiniteSet(S), NEW q, NEW s \in Sorted(q, S)
  PROVE  /\ \A i, j \in 1 .. Len(s) : i # j => s[i] # s[j]
         /\ \A r \in S : \E n \in 1 .. Len(s) : s[n] = r
<1>1. Cardinality(S) \in Nat /\ Len(s) = Cardinality(S)
  BY OrdersAreSequences
<1>2. s \in [1 .. Cardinality(S) -> S]
      /\ \A i, j \in 1 .. Cardinality(S) : i # j => s[i] # s[j]
  BY DEF Sorted, SetToSeqs
<1>3. s \in Injection(1 .. Cardinality(S), S)
  BY <1>2 DEF Injection, IsInjective
<1>4. Cardinality(1 .. Cardinality(S)) = Cardinality(S)
  BY <1>1, FS_Interval
<1>5. s \in Surjection(1 .. Cardinality(S), S)
  BY <1>3, <1>4, FS_Injection
<1>6. \A r \in S : \E n \in 1 .. Cardinality(S) : s[n] = r
  BY <1>5 DEF Surjection
<1>7. QED
  BY <1>1, <1>2, <1>6

\* The row at the first place where two orders differ comes later in the other
\* one, in both: neither of the two rows could be before the other.
LEMMA OneOrder ==
  ASSUME PageTypes, NEW q \in PageQueries,
         NEW s \in Sorted(q, Matches(q)), NEW t \in Sorted(q, Matches(q))
  PROVE  s = t
<1> DEFINE S == Matches(q)
           differ == {n \in 1 .. Cardinality(S) : s[n] # t[n]}
<1>1. IsFiniteSet(S) /\ Cardinality(S) \in Nat
  BY MatchesAreRows
<1>2. /\ s \in Seq(S) /\ Len(s) = Cardinality(S) /\ t \in Seq(S) /\ Len(t) = Cardinality(S)
  BY <1>1, OrdersAreSequences
<1>3. /\ \A i, j \in 1 .. Cardinality(S) : i # j => s[i] # s[j] /\ t[i] # t[j]
      /\ \A r \in S : /\ \E n \in 1 .. Cardinality(S) : s[n] = r
                      /\ \E n \in 1 .. Cardinality(S) : t[n] = r
  <2>1. /\ \A i, j \in 1 .. Len(s) : i # j => s[i] # s[j]
        /\ \A r \in S : \E n \in 1 .. Len(s) : s[n] = r
    BY <1>1, OrdersHaveEveryRow
  <2>2. /\ \A i, j \in 1 .. Len(t) : i # j => t[i] # t[j]
        /\ \A r \in S : \E n \in 1 .. Len(t) : t[n] = r
    BY <1>1, OrdersHaveEveryRow
  <2> HIDE DEF S
  <2>3. QED
    BY <1>2, <2>1, <2>2
<1>4. \A i, j \in 1 .. Cardinality(S) : i < j =>
          /\ ~Less(Key(q, s[j]), Key(q, s[i]))
          /\ ~Less(Key(q, t[j]), Key(q, t[i]))
  <2>1. DOMAIN s = 1 .. Cardinality(S) /\ DOMAIN t = 1 .. Cardinality(S)
    BY <1>2
  <2>2. QED
    BY <2>1 DEF Sorted
<1>5. \A a, b \in S : a # b =>
          Less(Key(q, a), Key(q, b)) \/ Less(Key(q, b), Key(q, a))
  BY KeysCompare
<1> HIDE DEF S
<1>6. differ = {}
  <2> SUFFICES ASSUME differ # {} PROVE FALSE
    OBVIOUS
  <2>1. differ \in SUBSET Nat
    BY <1>1
  <2>2. PICK n \in differ : \A m \in differ : n <= m
    BY <2>1, LeastExists
  <2>3. n \in 1 .. Cardinality(S) /\ s[n] # t[n]
        /\ \A m \in 1 .. Cardinality(S) : m < n => s[m] = t[m]
    <3>1. n \in 1 .. Cardinality(S) /\ s[n] # t[n]
      BY <2>2
    <3>2. ASSUME NEW m \in 1 .. Cardinality(S), m < n PROVE s[m] = t[m]
      <4>1. m \notin differ
        BY <1>1, <2>2, <3>1, <3>2
      <4>2. QED
        BY <4>1
    <3>3. QED
      BY <3>1, <3>2
  <2> HIDE DEF differ
  <2>4. s[n] \in S /\ t[n] \in S
    BY <1>2, <2>3
  <2>5. PICK i \in 1 .. Cardinality(S) : t[i] = s[n]
    BY <1>3, <2>4
  <2>6. PICK j \in 1 .. Cardinality(S) : s[j] = t[n]
    BY <1>3, <2>4
  <2>7. n < i
    BY <1>1, <1>3, <2>3, <2>5
  <2>8. n < j
    BY <1>1, <1>3, <2>3, <2>6
  <2>9. ~Less(Key(q, s[n]), Key(q, t[n])) /\ ~Less(Key(q, t[n]), Key(q, s[n]))
    BY <1>4, <2>3, <2>5, <2>6, <2>7, <2>8
  <2>10. QED
    BY <1>5, <2>3, <2>4, <2>9
<1>7. QED
  BY <1>2, <1>6

LEMMA FirstIsOne ==
  ASSUME NEW D \in SUBSET Dishes, D # {}
  PROVE  First(D) \in D
<1> DEFINE numbers == {d[2] : d \in D}
<1>1. numbers \in SUBSET Nat /\ numbers # {}
  BY PageAssumptions
<1>2. PICK m \in numbers : \A n \in numbers : m <= n
  BY <1>1, LeastExists
<1>3. \E d \in D : \A e \in D : d[2] <= e[2]
  BY <1>2
<1>4. QED
  BY <1>3 DEF First

LEMMA FeaturedTypes ==
  ASSUME PageTypes, NEW D \in SUBSET Spots, NEW f \in [D -> Dishes]
  PROVE  f \in UNION {[E -> Dishes] : E \in SUBSET Spots}
OBVIOUS

LEMMA RowsOfARequest ==
  ASSUME PageTypes, NEW s \in Sorted(walk.query, Matches(walk.query))
  PROVE  /\ s \in Seq(Matches(walk.query)) /\ s \in Seq(PageRows)
         /\ Cardinality(Matches(walk.query)) \in Nat /\ Len(s) = Cardinality(Matches(walk.query))
         /\ Page(s, walk.cursor) \in Seq(PageRows)
         /\ \A n \in DOMAIN Page(s, walk.cursor) : Page(s, walk.cursor)[n] \in Matches(walk.query)
         /\ Page(s, walk.cursor) = <<>> <=> Cardinality(Matches(walk.query)) <= walk.cursor
         /\ Page(s, walk.cursor) # <<>> =>
                Len(Page(s, walk.cursor)) =
                    Min({PageSize, Cardinality(Matches(walk.query)) - walk.cursor})
<1>1. walk.query \in PageQueries /\ walk.cursor \in Nat
  BY DEF PageTypes
<1>2. /\ Matches(walk.query) \subseteq PageRows /\ IsFiniteSet(Matches(walk.query))
      /\ Cardinality(Matches(walk.query)) \in Nat
  BY <1>1, MatchesAreRows
<1>3. s \in Seq(Matches(walk.query)) /\ Len(s) = Cardinality(Matches(walk.query))
  BY <1>2, OrdersAreSequences
<1>4. s \in Seq(PageRows)
  BY <1>2, <1>3
<1>5. /\ Page(s, walk.cursor) \in Seq(PageRows)
      /\ \A n \in DOMAIN Page(s, walk.cursor) : Page(s, walk.cursor)[n] \in Matches(walk.query)
      /\ Page(s, walk.cursor) = <<>> <=> Len(s) <= walk.cursor
      /\ Len(s) > walk.cursor => Len(Page(s, walk.cursor)) = Min({PageSize, Len(s) - walk.cursor})
  BY <1>1, <1>3, <1>4, PageOfSequence
<1>6. Page(s, walk.cursor) # <<>> => Len(s) > walk.cursor
  BY <1>1, <1>2, <1>3, <1>5
<1>7. QED
  BY <1>2, <1>3, <1>4, <1>5, <1>6

\* What a request reads first: how large the catalog is, and the clock.
LEMMA ReadingTypes ==
  ASSUME PageTypes, NEW ask \in Asks, NEW openNow \in BOOLEAN
  PROVE  Reading(ask, openNow) \subseteq PageQueries
BY PageAssumptions DEF Reading, PageQueries

LEMMA DisturbedWalk ==
  ASSUME PageTypes, NEW S \in SUBSET Spots
  PROVE  \E T \in SUBSET Spots :
            /\ Disturb(S) = [walk EXCEPT !.quiet = FALSE, !.seen = <<>>, !.touched = T]
            /\ walk.touched \subseteq T
            /\ walk.at \in {"read", "select", "count", "feature", "load"} => S \subseteq T
<1> DEFINE T == IF walk.at \in {"idle", "answered", "done", "refused"} THEN walk.touched
                ELSE walk.touched \cup S
<1>1. T \in SUBSET Spots /\ walk.touched \subseteq T
      /\ (walk.at \in {"read", "select", "count", "feature", "load"} => S \subseteq T)
  BY DEF PageTypes
<1>2. Disturb(S) = [walk EXCEPT !.quiet = FALSE, !.seen = <<>>, !.touched = T]
  BY DEF Disturb
<1>3. QED
  BY <1>1, <1>2

LEMMA PageTypesStep ==
  PageTypes /\ [PageNext]_pageVars => PageTypes'
<1> SUFFICES ASSUME PageTypes, [PageNext]_pageVars PROVE PageTypes'
  OBVIOUS
<1>1. <<>> \in Seq(PageRows) /\ NoRows \in UNION {[D -> Dishes] : D \in SUBSET Spots}
  BY DEF NoRows
<1>2. ASSUME NEW ask \in Asks, NEW openNow \in BOOLEAN, Begin(ask, openNow) PROVE PageTypes'
  <2>1. PICK q \in Reading(ask, openNow) :
          walk' = Ask([walk EXCEPT !.query = q, !.cursor = 0, !.seen = <<>>, !.quiet = TRUE])
    BY <1>2 DEF Begin
  <2>2. q \in PageQueries
    BY ReadingTypes
  <2>3. QED
    BY <1>1, <1>2, <2>1, <2>2 DEF Begin, Ask, Asking, PageTypes
<1>3. CASE CountSearch
  <2>1. Cardinality(Matches(walk.query)) \in Nat
    BY MatchesAreRows DEF PageTypes
  <2>2. QED
    BY <1>3, <2>1 DEF CountSearch, PageTypes
<1>4. CASE Select
  <2>1. PICK s \in Sorted(walk.query, Matches(walk.query)) :
          LET rows == Page(s, walk.cursor)
              w == [walk EXCEPT !.rows = rows,
                                !.count = CountWithRows(walk.query, walk.count, rows)] IN
          walk' = [w EXCEPT !.at = After(w)]
    BY <1>4 DEF Select
  <2>2. Page(s, walk.cursor) \in Seq(PageRows) /\ Cardinality(Matches(walk.query)) \in Nat
    BY RowsOfARequest
  <2>3. CountWithRows(walk.query, walk.count, Page(s, walk.cursor)) \in Nat
    <3>1. walk.query \in PageQueries /\ walk.count \in Nat
      BY DEF PageTypes
    <3>2. QED
      BY <2>2, <3>1, Paths DEF CountWithRows
  <2>4. \A w : After(w) \in {"count", "feature", "load"}
    BY DEF After
  <2>5. QED
    BY <1>4, <2>1, <2>2, <2>3, <2>4 DEF Select, PageTypes
<1>5. CASE CountAgain
  <2>1. Cardinality(Matches(walk.query)) \in Nat
    BY MatchesAreRows DEF PageTypes
  <2>2. QED
    BY <1>5, <2>1 DEF CountAgain, PageTypes
<1>6. CASE Feature
  <2> DEFINE D == {r \in Restaurants(walk.rows) : Featurable(r) # {}}
             f == [s \in D |-> First(Featurable(s))]
  <2>1. \A s : Featurable(s) \in SUBSET Dishes
    BY PageAssumptions DEF Featurable, Of, PageTypes
  <2>2. \A s \in D : First(Featurable(s)) \in Featurable(s) /\ First(Featurable(s)) \in Dishes
    BY <2>1, FirstIsOne
  <2>3. D \in SUBSET Spots
    <3>1. \A s \in D : Featurable(s) # {}
      OBVIOUS
    <3>2. \A s, d : d \in Featurable(s) => d[1] = s /\ d \in Dishes
      BY <2>1 DEF Featurable, Of
    <3>3. QED
      BY <3>1, <3>2, PageAssumptions
  <2>4. walk' = [walk EXCEPT !.at = "load", !.featured = f]
    BY <1>6 DEF Feature
  <2>5. f \in [D -> Dishes]
    BY <2>2
  <2> HIDE DEF D, f
  <2>6. f \in UNION {[E -> Dishes] : E \in SUBSET Spots}
    BY <2>3, <2>5, FeaturedTypes
  <2>7. QED
    BY <1>6, <2>4, <2>6 DEF Feature, PageTypes
<1>7. CASE Load
  <2> DEFINE bare == {s \in Restaurants(walk.rows) :
                        s \notin DOMAIN walk.featured /\ Of(s, served) # {}}
             f == [s \in DOMAIN walk.featured \cup bare |->
                      IF s \in bare THEN First(Of(s, served)) ELSE walk.featured[s]]
             seen == IF walk.quiet THEN walk.seen \o walk.rows ELSE <<>>
  <2>1. \A s : Of(s, served) \in SUBSET Dishes
    BY DEF Of, PageTypes
  <2>2. \A s \in bare : First(Of(s, served)) \in Dishes
    BY <2>1, FirstIsOne
  <2>3. bare \in SUBSET Spots
    <3>1. \A s, d : d \in Of(s, served) => d[1] = s /\ d \in Dishes
      BY <2>1 DEF Of
    <3>2. QED
      BY <3>1, PageAssumptions
  <2>4. PICK E \in SUBSET Spots : walk.featured \in [E -> Dishes]
    BY DEF PageTypes
  <2>5. walk' = [walk EXCEPT !.at = "answered", !.featured = f, !.seen = seen]
    BY <1>7 DEF Load
  <2>6. seen \in Seq(PageRows)
    BY <1>1 DEF PageTypes
  <2>7. f \in [E \cup bare -> Dishes]
    BY <2>2, <2>4
  <2> HIDE DEF bare, f, seen
  <2>8. f \in UNION {[D -> Dishes] : D \in SUBSET Spots}
    BY <2>3, <2>7, FeaturedTypes
  <2>9. QED
    BY <1>7, <2>5, <2>6, <2>8 DEF Load, PageTypes
<1>8. CASE Continue
  <2>1. walk.cursor + Len(walk.rows) \in Nat
    BY DEF PageTypes
  <2>2. \/ walk' \in {Asking(walk, "done"), Asking(walk, "refused")}
        \/ \E q \in PageQueries :
              walk' = Ask([walk EXCEPT !.cursor = walk.cursor + Len(walk.rows), !.query = q,
                                       !.quiet = @ /\ q = walk.query,
                                       !.seen = IF q = walk.query THEN @ ELSE <<>>])
    <3>1. Reading(walk.query.ask, walk.query.openNow) \subseteq PageQueries
      <4>1. walk.query.ask \in Asks /\ walk.query.openNow \in BOOLEAN
        BY DEF PageTypes, PageQueries
      <4>2. QED
        BY <4>1, ReadingTypes
    <3>2. QED
      BY <1>8, <3>1 DEF Continue
  <2>3. UNCHANGED <<shown, served>>
    BY <1>8 DEF Continue
  <2>4. ASSUME NEW at \in {"done", "refused"}, walk' = Asking(walk, at) PROVE PageTypes'
    BY <1>1, <2>3, <2>4 DEF Asking, PageTypes
  <2>5. ASSUME NEW q \in PageQueries,
               walk' = Ask([walk EXCEPT !.cursor = walk.cursor + Len(walk.rows), !.query = q,
                                        !.quiet = @ /\ q = walk.query,
                                        !.seen = IF q = walk.query THEN @ ELSE <<>>])
        PROVE  PageTypes'
    <3> DEFINE quiet == walk.quiet /\ q = walk.query
               seen == IF q = walk.query THEN walk.seen ELSE <<>>
    <3>1. quiet \in BOOLEAN /\ seen \in Seq(PageRows)
      BY <1>1 DEF PageTypes
    <3>2. walk' = Ask([walk EXCEPT !.cursor = walk.cursor + Len(walk.rows), !.query = q,
                                   !.quiet = quiet, !.seen = seen])
      BY <2>5 DEF PageTypes
    <3> HIDE DEF quiet, seen
    <3>3. QED
      BY <1>1, <2>1, <2>3, <3>1, <3>2 DEF Ask, Asking, PageTypes
  <2>6. QED
    BY <2>2, <2>4, <2>5
<1>9. ASSUME NEW S \in SUBSET Spots, walk' = Disturb(S),
             shown' \subseteq Spots, served' \subseteq Dishes
      PROVE  PageTypes'
  <2>1. PICK T \in SUBSET Spots :
          Disturb(S) = [walk EXCEPT !.quiet = FALSE, !.seen = <<>>, !.touched = T]
    BY DisturbedWalk
  <2>2. QED
    BY <1>1, <1>9, <2>1 DEF PageTypes
<1>10. ASSUME NEW d \in Dishes, ChangeItem(d) PROVE PageTypes'
  <2>1. {d[1]} \in SUBSET Spots
    BY PageAssumptions
  <2>2. QED
    BY <1>9, <1>10, <2>1 DEF ChangeItem, PageTypes
<1>11. ASSUME NEW s \in Spots, ChangeSpot(s) PROVE PageTypes'
  BY <1>9, <1>11 DEF ChangeSpot, PageTypes
<1>12. ASSUME NEW S \in Openings, ChangeHours(S) PROVE PageTypes'
  <2> DEFINE moved == (S \cup walk.query.open) \ (S \cap walk.query.open)
  <2>1. S \in SUBSET Spots /\ moved \in SUBSET Spots
    BY PageAssumptions DEF PageTypes, PageQueries
  <2>2. walk' = [Disturb(moved) EXCEPT !.query.open = S] /\ UNCHANGED <<shown, served>>
    BY <1>12 DEF ChangeHours
  <2> HIDE DEF moved
  <2>3. [walk.query EXCEPT !.open = S] \in PageQueries
    BY <2>1 DEF PageTypes, PageQueries
  <2>4. PICK T \in SUBSET Spots :
          Disturb(moved) = [walk EXCEPT !.quiet = FALSE, !.seen = <<>>, !.touched = T]
    BY <2>1, DisturbedWalk
  <2>5. walk' = [walk EXCEPT !.quiet = FALSE, !.seen = <<>>, !.touched = T,
                             !.query = [walk.query EXCEPT !.open = S]]
    BY <2>2, <2>4 DEF PageTypes
  <2>6. QED
    BY <1>1, <2>2, <2>3, <2>5 DEF PageTypes
<1>13. CASE UNCHANGED pageVars
  BY <1>13 DEF pageVars, PageTypes
<1>14. QED
  BY <1>2, <1>3, <1>4, <1>5, <1>6, <1>7, <1>8, <1>10, <1>11, <1>12, <1>13 DEF PageNext

\* What a read selects from depends on the rows and the request alone.
LEMMA MatchesStay ==
  ASSUME UNCHANGED <<shown, served>>
  PROVE  \A q : Matches(q)' = Matches(q)
BY DEF Matches

\* A write to one restaurant does not make another one match or cease to.
LEMMA OthersStillMatch ==
  ASSUME PageTypes, NEW q, Path(q) = "filtered", NEW r, NEW open,
         r \in shown <=> r \in shown', r \in q.open <=> r \in open,
         \A d : d[1] = r => (d \in served <=> d \in served'),
         NEW p, p = [q EXCEPT !.open = open], q \in PageQueries,
         NEW row, row[1] = r, row \in Matches(q)
  PROVE  row \in Matches(p)'
<1>1. /\ p.ask = q.ask /\ p.large = q.large /\ p.openNow = q.openNow /\ p.open = open
      /\ Path(p) = "filtered" /\ Fits(p) = Fits(q)
  BY DEF Path, Fits, PageQueries
<1>2. /\ row = <<r, 0>> /\ r \in shown \cap q.open
      /\ q.ask = "filtered" => \E d \in Fits(q) \cap served : d[1] = r
  BY DEF Matches
<1>3. /\ r \in shown' \cap p.open
      /\ p.ask = "filtered" => \E d \in Fits(p) \cap served' : d[1] = r
  BY <1>1, <1>2
<1>4. row \in {s \in shown' \cap p.open :
                  p.ask = "filtered" => \E d \in Fits(p) \cap served' : d[1] = s} \X {0}
  BY <1>2, <1>3
<1>5. QED
  BY <1>1, <1>4 DEF Matches

\* A write while a request is put together.
LEMMA RequestDisturbed ==
  ASSUME PageTypes, RequestInvariant, NEW S \in SUBSET Spots, S # {}, NEW open,
         walk' = [Disturb(S) EXCEPT !.query.open = open],
         \A r : r \notin S => (r \in shown <=> r \in shown')
                              /\ (r \in walk.query.open <=> r \in open),
         \A d : d[1] \notin S => (d \in served <=> d \in served')
  PROVE  RequestInvariant'
<1>q. PICK q, p : q = walk.query /\ p = [q EXCEPT !.open = open]
  OBVIOUS
<1>0. PICK T \in SUBSET Spots :
        /\ Disturb(S) = [walk EXCEPT !.quiet = FALSE, !.seen = <<>>, !.touched = T]
        /\ walk.touched \subseteq T
        /\ walk.at \in {"read", "select", "count", "feature", "load"} => S \subseteq T
  BY DisturbedWalk
<1>1. /\ walk'.at = walk.at /\ walk'.cursor = walk.cursor /\ walk'.rows = walk.rows
      /\ walk'.count = walk.count /\ walk'.featured = walk.featured
      /\ walk'.query = p /\ walk'.touched = T
  BY <1>0, <1>q DEF PageTypes
<1>2. /\ q \in PageQueries /\ p.ask = q.ask /\ Path(p) = Path(q) /\ Fits(p) = Fits(q)
  BY <1>q DEF PageTypes, PageQueries, Path, Fits
<1>3. /\ walk.touched \subseteq walk'.touched
      /\ walk.at \in {"read", "select", "count", "feature", "load"} => S \subseteq walk'.touched
  BY <1>0, <1>1
<1>4. RowsAreCounted => RowsAreCounted'
  BY <1>1, <1>2, <1>3, <1>q DEF RowsAreCounted
<1>5. ASSUME walk.at = "feature", q.ask = "filtered", NEW n \in DOMAIN walk.rows,
             walk.rows[n][1] \notin walk'.touched
      PROVE  walk.rows[n] \in Matches(p)'
  <2>1. walk.rows[n][1] \notin S /\ walk.rows[n][1] \notin walk.touched
    BY <1>3, <1>5
  <2>2. walk.rows[n] \in Matches(q)
    BY <1>5, <1>q, <2>1 DEF RequestInvariant
  <2>3. Path(q) = "filtered"
    BY <1>2, <1>5, Paths
  <2>4. /\ walk.rows[n][1] \in shown <=> walk.rows[n][1] \in shown'
        /\ walk.rows[n][1] \in q.open <=> walk.rows[n][1] \in open
        /\ \A d : d[1] = walk.rows[n][1] => (d \in served <=> d \in served')
    BY <1>q, <2>1
  <2>5. PICK row : row = walk.rows[n]
    OBVIOUS
  <2>6. PICK r : r = row[1]
    OBVIOUS
  <2>7. /\ r \in shown <=> r \in shown'
        /\ r \in q.open <=> r \in open
        /\ \A d : d[1] = r => (d \in served <=> d \in served')
    BY <2>4, <2>5, <2>6
  <2>8. row \in Matches(p)'
    BY <1>2, <1>q, <2>2, <2>3, <2>5, <2>6, <2>7, OthersStillMatch
  <2>9. QED
    BY <2>5, <2>8
<1>6. QED
  <2>1. walk.at = "select" => walk'.touched # {}
    BY <1>3
  <2>2. walk.at = "count" =>
          /\ walk.rows = <<>> /\ walk.cursor > 0 /\ Path(q) \notin {"nearby", "search"}
          /\ walk'.touched # {}
    BY <1>3, <1>q DEF RequestInvariant
  <2>3. Counted => RowsAreCounted
    BY DEF RequestInvariant
  <2>4. walk.at \in {"load", "answered"} /\ q.ask = "filtered" =>
          \A n \in DOMAIN walk.rows :
              walk.rows[n][1] \notin walk'.touched =>
                  /\ walk.rows[n][1] \in DOMAIN walk.featured
                  /\ walk.featured[walk.rows[n][1]] \in Fits(q)
    BY <1>3, <1>q DEF RequestInvariant
  <2>5. Counted' => RowsAreCounted'
    BY <1>1, <1>4, <2>3 DEF Counted
  <2>6. walk'.query = p
    BY <1>1
  <2>7. walk'.at = "feature" /\ walk'.query.ask = "filtered" =>
          \A n \in DOMAIN walk'.rows :
              walk'.rows[n][1] \notin walk'.touched => walk'.rows[n] \in Matches(walk.query)'
    BY <1>1, <1>2, <1>5, <2>6
  <2>8. QED
    BY <1>1, <1>2, <2>1, <2>2, <2>4, <2>5, <2>7 DEF RequestInvariant

LEMMA RequestStep ==
  PageTypes /\ RequestInvariant /\ [PageNext]_pageVars => RequestInvariant'
<1> SUFFICES ASSUME PageTypes, RequestInvariant, [PageNext]_pageVars PROVE RequestInvariant'
  OBVIOUS
<1>1. ASSUME NEW w, NEW at,
             walk' = Asking(w, at), DOMAIN w = DOMAIN walk,
             at \in {"done", "refused", "read", "select"},
             at = "select" => Path(w.query) # "search"
      PROVE  RequestInvariant'
  <2>1. walk'.at = at /\ walk'.query = w.query
    BY <1>1 DEF Asking, PageTypes
  <2>2. QED
    BY <1>1, <2>1 DEF RequestInvariant, Counted
<1>2. ASSUME NEW ask \in Asks, NEW openNow \in BOOLEAN, Begin(ask, openNow)
      PROVE  RequestInvariant'
  <2>1. PICK q \in Reading(ask, openNow) :
          walk' = Ask([walk EXCEPT !.query = q, !.cursor = 0, !.seen = <<>>, !.quiet = TRUE])
    BY <1>2 DEF Begin
  <2> DEFINE w == [walk EXCEPT !.query = q, !.cursor = 0, !.seen = <<>>, !.quiet = TRUE]
  <2>2. DOMAIN w = DOMAIN walk
    OBVIOUS
  <2>3. walk' = Asking(w, IF Path(w.query) = "search" THEN "read" ELSE "select")
    BY <2>1 DEF Ask
  <2> HIDE DEF w
  <2>4. QED
    BY <1>1, <2>2, <2>3
<1>3. CASE CountSearch
  <2>1. /\ walk.at = "read" /\ walk'.at = "select" /\ UNCHANGED <<shown, served>>
        /\ walk'.count = Cardinality(Matches(walk.query)) /\ walk'.query = walk.query
    BY <1>3 DEF CountSearch, PageTypes
  <2>2. Matches(walk.query)' = Matches(walk.query)
    BY <2>1, MatchesStay
  <2>3. QED
    BY <2>1, <2>2 DEF RequestInvariant, Counted
<1>4. CASE Select
  <2>1. PICK s \in Sorted(walk.query, Matches(walk.query)) :
          LET rows == Page(s, walk.cursor)
              w == [walk EXCEPT !.rows = rows,
                                !.count = CountWithRows(walk.query, walk.count, rows)] IN
          walk' = [w EXCEPT !.at = After(w)]
    BY <1>4 DEF Select
  <2> DEFINE rows == Page(s, walk.cursor)
             all == Cardinality(Matches(walk.query))
             path == Path(walk.query)
             w == [walk EXCEPT !.rows = rows, !.count = CountWithRows(walk.query, walk.count, rows)]
  <2>2. /\ rows \in Seq(PageRows) /\ all \in Nat
        /\ \A n \in DOMAIN rows : rows[n] \in Matches(walk.query)
        /\ rows = <<>> <=> all <= walk.cursor
        /\ rows # <<>> => Len(rows) = Min({PageSize, all - walk.cursor})
    BY RowsOfARequest
  <2>3. walk.at = "select" /\ UNCHANGED <<shown, served>> /\ walk.cursor \in Nat
        /\ walk.query \in PageQueries
    BY <1>4 DEF Select, PageTypes
  <2>4. /\ walk'.at = After(w) /\ walk'.rows = rows /\ walk'.query = walk.query
        /\ walk'.cursor = walk.cursor /\ walk'.touched = walk.touched
        /\ walk'.count = CountWithRows(walk.query, walk.count, rows)
        /\ walk'.featured = walk.featured
    BY <2>1 DEF PageTypes
  <2>5. /\ w.rows = rows /\ w.cursor = walk.cursor /\ w.query = walk.query
    BY DEF PageTypes
  <2>6. /\ After(w) = "count" <=>
             rows = <<>> /\ walk.cursor > 0 /\ path \in {"filtered", "large_search"}
        /\ After(w) = "feature" => path = "filtered"
        /\ After(w) = "load" => path # "filtered"
        /\ After(w) \in {"count", "feature", "load"}
    BY <2>5 DEF After
  <2>7. path \in {"nearby", "filtered", "search", "large_search"}
        /\ (walk.query.ask = "filtered" => path = "filtered")
    BY <2>3, Paths
  <2>8. /\ path = "search" => walk'.count = walk.count
        /\ path = "nearby" => walk'.count = all
        /\ path \in {"filtered", "large_search"} =>
              walk'.count = IF rows = <<>> THEN 0 ELSE all
    BY <2>4 DEF CountWithRows
  <2>9. path = "search" /\ walk.touched = {} => walk.count = all
    BY <2>3 DEF RequestInvariant
  <2> HIDE DEF rows, all, w, path
  <2>10. Matches(walk.query)' = Matches(walk.query)
    BY <2>3, <2>4 DEF Matches
  <2>11. CASE After(w) = "count"
    BY <2>2, <2>4, <2>6, <2>10, <2>11 DEF RequestInvariant, Counted, all, path
  <2>12. CASE After(w) # "count"
    <3>1. RowsAreCounted'
      <4>1. CASE path = "search" /\ walk.touched # {}
        BY <2>4, <4>1 DEF RowsAreCounted, path
      <4>2. CASE path = "nearby" \/ (path = "search" /\ walk.touched = {}) \/ rows # <<>>
        <5>1. walk'.count = all \/ (path = "search" /\ walk.touched # {})
          BY <2>7, <2>8, <2>9, <4>2
        <5>2. CASE walk'.count = all
          BY <2>2, <2>4, <5>2 DEF RowsAreCounted
        <5>3. QED
          BY <4>1, <5>1, <5>2
      <4>3. CASE path \in {"filtered", "large_search"} /\ rows = <<>>
        BY <2>3, <2>4, <2>8, <4>3 DEF RowsAreCounted
      <4>4. QED
        BY <2>7, <4>1, <4>2, <4>3
    <3>2. \A n \in DOMAIN rows : rows[n] \in Matches(walk.query)'
      BY <2>2, <2>10
    <3>3. walk'.at = "load" => walk'.query.ask # "filtered"
      BY <2>4, <2>6, <2>7
    <3>4. QED
      BY <2>4, <2>6, <2>12, <3>1, <3>2, <3>3 DEF RequestInvariant, Counted
  <2>13. QED
    BY <2>11, <2>12
<1>5. CASE CountAgain
  <2>1. /\ walk.at = "count" /\ walk.rows = <<>> /\ walk'.rows = <<>>
        /\ walk'.count = Cardinality(Matches(walk.query)) /\ walk'.cursor = walk.cursor
        /\ walk'.touched = walk.touched /\ walk'.query = walk.query
        /\ walk'.at = IF Path(walk.query) = "filtered" THEN "feature" ELSE "load"
    BY <1>5 DEF CountAgain, RequestInvariant, PageTypes
  <2>2. /\ walk.cursor > 0 /\ Path(walk.query) \notin {"nearby", "search"}
        /\ walk.touched = {} => Cardinality(Matches(walk.query)) <= walk.cursor
    BY <2>1 DEF RequestInvariant
  <2>3. RowsAreCounted'
    BY <2>1, <2>2 DEF RowsAreCounted
  <2>4. DOMAIN walk'.rows = {}
    BY <2>1
  <2>5. QED
    BY <2>1, <2>3, <2>4 DEF RequestInvariant, Counted
<1>6. CASE Feature
  <2> DEFINE f == [s \in {r \in Restaurants(walk.rows) : Featurable(r) # {}} |-> First(Featurable(s))]
  <2>1. /\ walk.at = "feature" /\ walk'.at = "load" /\ walk'.featured = f
        /\ walk'.rows = walk.rows /\ walk'.cursor = walk.cursor /\ walk'.count = walk.count
        /\ walk'.touched = walk.touched /\ walk'.query = walk.query
    BY <1>6 DEF Feature, PageTypes
  <2>2. ASSUME walk.query.ask = "filtered", NEW n \in DOMAIN walk.rows,
               walk.rows[n][1] \notin walk.touched
        PROVE  /\ walk.rows[n][1] \in DOMAIN f /\ f[walk.rows[n][1]] \in Fits(walk.query)
    <3>1. walk.rows[n] \in Matches(walk.query) /\ Path(walk.query) = "filtered"
          /\ Fits(walk.query) \subseteq Dishes
      BY <2>1, <2>2, Paths, PageAssumptions DEF RequestInvariant, PageTypes, Fits, PageQueries
    <3>2. /\ walk.rows[n][1] \in shown /\ walk.rows[n][2] = 0
          /\ \E d \in Fits(walk.query) \cap served : d[1] = walk.rows[n][1]
      BY <2>2, <3>1 DEF Matches
    <3>3. walk.rows[n][1] \in Restaurants(walk.rows)
      BY <3>2 DEF Restaurants
    <3>4. Featurable(walk.rows[n][1]) # {} /\ Featurable(walk.rows[n][1]) \in SUBSET Dishes
          /\ Featurable(walk.rows[n][1]) \subseteq Fits(walk.query)
      BY <3>1, <3>2 DEF Featurable, Of
    <3>5. First(Featurable(walk.rows[n][1])) \in Fits(walk.query)
      BY <3>4, FirstIsOne
    <3>6. QED
      BY <3>3, <3>4, <3>5
  <2> HIDE DEF f
  <2>3. RowsAreCounted'
    BY <2>1 DEF RequestInvariant, Counted, RowsAreCounted
  <2>4. Fits(walk.query)' = Fits(walk.query)
    BY <2>1 DEF Fits
  <2>5. QED
    BY <2>1, <2>2, <2>3, <2>4 DEF RequestInvariant, Counted
<1>7. CASE Load
  <2> DEFINE bare == {s \in Restaurants(walk.rows) :
                        s \notin DOMAIN walk.featured /\ Of(s, served) # {}}
             f == [s \in DOMAIN walk.featured \cup bare |->
                      IF s \in bare THEN First(Of(s, served)) ELSE walk.featured[s]]
  <2>1. /\ walk.at = "load" /\ walk'.at = "answered" /\ walk'.featured = f
        /\ walk'.rows = walk.rows /\ walk'.cursor = walk.cursor /\ walk'.count = walk.count
        /\ walk'.touched = walk.touched /\ walk'.query = walk.query
    BY <1>7 DEF Load, PageTypes
  <2>2. \A s \in DOMAIN walk.featured : s \in DOMAIN f /\ f[s] = walk.featured[s]
    OBVIOUS
  <2> HIDE DEF f
  <2>3. RowsAreCounted'
    BY <2>1 DEF RequestInvariant, Counted, RowsAreCounted
  <2>4. Fits(walk.query)' = Fits(walk.query)
    BY <2>1 DEF Fits
  <2>5. QED
    BY <2>1, <2>2, <2>3, <2>4 DEF RequestInvariant, Counted
<1>8. CASE Continue
  <2>1. CASE walk' \in {Asking(walk, "done"), Asking(walk, "refused")}
    BY <1>1, <2>1
  <2>2. CASE walk' \notin {Asking(walk, "done"), Asking(walk, "refused")}
    <3>1. PICK q : walk' = Ask([walk EXCEPT !.cursor = walk.cursor + Len(walk.rows), !.query = q,
                                            !.quiet = @ /\ q = walk.query,
                                            !.seen = IF q = walk.query THEN @ ELSE <<>>])
      BY <1>8, <2>2 DEF Continue
    <3> DEFINE w == [walk EXCEPT !.cursor = walk.cursor + Len(walk.rows), !.query = q,
                                 !.quiet = @ /\ q = walk.query,
                                 !.seen = IF q = walk.query THEN @ ELSE <<>>]
    <3>2. DOMAIN w = DOMAIN walk
      OBVIOUS
    <3>3. walk' = Asking(w, IF Path(w.query) = "search" THEN "read" ELSE "select")
      BY <3>1 DEF Ask
    <3> HIDE DEF w
    <3>4. QED
      BY <1>1, <3>2, <3>3
  <2>3. QED
    BY <2>1, <2>2
<1>9. ASSUME NEW S \in SUBSET Spots, walk' = Disturb(S)
      PROVE  walk' = [Disturb(S) EXCEPT !.query.open = walk.query.open]
  <2>1. PICK T \in SUBSET Spots :
          Disturb(S) = [walk EXCEPT !.quiet = FALSE, !.seen = <<>>, !.touched = T]
    BY DisturbedWalk
  <2>2. [walk.query EXCEPT !.open = walk.query.open] = walk.query
    BY DEF PageTypes, PageQueries
  <2>3. QED
    BY <1>9, <2>1, <2>2 DEF PageTypes
<1>10. ASSUME NEW d \in Dishes, ChangeItem(d) PROVE RequestInvariant'
  <2>1. {d[1]} \in SUBSET Spots /\ {d[1]} # {}
    BY PageAssumptions
  <2>2. walk' = [Disturb({d[1]}) EXCEPT !.query.open = walk.query.open]
    BY <1>9, <1>10, <2>1 DEF ChangeItem
  <2>3. \A e : e[1] \notin {d[1]} => (e \in served <=> e \in served')
    BY <1>10 DEF ChangeItem
  <2>4. shown' = shown
    BY <1>10 DEF ChangeItem
  <2>5. QED
    BY <2>1, <2>2, <2>3, <2>4, RequestDisturbed
<1>11. ASSUME NEW s \in Spots, ChangeSpot(s) PROVE RequestInvariant'
  <2>1. {s} \in SUBSET Spots /\ {s} # {}
    OBVIOUS
  <2>2. walk' = [Disturb({s}) EXCEPT !.query.open = walk.query.open]
    BY <1>9, <1>11, <2>1 DEF ChangeSpot
  <2>3. \A r : r \notin {s} => (r \in shown <=> r \in shown')
    BY <1>11 DEF ChangeSpot
  <2>4. served' = served
    BY <1>11 DEF ChangeSpot
  <2>5. QED
    BY <2>1, <2>2, <2>3, <2>4, RequestDisturbed
<1>12. ASSUME NEW S \in Openings, ChangeHours(S) PROVE RequestInvariant'
  <2> DEFINE moved == (S \cup walk.query.open) \ (S \cap walk.query.open)
  <2>1. moved \in SUBSET Spots /\ moved # {}
    BY <1>12, PageAssumptions DEF ChangeHours, PageTypes, PageQueries
  <2>2. walk' = [Disturb(moved) EXCEPT !.query.open = S] /\ UNCHANGED <<shown, served>>
    BY <1>12 DEF ChangeHours
  <2>3. \A r : r \notin moved => (r \in walk.query.open <=> r \in S)
    OBVIOUS
  <2> HIDE DEF moved
  <2>4. QED
    BY <2>1, <2>2, <2>3, RequestDisturbed
<1>13. CASE UNCHANGED pageVars
  BY <1>13 DEF pageVars, RequestInvariant, Counted, Matches, RowsAreCounted
<1>14. QED
  BY <1>2, <1>3, <1>4, <1>5, <1>6, <1>7, <1>8, <1>10, <1>11, <1>12, <1>13 DEF PageNext

LEMMA PrefixOfSequence ==
  ASSUME NEW S, NEW s \in Seq(S), NEW n \in 0 .. Len(s)
  PROVE  /\ SubSeq(s, 1, n) \in Seq(S) /\ Len(SubSeq(s, 1, n)) = n
         /\ IsPrefix(SubSeq(s, 1, n), s)
         /\ n = 0 => SubSeq(s, 1, n) = <<>>
         /\ n = Len(s) => SubSeq(s, 1, n) = s
<1>1. SubSeq(s, 1, n) \in Seq(S) /\ Len(SubSeq(s, 1, n)) = n
      /\ \A i \in 1 .. n : SubSeq(s, 1, n)[i] = s[i]
  OBVIOUS
<1> DEFINE t == SubSeq(s, 1, n)
<1>2. SubSeq(t, 1, n) \in Seq(S) /\ Len(SubSeq(t, 1, n)) = n
      /\ \A i \in 1 .. n : SubSeq(t, 1, n)[i] = t[i]
  <2> HIDE DEF t
  <2>1. t \in Seq(S) /\ Len(t) = n
    BY <1>1 DEF t
  <2>2. QED
    BY <2>1
<1>3. SubSeq(t, 1, n) = t
  BY <1>1, <1>2
<1>4. IsPrefix(t, s)
  BY <1>1, <1>3 DEF IsPrefix
<1>5. n = 0 => SubSeq(s, 1, n) = <<>>
  BY <1>1
<1>6. n = Len(s) => SubSeq(s, 1, n) = s
  BY <1>1
<1>7. QED
  BY <1>1, <1>4, <1>5, <1>6

LEMMA WalkStep ==
  PageTypes /\ RequestInvariant /\ WalkInvariant /\ [PageNext]_pageVars => WalkInvariant'
<1> SUFFICES ASSUME PageTypes, RequestInvariant, WalkInvariant, [PageNext]_pageVars,
                    walk'.quiet
             PROVE  WalkInvariant'
  BY DEF WalkInvariant
<1>1. ASSUME NEW ask \in Asks, NEW openNow \in BOOLEAN, Begin(ask, openNow)
      PROVE  WalkInvariant'
  <2>1. PICK q \in Reading(ask, openNow) :
          walk' = Ask([walk EXCEPT !.query = q, !.cursor = 0, !.seen = <<>>, !.quiet = TRUE])
    BY <1>1 DEF Begin
  <2>2. /\ walk'.at \in {"read", "select"} /\ walk'.touched = {}
        /\ walk'.cursor = 0 /\ walk'.seen = <<>>
    BY <2>1 DEF Ask, Asking, PageTypes
  <2>3. QED
    BY <2>2 DEF WalkInvariant, Counted
<1>2. ASSUME walk'.query = walk.query, UNCHANGED <<shown, served>>
      PROVE  /\ Matches(walk.query)' = Matches(walk.query) /\ Orders' = Orders
             /\ \A s, o : Page(s, o)' = Page(s, o)
  <2>1. Matches(walk.query)' = Matches(walk.query)
    BY <1>2 DEF Matches
  <2>2. Orders' = Orders
    BY <1>2, <2>1 DEF Orders
  <2>3. QED
    BY <2>1, <2>2
<1>3. CASE CountSearch
  <2>1. /\ walk.at = "read" /\ walk'.at = "select" /\ UNCHANGED <<shown, served>>
        /\ walk'.query = walk.query /\ walk'.cursor = walk.cursor /\ walk'.seen = walk.seen
        /\ walk'.touched = walk.touched /\ walk'.quiet = walk.quiet
    BY <1>3 DEF CountSearch, PageTypes
  <2>2. QED
    BY <1>2, <2>1 DEF WalkInvariant, Counted
<1>4. CASE Select
  <2>1. PICK s \in Sorted(walk.query, Matches(walk.query)) :
          LET rows == Page(s, walk.cursor)
              w == [walk EXCEPT !.rows = rows,
                                !.count = CountWithRows(walk.query, walk.count, rows)] IN
          walk' = [w EXCEPT !.at = After(w)]
    BY <1>4 DEF Select
  <2> DEFINE rows == Page(s, walk.cursor)
             all == Cardinality(Matches(walk.query))
             w == [walk EXCEPT !.rows = rows, !.count = CountWithRows(walk.query, walk.count, rows)]
  <2>2. /\ s \in Seq(PageRows) /\ Len(s) = all /\ all \in Nat /\ rows \in Seq(PageRows)
        /\ rows = <<>> <=> all <= walk.cursor
    BY RowsOfARequest
  <2>3. walk.at = "select" /\ UNCHANGED <<shown, served>> /\ walk.cursor \in Nat
        /\ walk.query \in PageQueries
    BY <1>4 DEF Select, PageTypes
  <2>4. /\ walk'.at = After(w) /\ walk'.rows = rows /\ walk'.query = walk.query
        /\ walk'.cursor = walk.cursor /\ walk'.touched = walk.touched
        /\ walk'.count = CountWithRows(walk.query, walk.count, rows)
        /\ walk'.seen = walk.seen /\ walk'.quiet = walk.quiet
    BY <2>1 DEF PageTypes
  <2>5. /\ w.rows = rows /\ w.cursor = walk.cursor /\ w.query = walk.query
    BY DEF PageTypes
  <2>6. /\ After(w) = "count" <=>
             rows = <<>> /\ walk.cursor > 0 /\ Path(walk.query) \in {"filtered", "large_search"}
        /\ After(w) \in {"count", "feature", "load"}
    BY <2>5 DEF After
  <2> HIDE DEF rows, all, w
  <2>7. walk.quiet /\ walk.touched = {}
    BY <2>3, <2>4 DEF WalkInvariant
  <2>8. s \in Orders
    BY <2>1 DEF Orders
  <2>9. walk.cursor <= Len(s) /\ walk.seen = SubSeq(s, 1, walk.cursor)
    <3>1. CASE walk.cursor = 0 /\ walk.seen = <<>>
      BY <2>2, <3>1, PrefixOfSequence
    <3>2. ASSUME NEW t \in Orders, walk.cursor <= Len(t), walk.seen = SubSeq(t, 1, walk.cursor)
          PROVE  walk.cursor <= Len(s) /\ walk.seen = SubSeq(s, 1, walk.cursor)
      <4>1. s = t
        BY <2>1, <2>3, <3>2, OneOrder DEF Orders
      <4>2. QED
        BY <3>2, <4>1
    <3>3. QED
      BY <2>3, <2>7, <3>1, <3>2 DEF WalkInvariant
  <2>10. After(w) # "count" => walk'.count = all
    <3> SUFFICES ASSUME After(w) # "count" PROVE walk'.count = all
      OBVIOUS
    <3>1. CASE Path(walk.query) = "search"
      BY <2>3, <2>4, <2>7, <3>1 DEF RequestInvariant, CountWithRows, all
    <3>2. CASE Path(walk.query) = "nearby"
      BY <2>4, <3>2 DEF CountWithRows, all
    <3>3. CASE Path(walk.query) \notin {"search", "nearby"}
      <4>1. rows = <<>> => all = 0
        BY <2>2, <2>3, <2>6, <3>3, Paths
      <4>2. QED
        BY <2>4, <3>3, <4>1 DEF CountWithRows, all
    <3>4. QED
      BY <3>1, <3>2, <3>3
  <2>11. Orders' = Orders /\ Matches(walk.query)' = Matches(walk.query)
         /\ rows = Page(s, walk'.cursor)
    BY <1>2, <2>3, <2>4 DEF rows
  <2>12. walk'.cursor <= Len(s) /\ walk'.seen = SubSeq(s, 1, walk'.cursor)
    BY <2>4, <2>9
  <2>13. walk'.at \in {"count", "feature", "load"} /\ walk'.touched = {}
         /\ (walk'.at # "count" => walk'.count = Cardinality(Matches(walk.query)))
    BY <2>4, <2>6, <2>7, <2>10 DEF all
  <2>14. \E r \in Orders' : /\ walk'.cursor <= Len(r) /\ walk'.seen = SubSeq(r, 1, walk'.cursor)
                            /\ walk'.rows = Page(r, walk'.cursor)
    BY <2>4, <2>8, <2>11, <2>12
  <2>15. Cardinality(Matches(walk.query))' = Cardinality(Matches(walk.query))
    BY <2>11
  <2>16. QED
    BY <1>2, <2>4, <2>13, <2>14, <2>15 DEF WalkInvariant, Counted
<1>5. CASE CountAgain
  <2>1. /\ walk.at = "count" /\ walk'.at \in {"feature", "load"} /\ UNCHANGED <<shown, served>>
        /\ walk'.query = walk.query /\ walk'.cursor = walk.cursor /\ walk'.seen = walk.seen
        /\ walk'.rows = walk.rows /\ walk'.count = Cardinality(Matches(walk.query))
        /\ walk'.touched = walk.touched /\ walk'.quiet = walk.quiet
    BY <1>5 DEF CountAgain, PageTypes
  <2>2. Orders' = Orders /\ Cardinality(Matches(walk.query))' = Cardinality(Matches(walk.query))
        /\ \A s, o : Page(s, o)' = Page(s, o)
    BY <1>2, <2>1
  <2>3. QED
    BY <2>1, <2>2 DEF WalkInvariant, Counted
<1>6. CASE Feature
  <2>1. /\ walk.at = "feature" /\ walk'.at = "load" /\ UNCHANGED <<shown, served>>
        /\ walk'.query = walk.query /\ walk'.cursor = walk.cursor /\ walk'.seen = walk.seen
        /\ walk'.rows = walk.rows /\ walk'.count = walk.count
        /\ walk'.touched = walk.touched /\ walk'.quiet = walk.quiet
    BY <1>6 DEF Feature, PageTypes
  <2>2. Orders' = Orders /\ Cardinality(Matches(walk.query))' = Cardinality(Matches(walk.query))
        /\ \A s, o : Page(s, o)' = Page(s, o)
    BY <1>2, <2>1
  <2>3. QED
    BY <2>1, <2>2 DEF WalkInvariant, Counted
<1>7. CASE Load
  <2>1. /\ walk.at = "load" /\ walk'.at = "answered" /\ UNCHANGED <<shown, served>>
        /\ walk'.query = walk.query /\ walk'.cursor = walk.cursor
        /\ walk'.seen = IF walk.quiet THEN walk.seen \o walk.rows ELSE <<>>
        /\ walk'.rows = walk.rows /\ walk'.count = walk.count
        /\ walk'.touched = walk.touched /\ walk'.quiet = walk.quiet /\ walk.cursor \in Nat
    BY <1>7 DEF Load, PageTypes
  <2>2. Orders' = Orders /\ Cardinality(Matches(walk.query))' = Cardinality(Matches(walk.query))
    BY <1>2, <2>1
  <2>3. PICK s \in Orders : /\ walk.cursor <= Len(s) /\ walk.seen = SubSeq(s, 1, walk.cursor)
                            /\ walk.rows = Page(s, walk.cursor)
    BY <2>1 DEF WalkInvariant
  <2>4. s \in Seq(PageRows)
    BY <2>3, RowsOfARequest DEF Orders
  <2>5. /\ walk.cursor + Len(walk.rows) <= Len(s)
        /\ walk.seen \o walk.rows = SubSeq(s, 1, walk.cursor + Len(walk.rows))
    <3> DEFINE p == Page(s, walk.cursor)
    <3>1. /\ walk.cursor + Len(p) <= Len(s)
          /\ SubSeq(s, 1, walk.cursor) \o p = SubSeq(s, 1, walk.cursor + Len(p))
      BY <2>1, <2>3, <2>4, PageOfSequence
    <3> HIDE DEF p
    <3>2. walk.rows = p
      BY <2>3 DEF p
    <3>3. QED
      BY <2>3, <3>1, <3>2
  <2>6. \E r \in Orders' : /\ walk'.cursor + Len(walk'.rows) <= Len(r)
                           /\ walk'.seen = SubSeq(r, 1, walk'.cursor + Len(walk'.rows))
    BY <2>1, <2>2, <2>5
  <2>7. walk'.touched = {} /\ walk'.count = Cardinality(Matches(walk.query))
    BY <2>1 DEF WalkInvariant, Counted
  <2>8. QED
    BY <2>1, <2>2, <2>6, <2>7 DEF WalkInvariant, Counted
<1>8. CASE Continue
  <2> DEFINE next == walk.cursor + Len(walk.rows)
  <2>0. \/ ~HasMore /\ walk' = Asking(walk, "done")
        \/ HasMore /\ ~Acceptable(next) /\ walk' = Asking(walk, "refused")
        \/ HasMore /\ Acceptable(next) /\ walk' = Ask([walk EXCEPT !.cursor = next])
    <3>1. CASE ~HasMore \/ ~Acceptable(next)
      BY <1>8, <3>1 DEF Continue
    <3>2. CASE HasMore /\ Acceptable(next)
      <4>1. PICK q : walk' = Ask([walk EXCEPT !.cursor = next, !.query = q,
                                              !.quiet = @ /\ q = walk.query,
                                              !.seen = IF q = walk.query THEN @ ELSE <<>>])
        BY <1>8, <3>2 DEF Continue
      <4>2. walk'.quiet <=> walk.quiet /\ q = walk.query
        BY <4>1 DEF Ask, Asking, PageTypes
      <4>3. QED
        BY <3>2, <4>1, <4>2 DEF PageTypes
    <3>3. QED
      BY <3>1, <3>2
  <2>1. /\ walk.at = "answered" /\ UNCHANGED <<shown, served>> /\ walk'.query = walk.query
        /\ walk'.seen = walk.seen /\ walk'.quiet = walk.quiet
    BY <1>8, <2>0 DEF Continue, Ask, Asking, PageTypes
  <2>2. PICK s \in Orders : next <= Len(s) /\ walk.seen = SubSeq(s, 1, next)
    BY <2>1 DEF WalkInvariant
  <2>3. s \in Seq(PageRows) /\ Len(s) = Cardinality(Matches(walk.query))
    BY RowsOfARequest DEF Orders
  <2>4. next \in Nat /\ next \in 0 .. Len(s)
    BY <2>2, <2>3 DEF PageTypes
  <2>5. /\ Len(walk.seen) = next /\ IsPrefix(walk.seen, s)
        /\ next = Len(s) => walk.seen = s
    BY <2>2, <2>3, <2>4, PrefixOfSequence
  <2>6. walk.count = Len(s)
    BY <2>1, <2>3 DEF WalkInvariant, Counted
  <2>7. Orders' = Orders
    BY <1>2, <2>1
  <2>8. CASE ~HasMore
    <3>1. walk'.at = "done"
      BY <2>0, <2>8 DEF Asking, PageTypes
    <3>2. next = Len(s)
      BY <2>3, <2>4, <2>6, <2>8 DEF HasMore
    <3>3. walk'.seen \in Orders'
      BY <2>1, <2>2, <2>5, <2>7, <3>2
    <3>4. QED
      BY <3>1, <3>3 DEF WalkInvariant, Counted
  <2>9. CASE HasMore /\ ~Acceptable(next)
    <3>1. walk'.at = "refused"
      BY <2>0, <2>9 DEF Asking, PageTypes
    <3>2. Len(walk'.seen) > MaxOffset
      BY <2>1, <2>4, <2>5, <2>9, PageAssumptions DEF Acceptable
    <3>3. \E r \in Orders' : IsPrefix(walk'.seen, r)
      BY <2>1, <2>2, <2>5, <2>7
    <3>4. QED
      BY <3>1, <3>2, <3>3 DEF WalkInvariant, Counted
  <2>10. CASE HasMore /\ Acceptable(next)
    <3>1. walk'.at \in {"read", "select"} /\ walk'.touched = {} /\ walk'.cursor = next
      BY <2>0, <2>10 DEF Ask, Asking, PageTypes
    <3>2. \E r \in Orders' : walk'.cursor <= Len(r) /\ walk'.seen = SubSeq(r, 1, walk'.cursor)
      BY <2>1, <2>2, <2>7, <3>1
    <3>3. QED
      BY <3>1, <3>2 DEF WalkInvariant, Counted
  <2>11. QED
    BY <2>8, <2>9, <2>10
<1>9. /\ \A d \in Dishes : ~ChangeItem(d)
      /\ \A s \in Spots : ~ChangeSpot(s)
      /\ \A S \in Openings : ~ChangeHours(S)
  BY DEF ChangeItem, ChangeSpot, ChangeHours, Disturb, PageTypes
<1>10. CASE UNCHANGED pageVars
  <2>1. UNCHANGED <<shown, served, walk>>
    BY <1>10 DEF pageVars
  <2>2. Orders' = Orders /\ Cardinality(Matches(walk.query))' = Cardinality(Matches(walk.query))
        /\ \A s, o : Page(s, o)' = Page(s, o)
    BY <1>2, <2>1
  <2>3. QED
    BY <2>1, <2>2 DEF WalkInvariant, Counted
<1>11. QED
  BY <1>1, <1>3, <1>4, <1>5, <1>6, <1>7, <1>8, <1>9, <1>10 DEF PageNext

PagesInvariant == PageTypes /\ RequestInvariant /\ WalkInvariant

LEMMA PagesInvariantHolds == PageSpec => []PagesInvariant
<1>1. PageInit => PagesInvariant
  <2> SUFFICES ASSUME PageInit PROVE PagesInvariant
    OBVIOUS
  <2>1. NoRows \in UNION {[D -> Dishes] : D \in SUBSET Spots} /\ <<>> \in Seq(PageRows)
    BY DEF NoRows
  <2>2. PageTypes
    BY <2>1 DEF PageInit, PageTypes, PageQueries, Asks
  <2>3. RequestInvariant /\ WalkInvariant
    BY DEF PageInit, RequestInvariant, WalkInvariant, Counted
  <2>4. QED
    BY <2>2, <2>3 DEF PagesInvariant
<1>2. PagesInvariant /\ [PageNext]_pageVars => PagesInvariant'
  BY PageTypesStep, RequestStep, WalkStep DEF PagesInvariant
<1>3. QED
  BY <1>1, <1>2, PTL DEF PageSpec

LEMMA PageTypesHold == PageSpec => []PageTypes
<1>1. PagesInvariant => PageTypes
  BY DEF PagesInvariant
<1>2. QED
  BY <1>1, PagesInvariantHolds, PTL

\* Whatever is written while a client reads page after page: the rows of a page are
\* those its count leaves for it wherever one statement reads both, and a restaurant
\* found by a filter is shown with an item that passes it unless it was itself written
\* to while the page was put together (catalog.py:1359, :1388).
THEOREM PagesAreAnsweredWhole == PageSpec => []AnsweredPagesAreWhole
<1>1. PagesInvariant => AnsweredPagesAreWhole
  BY DEF PagesInvariant, RequestInvariant, Counted, AnsweredPagesAreWhole, PagesAreCounted,
     FeaturedItemsFit
<1>2. QED
  BY <1>1, PagesInvariantHolds, PTL

\* A walk in which nothing was written, whose pages found the same restaurants open
\* and the same estimate of the size, has seen every match once, in the one order that
\* the key allows, when there is no more of them; and the first of them, more than
\* MaxOffset, when its cursor is refused (catalog.py:1292, :1348, :1944, utils.py:60).
THEOREM QuietWalksStayExact == PageSpec => []QuietWalksAreExact
<1>1. PagesInvariant => QuietWalksAreExact
  BY DEF PagesInvariant, WalkInvariant, QuietWalksAreExact, Orders
<1>2. QED
  BY <1>1, PagesInvariantHolds, PTL

-----------------------------------------------------------------------------
(* Imports.                                                                 *)

\* The tasks of the import at work, and what becomes of the row of one.
Planned ==
    UNION {IF run.kind = "region" THEN RegionTasks(s) ELSE ManifestTasks(s) : s \in run.source}
Done == Planned \ run.todo

Exists(t) == IF t.what = "spot" THEN t.p \in DOMAIN spots ELSE t.k \in DOMAIN menuItems
RowOf(t) == IF t.what = "spot" THEN spots[t.p] ELSE menuItems[t.k]
Wrote(t) == IF t.what = "spot" THEN t.p \in DOMAIN run.spots ELSE t.k \in DOMAIN run.menus
WriteOf(t) == IF t.what = "spot" THEN run.spots[t.p] ELSE run.menus[t.k]

\* The row of a task is as its source has it.
Applied(t) == Exists(t) /\ ~Differs(RowOf(t), t.to)

\* Restaurants are read before their items, so that a menu that changes is one of
\* a restaurant that is new or whose revision was read.
RestaurantsCome ==
    /\ \A k \in DOMAIN menuItems : k[1] \in DOMAIN spots
    /\ run.new \cap DOMAIN spots = {}
    /\ DOMAIN run.spots \subseteq DOMAIN spots \cup run.new
    /\ \A t \in Done : t.what = "spot" =>
          /\ t.p \in DOMAIN spots \cup run.new
          /\ t.p \in DOMAIN spots => t.p \in DOMAIN run.base
    /\ \A p \in run.changed :
          /\ p \in DOMAIN spots \cup run.new
          /\ p \in DOMAIN spots => p \in DOMAIN run.base
    /\ run.calm => \A p \in DOMAIN run.base : p \in DOMAIN spots /\ run.base[p] = spots[p].revision

\* The row on its turn, between the two statements.
RowIsSeen ==
    run.at = "write" =>
        \A t \in run.todo : OnTurn(t) =>
            /\ run.seen = {} <=> ~Exists(t)
            /\ run.seen \subseteq IF t.what = "spot" THEN SpotRow ELSE ItemRow
            /\ run.calm /\ Exists(t) => run.seen = {RowOf(t)}
            /\ t.what = "spot" /\ Exists(t) => t.p \in DOMAIN run.base

\* What was written is what a task sets; of a row that is there, no more than that.
WritesArePlanned ==
    /\ \A p \in DOMAIN run.spots : \E t \in Done : t.what = "spot" /\ t.p = p
    /\ \A k \in DOMAIN run.menus :
          /\ k[1] \in run.changed
          /\ \E t \in Done : /\ t.what = "item" /\ t.k = k
                             /\ k \in DOMAIN menuItems =>
                                   \A c \in {"price", "available", "at"} :
                                       run.menus[k][c] \subseteq t.to[c]

\* In a region that nobody writes to, a row that was passed over needed no write.
TasksAreDone ==
    run.kind = "region" /\ run.calm =>
        \A t \in Done :
            IF Wrote(t) THEN \A c \in DOMAIN t.to : t.to[c] # {} => WriteOf(t)[c] = t.to[c]
            ELSE Applied(t)

SettledIsApplied == \A c \in settled : \A t \in RegionTasks(c) : Applied(t)

ImportInvariant ==
    /\ ImportTypes
    /\ run.todo \subseteq Planned /\ \A s, u \in run.source : s = u
    /\ RestaurantsCome /\ RowIsSeen /\ WritesArePlanned
    /\ TasksAreDone /\ SettledIsApplied /\ ReimportIsSilent

LEMMA FilledColumns ==
  ASSUME NEW to \in Columns
  PROVE  /\ Filled(to) \in Columns
         /\ \A c \in DOMAIN to : Filled(to)[c] # {} /\ (to[c] # {} => Filled(to)[c] = to[c])
<1>1. DOMAIN to = {"price", "available", "at", "published"}
  BY DEF Columns
<1>2. /\ Filled(to)["price"] = IF to["price"] = {} THEN {{}} ELSE to["price"]
      /\ Filled(to)["available"] = IF to["available"] = {} THEN {TRUE} ELSE to["available"]
      /\ Filled(to)["at"] = IF to["at"] = {} THEN {0} ELSE to["at"]
      /\ Filled(to)["published"] = IF to["published"] = {} THEN {FALSE} ELSE to["published"]
      /\ DOMAIN Filled(to) = {"price", "available", "at", "published"}
  BY <1>1 DEF Filled, Defaults
<1>3. \A c \in DOMAIN to : Filled(to)[c] # {} /\ (to[c] # {} => Filled(to)[c] = to[c])
  BY <1>1, <1>2
<1>4. {{}} \in Option(Option(Nat)) /\ {TRUE} \in Option(BOOLEAN) /\ {0} \in Option(Nat)
      /\ {FALSE} \in Option(BOOLEAN)
  <2>1. \A S : {} \in Option(S) /\ \A v \in S : {v} \in Option(S)
    BY DEF Option
  <2>2. QED
    BY <2>1
<1>5. Filled(to) = [price |-> Filled(to)["price"], available |-> Filled(to)["available"],
                    at |-> Filled(to)["at"], published |-> Filled(to)["published"]]
  <2>1. Filled(to) = [c \in DOMAIN to |-> IF to[c] = {} THEN Defaults[c] ELSE to[c]]
    BY DEF Filled
  <2>2. QED
    BY <1>1, <2>1
<1>6. Filled(to) \in Columns
  BY <1>2, <1>4, <1>5 DEF Columns
<1>7. QED
  BY <1>3, <1>6

LEMMA WrittenColumns ==
  ASSUME NEW to \in Columns, NEW row
  PROVE  /\ Written(row, to) \in Columns
         /\ \A c \in DOMAIN to : Written(row, to)[c] \subseteq to[c]
         /\ run.kind = "region" => Written(row, to) = to
<1>1. CASE run.kind = "region"
  BY <1>1 DEF Written
<1>2. CASE run.kind # "region"
  <2> DEFINE w == Written(row, to)
  <2>1. DOMAIN to = {"price", "available", "at", "published"}
    BY DEF Columns
  <2>2. w = [c \in DOMAIN to |-> IF c \in DOMAIN row /\ to[c] # {row[c]} THEN to[c] ELSE {}]
    BY <1>2 DEF Written
  <2>3. \A c \in DOMAIN to : w[c] = {} \/ w[c] = to[c]
    BY <2>2
  <2>4. w = [price |-> w["price"], available |-> w["available"], at |-> w["at"],
             published |-> w["published"]]
    BY <2>1, <2>2
  <2> HIDE DEF w
  <2>5. \A S : {} \in Option(S)
    BY DEF Option
  <2>6. w["price"] \in Option(Option(Nat)) /\ w["available"] \in Option(BOOLEAN)
        /\ w["at"] \in Option(Nat) /\ w["published"] \in Option(BOOLEAN)
    BY <2>1, <2>3, <2>5 DEF Columns
  <2>7. w \in Columns
    BY <2>4, <2>6 DEF Columns
  <2>8. QED
    BY <1>2, <2>3, <2>7 DEF w
<1>3. QED
  BY <1>1, <1>2

\* A write sets the columns it has and leaves the others.
LEMMA PutColumns ==
  ASSUME NEW w \in Columns
  PROVE  /\ \A row \in SpotRow : Put(row, w) \in SpotRow
         /\ \A row \in ItemRow : Put(row, w) \in ItemRow
         /\ \A row \in SpotRow \cup ItemRow : \A c \in DOMAIN row :
               IF c \in DOMAIN w /\ w[c] # {} THEN Put(row, w)[c] \in w[c]
               ELSE Put(row, w)[c] = row[c]
<1>1. DOMAIN w = {"price", "available", "at", "published"}
  BY DEF Columns
<1>2. ASSUME NEW row \in SpotRow PROVE Put(row, w) \in SpotRow
  <2>1. DOMAIN row = {"published", "revision"} /\ row["published"] \in BOOLEAN /\ row["revision"] \in Nat
    BY DEF SpotRow
  <2>2. Put(row, w)["revision"] = row["revision"]
    BY <1>1, <2>1 DEF Put
  <2>3. Put(row, w)["published"] \in BOOLEAN
    <3>1. w["published"] \subseteq BOOLEAN
      BY DEF Columns, Option
    <3>2. QED
      BY <1>1, <2>1, <3>1 DEF Put
  <2>4. Put(row, w) = [published |-> Put(row, w)["published"], revision |-> Put(row, w)["revision"]]
    <3>1. Put(row, w) = [c \in DOMAIN row |-> IF c \in DOMAIN w /\ w[c] # {}
                                             THEN CHOOSE v \in w[c] : TRUE ELSE row[c]]
      BY DEF Put
    <3>2. QED
      BY <2>1, <3>1
  <2>5. QED
    BY <2>1, <2>2, <2>3, <2>4 DEF SpotRow
<1>3. ASSUME NEW row \in ItemRow PROVE Put(row, w) \in ItemRow
  <2>1. /\ DOMAIN row = {"price", "available", "at"} /\ row["price"] \in Option(Nat)
        /\ row["available"] \in BOOLEAN /\ row["at"] \in Nat
    BY DEF ItemRow
  <2>2. w["price"] \subseteq Option(Nat) /\ w["available"] \subseteq BOOLEAN /\ w["at"] \subseteq Nat
    <3>1. /\ w["price"] \in Option(Option(Nat)) /\ w["available"] \in Option(BOOLEAN)
          /\ w["at"] \in Option(Nat)
      BY DEF Columns
    <3>2. \A S : \A T \in Option(S) : T \subseteq S
      BY DEF Option
    <3>3. QED
      BY <3>1, <3>2
  <2>3. Put(row, w)["price"] \in Option(Nat)
    BY <1>1, <2>1, <2>2 DEF Put
  <2>4. Put(row, w)["available"] \in BOOLEAN
    BY <1>1, <2>1, <2>2 DEF Put
  <2>5. Put(row, w)["at"] \in Nat
    BY <1>1, <2>1, <2>2 DEF Put
  <2>6. Put(row, w) = [price |-> Put(row, w)["price"], available |-> Put(row, w)["available"],
                       at |-> Put(row, w)["at"]]
    <3>1. Put(row, w) = [c \in DOMAIN row |-> IF c \in DOMAIN w /\ w[c] # {}
                                             THEN CHOOSE v \in w[c] : TRUE ELSE row[c]]
      BY DEF Put
    <3>2. QED
      BY <2>1, <3>1
  <2>7. QED
    BY <2>3, <2>4, <2>5, <2>6 DEF ItemRow
<1>4. ASSUME NEW row \in SpotRow \cup ItemRow, NEW c \in DOMAIN row
      PROVE  IF c \in DOMAIN w /\ w[c] # {} THEN Put(row, w)[c] \in w[c]
             ELSE Put(row, w)[c] = row[c]
  BY DEF Put
<1>5. QED
  BY <1>2, <1>3, <1>4

LEMMA ListsAreSequences ==
  ASSUME NEW c \in Crawls, NEW p \in c.places
  PROVE  /\ Chosen(c, p) \in Seq(SourceRow) /\ p \in Kakao
         /\ \A n \in Selected(Chosen(c, p)) :
               n \in DOMAIN Chosen(c, p) /\ n \in Nat /\ Chosen(c, p)[n].product \in Products
               /\ Chosen(c, p)[n] \in SourceRow
<1>1. p \in Kakao /\ c.lists[p] \in [menus : Seq(SourceRow), yogiyo : Seq(SourceRow)]
  BY ImportAssumptions
<1>2. Chosen(c, p) \in Seq(SourceRow)
  BY <1>1 DEF Chosen
<1>3. QED
  BY <1>1, <1>2 DEF Selected

\* The columns of an item of a region.
ItemColumns(row, n) ==
    [price |-> {NormalPrice(row.price)}, available |-> {~row.soldout}, at |-> {n},
     published |-> {}]

LEMMA ItemColumnsAreColumns ==
  ASSUME NEW row \in SourceRow, NEW n \in Nat
  PROVE  ItemColumns(row, n) \in Columns
<1>1. row.price \in Int /\ row.soldout \in BOOLEAN
  BY DEF SourceRow
<1>2. NormalPrice(row.price) \in Option(Nat)
  BY <1>1 DEF NormalPrice, Option
<1>3. {NormalPrice(row.price)} \in Option(Option(Nat))
  BY <1>2 DEF Option
<1>4. {~row.soldout} \in Option(BOOLEAN)
  BY DEF Option
<1>5. {n} \in Option(Nat) /\ {} \in Option(BOOLEAN)
  BY DEF Option
<1>6. QED
  BY <1>3, <1>4, <1>5 DEF ItemColumns, Columns

\* What a task of a region is, and that two of them are of two rows.
LEMMA RegionTaskIs ==
  ASSUME NEW c \in Crawls, NEW t \in RegionTasks(c)
  PROVE  \/ \E p \in c.places : t = SpotTask(p, [Unset EXCEPT !.published = {TRUE}], <<0, p, 0>>)
         \/ \E p \in c.places : \E n \in Selected(Chosen(c, p)) :
               t = ItemTask(p, Chosen(c, p)[n].product, ItemColumns(Chosen(c, p)[n], n), <<1, p, n>>)
BY DEF RegionTasks, ItemColumns

LEMMA ItemTaskInRegion ==
  ASSUME NEW c, NEW p \in c.places, NEW n \in Selected(Chosen(c, p))
  PROVE  ItemTask(p, Chosen(c, p)[n].product, ItemColumns(Chosen(c, p)[n], n), <<1, p, n>>)
            \in RegionTasks(c)
<1> DEFINE OfPlace(q) ==
             {ItemTask(q, Chosen(c, q)[m].product,
                       [price |-> {NormalPrice(Chosen(c, q)[m].price)},
                        available |-> {~Chosen(c, q)[m].soldout}, at |-> {m}, published |-> {}],
                       <<1, q, m>>) : m \in Selected(Chosen(c, q))}
<1>1. ItemTask(p, Chosen(c, p)[n].product, ItemColumns(Chosen(c, p)[n], n), <<1, p, n>>)
         \in OfPlace(p)
  BY DEF ItemColumns
<1>2. OfPlace(p) \subseteq RegionTasks(c)
  BY DEF RegionTasks
<1>3. QED
  BY <1>1, <1>2

LEMMA UnsetColumns ==
  ASSUME NEW b \in Option(BOOLEAN)
  PROVE  /\ [Unset EXCEPT !.published = b] \in Columns
         /\ [Unset EXCEPT !.published = b] =
               [price |-> {}, available |-> {}, at |-> {}, published |-> b]
<1>1. [Unset EXCEPT !.published = b] = [price |-> {}, available |-> {}, at |-> {}, published |-> b]
  BY DEF Unset
<1>2. \A S : {} \in Option(S)
  BY DEF Option
<1>3. QED
  BY <1>1, <1>2 DEF Columns

LEMMA SpotTaskIsTask ==
  ASSUME NEW p \in Kakao, NEW to \in Columns, NEW a \in Nat, NEW b \in Nat
  PROVE  SpotTask(p, to, <<a, b, 0>>) \in Tasks
BY ImportAssumptions DEF SpotTask, Tasks

LEMMA ItemTaskIsTask ==
  ASSUME NEW p \in Kakao, NEW i \in Products, NEW to \in Columns,
         NEW a \in Nat, NEW b \in Nat, NEW e \in Nat
  PROVE  ItemTask(p, i, to, <<a, b, e>>) \in Tasks
BY ImportAssumptions DEF ItemTask, Tasks

\* The tasks of a source, each item after its restaurant.
Sourced(t) ==
    /\ t \in Tasks
    /\ t.what = "item" => t.k \in ItemKeys /\ t.k[1] = t.p

LEMMA RegionTasksAreTasks ==
  ASSUME NEW c \in Crawls, NEW t \in RegionTasks(c)
  PROVE  /\ Sourced(t)
         /\ t.what = "item" => /\ \E u \in RegionTasks(c) : /\ u.what = "spot" /\ u.p = t.p
                                                         /\ ~Earlier(t.turn, u.turn)
                               /\ t.p \in c.places
                               /\ \E n \in DOMAIN Chosen(c, t.p) : Chosen(c, t.p)[n].product = t.k[2]
<1>1. {TRUE} \in Option(BOOLEAN)
  BY DEF Option
<1> DEFINE yes == [Unset EXCEPT !.published = {TRUE}]
<1>2. yes \in Columns
  BY <1>1, UnsetColumns
<1>3. \A p \in c.places : SpotTask(p, yes, <<0, p, 0>>) \in RegionTasks(c)
  BY DEF RegionTasks
<1> HIDE DEF yes
<1>4. ASSUME NEW p \in c.places, t = SpotTask(p, yes, <<0, p, 0>>)
      PROVE  Sourced(t) /\ t.what = "spot"
  <2>1. p \in Kakao /\ p \in Nat
    BY ListsAreSequences, ImportAssumptions
  <2>2. t \in Tasks
    BY <1>2, <1>4, <2>1, SpotTaskIsTask
  <2>3. t.what = "spot"
    BY <1>4 DEF SpotTask
  <2>4. QED
    BY <2>2, <2>3 DEF Sourced
<1>5. ASSUME NEW p \in c.places, NEW n \in Selected(Chosen(c, p)),
             t = ItemTask(p, Chosen(c, p)[n].product, ItemColumns(Chosen(c, p)[n], n), <<1, p, n>>)
      PROVE  /\ Sourced(t) /\ t.p = p
             /\ \E u \in RegionTasks(c) : u.what = "spot" /\ u.p = t.p /\ ~Earlier(t.turn, u.turn)
             /\ \E m \in DOMAIN Chosen(c, t.p) : Chosen(c, t.p)[m].product = t.k[2]
  <2>1. /\ p \in Kakao /\ p \in Nat /\ n \in DOMAIN Chosen(c, p) /\ n \in Nat
        /\ Chosen(c, p)[n].product \in Products /\ Chosen(c, p)[n] \in SourceRow
    BY ListsAreSequences, ImportAssumptions
  <2>2. ItemColumns(Chosen(c, p)[n], n) \in Columns
    BY <2>1, ItemColumnsAreColumns
  <2>3. t \in Tasks
    BY <1>5, <2>1, <2>2, ItemTaskIsTask
  <2>4. t.p = p /\ t.k = <<p, Chosen(c, p)[n].product>> /\ t.turn = <<1, p, n>>
    BY <1>5 DEF ItemTask
  <2>5. t.k \in ItemKeys /\ t.k[1] = t.p /\ t.k[2] = Chosen(c, p)[n].product
    BY <2>1, <2>4 DEF ItemKeys
  <2> DEFINE u == SpotTask(p, yes, <<0, p, 0>>)
  <2>6. u.what = "spot" /\ u.p = t.p /\ u.turn = <<0, p, 0>>
    BY <2>4 DEF SpotTask
  <2>7. ~Earlier(t.turn, u.turn)
    BY <2>1, <2>4, <2>6 DEF Earlier
  <2>8. u \in RegionTasks(c)
    BY <1>3
  <2> HIDE DEF u
  <2>9. QED
    BY <2>1, <2>3, <2>4, <2>5, <2>6, <2>7, <2>8 DEF Sourced
<1>6. QED
  BY <1>4, <1>5, RegionTaskIs DEF yes

LEMMA RegionTasksDiffer ==
  ASSUME NEW c \in Crawls, NEW t \in RegionTasks(c), NEW u \in RegionTasks(c), t.what = u.what,
         IF t.what = "spot" THEN t.p = u.p ELSE t.k = u.k
  PROVE  t = u
<1> DEFINE yes == [Unset EXCEPT !.published = {TRUE}]
<1>1. /\ \A p, to, turn : (SpotTask(p, to, turn)).what = "spot"
      /\ \A p, i, to, turn : (ItemTask(p, i, to, turn)).what = "item"
  BY DEF SpotTask, ItemTask
<1>2. "spot" # "item"
  OBVIOUS
<1>3. \/ \E p \in c.places : u = SpotTask(p, yes, <<0, p, 0>>)
      \/ \E p \in c.places : \E n \in Selected(Chosen(c, p)) :
            u = ItemTask(p, Chosen(c, p)[n].product, ItemColumns(Chosen(c, p)[n], n), <<1, p, n>>)
  BY RegionTaskIs
<1> HIDE DEF yes
<1>4. ASSUME NEW p \in c.places, t = SpotTask(p, yes, <<0, p, 0>>) PROVE t = u
  <2>1. t.what = "spot" /\ t.p = p
    BY <1>4 DEF SpotTask
  <2>2. PICK q \in c.places : u = SpotTask(q, yes, <<0, q, 0>>)
    BY <1>1, <1>2, <1>3, <2>1
  <2>3. u.p = q
    BY <2>2 DEF SpotTask
  <2>4. QED
    BY <1>4, <2>1, <2>2, <2>3
<1>5. ASSUME NEW p \in c.places, NEW n \in Selected(Chosen(c, p)),
             t = ItemTask(p, Chosen(c, p)[n].product, ItemColumns(Chosen(c, p)[n], n), <<1, p, n>>)
      PROVE  t = u
  <2>1. t.what = "item" /\ t.k = <<p, Chosen(c, p)[n].product>>
    BY <1>5 DEF ItemTask
  <2>2. PICK q \in c.places : \E m \in Selected(Chosen(c, q)) :
           u = ItemTask(q, Chosen(c, q)[m].product, ItemColumns(Chosen(c, q)[m], m), <<1, q, m>>)
    BY <1>1, <1>2, <1>3, <2>1
  <2>3. PICK m \in Selected(Chosen(c, q)) :
           u = ItemTask(q, Chosen(c, q)[m].product, ItemColumns(Chosen(c, q)[m], m), <<1, q, m>>)
    BY <2>2
  <2>4. u.k = <<q, Chosen(c, q)[m].product>>
    BY <2>3 DEF ItemTask
  <2>5. p = q /\ Chosen(c, p)[n].product = Chosen(c, p)[m].product
    BY <2>1, <2>4
  <2>6. n \in Nat /\ m \in Nat /\ n \in Selected(Chosen(c, p)) /\ m \in Selected(Chosen(c, p))
        /\ n >= 1 /\ m >= 1
    BY <2>5, ListsAreSequences
  <2>7. n = m
    BY <2>5, <2>6 DEF Selected
  <2>8. QED
    BY <1>5, <2>3, <2>5, <2>7
<1>6. QED
  BY <1>4, <1>5, RegionTaskIs DEF yes

LEMMA ManifestTasksAreTasks ==
  ASSUME NEW m \in Manifests, NEW t \in ManifestTasks(m)
  PROVE  /\ Sourced(t)
         /\ t.what = "item" => /\ \E u \in ManifestTasks(m) : /\ u.what = "spot" /\ u.p = t.p
                                                           /\ ~Earlier(t.turn, u.turn)
                               /\ t.k[1] \in DOMAIN m.restaurants
                               /\ t.k[2] \in DOMAIN m.restaurants[t.k[1]].items
                               /\ t.to = m.restaurants[t.k[1]].items[t.k[2]]
<1> DEFINE rows == m.restaurants
           spot(p) == SpotTask(p, [Unset EXCEPT !.published = rows[p].published], <<p, 0, 0>>)
<1>1. \A p \in DOMAIN rows : spot(p) \in ManifestTasks(m)
  BY DEF ManifestTasks
<1>2. \/ \E p \in DOMAIN rows : t = spot(p)
      \/ \E p \in DOMAIN rows : \E i \in DOMAIN rows[p].items :
            t = ItemTask(p, i, rows[p].items[i], <<p, 1, i>>)
  BY DEF ManifestTasks
<1>3. \A p \in DOMAIN rows : p \in Kakao /\ p \in Nat
  BY ImportAssumptions
<1>4. \A p \in DOMAIN rows : rows[p].published \in Option(BOOLEAN)
  BY ImportAssumptions
<1>5. \A p \in DOMAIN rows : \A i \in DOMAIN rows[p].items :
         i \in Products /\ i \in Nat /\ rows[p].items[i] \in Columns
  BY ImportAssumptions DEF Maps
<1> HIDE DEF rows
<1>6. ASSUME NEW p \in DOMAIN rows, t = spot(p)
      PROVE  Sourced(t) /\ t.what = "spot"
  <2>1. t \in Tasks
    BY <1>3, <1>4, <1>6, SpotTaskIsTask, UnsetColumns
  <2>2. t.what = "spot"
    BY <1>6 DEF SpotTask
  <2>3. QED
    BY <2>1, <2>2 DEF Sourced
<1>7. ASSUME NEW p \in DOMAIN rows, NEW i \in DOMAIN rows[p].items,
             t = ItemTask(p, i, rows[p].items[i], <<p, 1, i>>)
      PROVE  /\ Sourced(t)
             /\ \E u \in ManifestTasks(m) : u.what = "spot" /\ u.p = t.p /\ ~Earlier(t.turn, u.turn)
             /\ t.k[1] \in DOMAIN rows /\ t.k[2] \in DOMAIN rows[t.k[1]].items
             /\ t.to = rows[t.k[1]].items[t.k[2]]
  <2>1. t \in Tasks
    BY <1>3, <1>5, <1>7, ItemTaskIsTask
  <2>2. t.p = p /\ t.k = <<p, i>> /\ t.turn = <<p, 1, i>> /\ t.to = rows[p].items[i]
    BY <1>7 DEF ItemTask
  <2>3. t.k \in ItemKeys /\ t.k[1] = p /\ t.k[2] = i
    BY <1>3, <1>5, <2>2 DEF ItemKeys
  <2>4. (spot(p)).what = "spot" /\ (spot(p)).p = p /\ (spot(p)).turn = <<p, 0, 0>>
    BY DEF SpotTask
  <2>5. ~Earlier(t.turn, (spot(p)).turn)
    BY <1>3, <1>5, <2>2, <2>4 DEF Earlier
  <2>6. QED
    BY <1>1, <2>1, <2>2, <2>3, <2>4, <2>5 DEF Sourced
<1>8. QED
  BY <1>2, <1>6, <1>7 DEF rows

LEMMA MapsWith ==
  ASSUME NEW f, NEW D, NEW S, Maps(f, D, S), NEW key \in D, NEW v \in S
  PROVE  /\ Maps(With(f, key, v), D, S)
         /\ DOMAIN With(f, key, v) = DOMAIN f \cup {key}
         /\ With(f, key, v)[key] = v
         /\ \A y \in DOMAIN f : y # key => With(f, key, v)[y] = f[y]
BY DEF Maps, With

LEMMA EmptyMaps == \A D, S : Maps(Empty, D, S) /\ DOMAIN Empty = {}
BY DEF Maps, Empty

LEMMA OnTurnIsOne ==
  ASSUME run.todo \subseteq Tasks, NEW t \in run.todo, NEW u \in run.todo, OnTurn(t), OnTurn(u)
  PROVE  t = u
<1> SUFFICES ASSUME t # u PROVE FALSE
  OBVIOUS
<1>1. Earlier(t.turn, u.turn) /\ Earlier(u.turn, t.turn)
  BY DEF OnTurn
<1>2. t.turn \in Nat \X Nat \X Nat /\ u.turn \in Nat \X Nat \X Nat
  BY DEF Tasks
<1>3. /\ t.turn[1] \in Nat /\ t.turn[2] \in Nat /\ t.turn[3] \in Nat
      /\ u.turn[1] \in Nat /\ u.turn[2] \in Nat /\ u.turn[3] \in Nat
  BY <1>2
<1>4. QED
  BY <1>1, <1>3 DEF Earlier

LEMMA PlannedTasks ==
  ASSUME ImportTypes, NEW t \in Planned
  PROVE  /\ Sourced(t)
         /\ t.what = "item" => \E u \in Planned : /\ u.what = "spot" /\ u.p = t.p
                                                  /\ ~Earlier(t.turn, u.turn)
<1>1. CASE run.kind = "region"
  <2>1. PICK s \in run.source : t \in RegionTasks(s)
    BY <1>1 DEF Planned
  <2>2. s \in Crawls /\ RegionTasks(s) \subseteq Planned
    BY <1>1 DEF ImportTypes, Planned
  <2>3. QED
    BY <2>1, <2>2, RegionTasksAreTasks
<1>2. CASE run.kind # "region"
  <2>1. PICK s \in run.source : t \in ManifestTasks(s)
    BY <1>2 DEF Planned
  <2>2. s \in Manifests /\ ManifestTasks(s) \subseteq Planned
    BY <1>2 DEF ImportTypes, Planned
  <2>3. QED
    BY <2>1, <2>2, ManifestTasksAreTasks
<1>3. QED
  BY <1>1, <1>2

\* The restaurant of the item whose turn it is was upserted before.
LEMMA RestaurantWasDone ==
  ASSUME ImportTypes, RestaurantsCome, NEW t \in Planned, t.what = "item", OnTurn(t)
  PROVE  /\ t.p \in DOMAIN spots \cup run.new
         /\ t.p \in DOMAIN spots => t.p \in DOMAIN run.base
<1>1. PICK u \in Planned : u.what = "spot" /\ u.p = t.p /\ ~Earlier(t.turn, u.turn)
  BY PlannedTasks
<1>2. u # t
  BY <1>1
<1>3. u \notin run.todo
  BY <1>1, <1>2 DEF OnTurn
<1>4. QED
  BY <1>1, <1>3 DEF RestaurantsCome, Done

\* A run is a record of these fields.
LEMMA RunFields ==
  ImportTypes => DOMAIN run = {"at", "kind", "source", "apply", "todo", "seen", "spots", "menus",
                               "changed", "new", "base", "calm"}
BY DEF ImportTypes, NoRun

\* The rows, without the importer at work.
Database ==
    /\ Maps(spots, Kakao, SpotRow) /\ Maps(menuItems, ItemKeys, ItemRow)
    /\ owner \in Option([k : ItemKeys, row : ItemRow, revision : Nat])
    /\ settled \in Option(Crawls)
    /\ \A k \in DOMAIN menuItems : k[1] \in DOMAIN spots
    /\ SettledIsApplied

\* An importer that has read nothing.
Fresh ==
    /\ run = [NoRun EXCEPT !.at = run.at, !.kind = run.kind, !.source = run.source,
                           !.todo = run.todo, !.apply = run.apply]
    /\ run.at \in {"idle", "read"} /\ run.kind \in {"region", "manifest"} /\ run.apply \in BOOLEAN
    /\ run.source \subseteq IF run.kind = "region" THEN Crawls ELSE Manifests
    /\ \A s, u \in run.source : s = u
    /\ run.todo = Planned

LEMMA FreshIsSound == Database /\ Fresh => ImportInvariant
<1> SUFFICES ASSUME Database, Fresh PROVE ImportInvariant
  OBVIOUS
<1>1. /\ DOMAIN run = DOMAIN NoRun /\ run.seen = {} /\ run.spots = Empty /\ run.menus = Empty
      /\ run.changed = {} /\ run.new = {} /\ run.base = Empty /\ run.calm = TRUE
  BY DEF Fresh, NoRun
<1>2. Planned \subseteq Tasks
  <2> SUFFICES ASSUME NEW t \in Planned PROVE t \in Tasks
    OBVIOUS
  <2>1. PICK s \in run.source :
          t \in IF run.kind = "region" THEN RegionTasks(s) ELSE ManifestTasks(s)
    BY DEF Planned
  <2>2. CASE run.kind = "region"
    <3>1. s \in Crawls /\ t \in RegionTasks(s)
      BY <2>1, <2>2 DEF Fresh
    <3>2. QED
      BY <3>1, RegionTasksAreTasks DEF Sourced
  <2>3. CASE run.kind # "region"
    <3>1. s \in Manifests /\ t \in ManifestTasks(s)
      BY <2>1, <2>3 DEF Fresh
    <3>2. QED
      BY <3>1, ManifestTasksAreTasks DEF Sourced
  <2>4. QED
    BY <2>2, <2>3
<1>3. {} \in Option(SpotRow \cup ItemRow)
  BY DEF Option
<1>4. ImportTypes
  <2>1. /\ Maps(run.spots, Kakao, Columns) /\ Maps(run.menus, ItemKeys, Columns)
        /\ Maps(run.base, Kakao, Nat)
    BY <1>1, EmptyMaps
  <2>2. /\ run.at \in {"idle", "read", "write"} /\ run.kind \in {"region", "manifest"}
        /\ run.source \subseteq IF run.kind = "region" THEN Crawls ELSE Manifests
        /\ run.apply \in BOOLEAN /\ run.calm \in BOOLEAN /\ run.todo \subseteq Tasks
        /\ run.changed \subseteq Kakao /\ run.new \subseteq Kakao
    BY <1>1, <1>2 DEF Fresh
  <2>3. QED
    BY <1>1, <1>3, <2>1, <2>2 DEF Database, ImportTypes
<1>5. Done = {}
  BY DEF Fresh, Done
<1>6. RestaurantsCome /\ RowIsSeen /\ WritesArePlanned
  BY <1>1, <1>5, EmptyMaps DEF Fresh, Database, RestaurantsCome, RowIsSeen, WritesArePlanned
<1>7. TasksAreDone /\ ReimportIsSilent
  BY <1>1, <1>5 DEF TasksAreDone, ReimportIsSilent
<1>8. QED
  BY <1>4, <1>6, <1>7 DEF ImportInvariant, Database, Fresh

LEMMA ImportStarts == ImportInit => ImportInvariant
<1> SUFFICES ASSUME ImportInit PROVE ImportInvariant
  OBVIOUS
<1>1. \A S : {} \in Option(S)
  BY DEF Option
<1>2. Database
  BY <1>1, EmptyMaps DEF ImportInit, Database, SettledIsApplied
<1>3. /\ run.at = "idle" /\ run.kind = "region" /\ run.source = {} /\ run.todo = {}
      /\ run.apply = FALSE
  BY DEF ImportInit, NoRun
<1>4. run = [NoRun EXCEPT !.at = run.at, !.kind = run.kind, !.source = run.source,
                          !.todo = run.todo, !.apply = run.apply]
  BY <1>3 DEF ImportInit, NoRun
<1>5. Fresh
  BY <1>3, <1>4 DEF Fresh, Planned
<1>6. QED
  BY <1>2, <1>5, FreshIsSound

LEMMA FreshIsSoundNext == Database' /\ Fresh' => ImportInvariant'
BY FreshIsSound, PTL

LEMMA DatabaseStays ==
  ASSUME ImportInvariant, UNCHANGED <<spots, menuItems, owner, settled>>
  PROVE  Database'
<1>1. Database
  BY DEF ImportInvariant, ImportTypes, RestaurantsCome, Database
<1>2. SettledIsApplied' = SettledIsApplied
  BY DEF SettledIsApplied, Applied, Exists, RowOf
<1>3. QED
  BY <1>1, <1>2 DEF Database

LEMMA BeginKeeps ==
  ASSUME ImportInvariant, NEW kind \in {"region", "manifest"}, NEW source, NEW tasks,
         NEW apply \in BOOLEAN,
         IF kind = "region" THEN source \in Crawls /\ tasks = RegionTasks(source)
         ELSE source \in Manifests /\ tasks = ManifestTasks(source),
         BeginImport(kind, source, tasks, apply)
  PROVE  ImportInvariant'
<1>1. Database'
  BY DatabaseStays DEF BeginImport
<1>2. run' = [NoRun EXCEPT !.at = "read", !.kind = kind, !.source = {source}, !.todo = tasks,
                           !.apply = apply]
  BY DEF BeginImport
<1>3. /\ run'.at = "read" /\ run'.kind = kind /\ run'.source = {source} /\ run'.todo = tasks
      /\ run'.apply = apply
  BY <1>2 DEF NoRun
<1>4. run' = [NoRun EXCEPT !.at = run'.at, !.kind = run'.kind, !.source = run'.source,
                           !.todo = run'.todo, !.apply = run'.apply]
  BY <1>2, <1>3
<1>5. Planned' = tasks
  BY <1>3 DEF Planned
<1>6. Fresh'
  BY <1>3, <1>4, <1>5 DEF Fresh
<1>7. QED
  BY <1>1, <1>6, FreshIsSoundNext

LEMMA EndIsFresh ==
  ASSUME run' = NoRun
  PROVE  Fresh'
<1>1. /\ run'.at = "idle" /\ run'.kind = "region" /\ run'.source = {} /\ run'.todo = {}
      /\ run'.apply = FALSE
  BY DEF NoRun
<1>2. run' = [NoRun EXCEPT !.at = run'.at, !.kind = run'.kind, !.source = run'.source,
                           !.todo = run'.todo, !.apply = run'.apply]
  BY <1>1 DEF NoRun
<1>3. Planned' = {}
  BY <1>1 DEF Planned
<1>4. QED
  BY <1>1, <1>2, <1>3 DEF Fresh

LEMMA FailKeeps == ImportInvariant /\ Fail => ImportInvariant'
<1> SUFFICES ASSUME ImportInvariant, Fail PROVE ImportInvariant'
  OBVIOUS
<1>1. Database'
  BY DatabaseStays DEF Fail
<1>2. Fresh'
  BY EndIsFresh DEF Fail
<1>3. QED
  BY <1>1, <1>2, FreshIsSoundNext

\* What an owner or a moderator leaves of what the importer knows.
LEMMA DisturbedKeeps ==
  ASSUME ImportInvariant, Disturbed, settled' = {},
         DOMAIN spots' = DOMAIN spots, DOMAIN menuItems' = DOMAIN menuItems,
         Maps(spots', Kakao, SpotRow), Maps(menuItems', ItemKeys, ItemRow),
         owner' \in Option([k : ItemKeys, row : ItemRow, revision : Nat])
  PROVE  ImportInvariant'
<1>1. /\ DOMAIN run' = DOMAIN run /\ run'.calm = FALSE /\ run'.at = run.at /\ run'.kind = run.kind
      /\ run'.source = run.source /\ run'.apply = run.apply /\ run'.todo = run.todo
      /\ run'.seen = run.seen /\ run'.spots = run.spots /\ run'.menus = run.menus
      /\ run'.changed = run.changed /\ run'.new = run.new /\ run'.base = run.base
  <2>1. ImportTypes
    BY DEF ImportInvariant
  <2>2. QED
    BY <2>1, RunFields DEF Disturbed
<1>2. Planned' = Planned /\ Done' = Done
  BY <1>1 DEF Planned, Done
<1>3. \A t : Exists(t)' <=> Exists(t)
  BY DEF Exists
<1>4. ImportTypes'
  <2>1. {} \in Option(Crawls)
    BY DEF Option
  <2>2. QED
    BY <1>1, <2>1 DEF ImportInvariant, ImportTypes, NoRun
<1>5. RestaurantsCome'
  BY <1>1, <1>2 DEF ImportInvariant, RestaurantsCome
<1>6. RowIsSeen'
  <2>1. \A t : OnTurn(t)' <=> OnTurn(t)
    BY <1>1 DEF OnTurn
  <2>2. QED
    BY <1>1, <1>3, <2>1 DEF ImportInvariant, RowIsSeen
<1>7. WritesArePlanned'
  BY <1>1, <1>2 DEF ImportInvariant, WritesArePlanned
<1>8. TasksAreDone' /\ SettledIsApplied' /\ ReimportIsSilent'
  BY <1>1 DEF TasksAreDone, SettledIsApplied, ReimportIsSilent
<1>9. (run.todo \subseteq Planned)' /\ (\A s, u \in run.source : s = u)'
  BY <1>1, <1>2 DEF ImportInvariant
<1>10. QED
  BY <1>4, <1>5, <1>6, <1>7, <1>8, <1>9 DEF ImportInvariant

LEMMA UndisturbedKeeps ==
  ASSUME ImportInvariant, UNCHANGED <<spots, menuItems, run, settled>>,
         owner' \in Option([k : ItemKeys, row : ItemRow, revision : Nat])
  PROVE  ImportInvariant'
<1>1. Planned' = Planned /\ Done' = Done
  BY DEF Planned, Done
<1>2. \A t : /\ Exists(t)' <=> Exists(t)
             /\ RowOf(t)' = RowOf(t)
             /\ Wrote(t)' <=> Wrote(t)
             /\ WriteOf(t)' = WriteOf(t)
             /\ Applied(t)' <=> Applied(t)
             /\ OnTurn(t)' <=> OnTurn(t)
  BY DEF Exists, RowOf, Wrote, WriteOf, Applied, OnTurn
<1>3. ImportTypes'
  BY DEF ImportInvariant, ImportTypes
<1>4. RestaurantsCome' /\ WritesArePlanned' /\ ReimportIsSilent'
  BY <1>1 DEF ImportInvariant, RestaurantsCome, WritesArePlanned, ReimportIsSilent
<1>5. RowIsSeen'
  BY <1>2 DEF ImportInvariant, RowIsSeen
<1>6. TasksAreDone'
  BY <1>1, <1>2 DEF ImportInvariant, TasksAreDone
<1>7. SettledIsApplied'
  BY <1>2 DEF ImportInvariant, SettledIsApplied
<1>8. QED
  BY <1>1, <1>3, <1>4, <1>5, <1>6, <1>7 DEF ImportInvariant

LEMMA OwnersKeep ==
  ASSUME ImportInvariant,
         \/ \E k \in ItemKeys : OwnerRead(k)
         \/ \E b \in BOOLEAN : OwnerWrite(b)
         \/ \E p \in Kakao : Moderate(p)
  PROVE  ImportInvariant'
<1>1. /\ Maps(spots, Kakao, SpotRow) /\ Maps(menuItems, ItemKeys, ItemRow)
      /\ owner \in Option([k : ItemKeys, row : ItemRow, revision : Nat])
      /\ \A k \in DOMAIN menuItems : k[1] \in DOMAIN spots
  BY DEF ImportInvariant, ImportTypes, RestaurantsCome
<1>2. \A p \in DOMAIN spots : spots[p] \in SpotRow
  BY <1>1 DEF Maps
<1>3. ASSUME NEW k \in ItemKeys, OwnerRead(k) PROVE ImportInvariant'
  <2>1. menuItems[k] \in ItemRow /\ spots[k[1]] \in SpotRow
    BY <1>1, <1>2, <1>3 DEF OwnerRead, Maps
  <2>2. [k |-> k, row |-> menuItems[k], revision |-> spots[k[1]].revision]
           \in [k : ItemKeys, row : ItemRow, revision : Nat]
    BY <2>1 DEF SpotRow
  <2>3. owner' \in Option([k : ItemKeys, row : ItemRow, revision : Nat])
    BY <1>3, <2>2 DEF OwnerRead, Option
  <2>4. QED
    BY <1>3, <2>3, UndisturbedKeeps DEF OwnerRead
<1>4. ASSUME NEW b \in BOOLEAN, OwnerWrite(b) PROVE ImportInvariant'
  <2>1. owner' = {} /\ owner' \in Option([k : ItemKeys, row : ItemRow, revision : Nat])
    BY <1>4 DEF OwnerWrite, Option
  <2>2. PICK o \in owner :
          IF o.row.available = b THEN UNCHANGED <<spots, menuItems, run, settled>>
          ELSE /\ menuItems' = [menuItems EXCEPT ![o.k].available = b]
               /\ spots' = [spots EXCEPT ![o.k[1]].revision = o.revision + 1]
               /\ Disturbed /\ settled' = {}
    BY <1>4 DEF OwnerWrite
  <2>3. CASE o.row.available = b
    BY <2>1, <2>2, <2>3, UndisturbedKeeps
  <2>4. CASE o.row.available # b
    <3>1. o.k \in ItemKeys /\ o.revision + 1 \in Nat
      BY <1>1 DEF Option
    <3>2. menuItems' = [menuItems EXCEPT ![o.k].available = b]
          /\ spots' = [spots EXCEPT ![o.k[1]].revision = o.revision + 1]
          /\ Disturbed /\ settled' = {}
      BY <2>2, <2>4
    <3>3. DOMAIN menuItems' = DOMAIN menuItems
          /\ \A k \in DOMAIN menuItems :
                menuItems'[k] = IF k = o.k THEN [menuItems[k] EXCEPT !.available = b] ELSE menuItems[k]
      BY <3>2
    <3>4. \A k \in DOMAIN menuItems : menuItems'[k] \in ItemRow
      BY <1>1, <3>3 DEF Maps, ItemRow
    <3>5. menuItems' = [k \in DOMAIN menuItems |-> menuItems'[k]]
      BY <1>1, <3>2 DEF Maps
    <3>6. Maps(menuItems', ItemKeys, ItemRow)
      BY <1>1, <3>3, <3>4, <3>5 DEF Maps
    <3>7. DOMAIN spots' = DOMAIN spots
          /\ \A p \in DOMAIN spots :
                spots'[p] = IF p = o.k[1] THEN [spots[p] EXCEPT !.revision = o.revision + 1]
                            ELSE spots[p]
      BY <3>2
    <3>8. \A p \in DOMAIN spots : spots'[p] \in SpotRow
      BY <1>2, <3>1, <3>7 DEF SpotRow
    <3>9. spots' = [p \in DOMAIN spots |-> spots'[p]]
      BY <1>1, <3>2 DEF Maps
    <3>10. Maps(spots', Kakao, SpotRow)
      BY <1>1, <3>7, <3>8, <3>9 DEF Maps
    <3>11. QED
      BY <2>1, <3>2, <3>3, <3>6, <3>7, <3>10, DisturbedKeeps
  <2>5. QED
    BY <2>3, <2>4
<1>5. ASSUME NEW p \in Kakao, Moderate(p) PROVE ImportInvariant'
  <2>1. spots' = [spots EXCEPT ![p].published = ~spots[p].published] /\ p \in DOMAIN spots
        /\ Disturbed /\ settled' = {} /\ menuItems' = menuItems /\ owner' = owner
    BY <1>5 DEF Moderate
  <2>2. DOMAIN spots' = DOMAIN spots
        /\ \A q \in DOMAIN spots :
              spots'[q] = IF q = p THEN [spots[q] EXCEPT !.published = ~spots[q].published] ELSE spots[q]
    BY <2>1
  <2>3. \A q \in DOMAIN spots : spots'[q] \in SpotRow
    BY <1>2, <2>2 DEF SpotRow
  <2>4. spots' = [q \in DOMAIN spots |-> spots'[q]]
    BY <1>1, <2>1 DEF Maps
  <2>5. Maps(spots', Kakao, SpotRow)
    BY <1>1, <2>2, <2>3, <2>4 DEF Maps
  <2>6. QED
    BY <1>1, <2>1, <2>2, <2>5, DisturbedKeeps
<1>6. QED
  BY <1>3, <1>4, <1>5

LEMMA ReadKeeps == ImportInvariant /\ ReadRow => ImportInvariant'
<1> SUFFICES ASSUME ImportInvariant, ReadRow PROVE ImportInvariant'
  OBVIOUS
<1> DEFINE seen(t) == IF t.what = "spot"
                      THEN IF t.p \in DOMAIN spots THEN {spots[t.p]} ELSE {}
                      ELSE IF t.k \in DOMAIN menuItems THEN {menuItems[t.k]} ELSE {}
           base(t) == IF t.what = "spot" /\ t.p \in DOMAIN spots
                      THEN With(run.base, t.p, spots[t.p].revision) ELSE run.base
<1>1. ImportTypes
  BY DEF ImportInvariant
<1>2. PICK t \in run.todo :
        OnTurn(t) /\ run' = [run EXCEPT !.at = "write", !.seen = seen(t), !.base = base(t)]
  BY DEF ReadRow
<1>3. /\ DOMAIN run' = DOMAIN run /\ run'.at = "write" /\ run'.seen = seen(t) /\ run'.base = base(t)
      /\ run'.kind = run.kind /\ run'.source = run.source /\ run'.apply = run.apply
      /\ run'.todo = run.todo /\ run'.spots = run.spots /\ run'.menus = run.menus
      /\ run'.changed = run.changed /\ run'.new = run.new /\ run'.calm = run.calm
  BY <1>1, <1>2, RunFields
<1>4. UNCHANGED <<spots, menuItems, owner, settled>>
  BY DEF ReadRow
<1>5. t \in Tasks /\ t.p \in Kakao /\ t.what \in {"spot", "item"}
  BY <1>1 DEF ImportTypes, Tasks
<1>6. /\ t.p \in DOMAIN spots => spots[t.p] \in SpotRow /\ spots[t.p].revision \in Nat
      /\ t.k \in DOMAIN menuItems => menuItems[t.k] \in ItemRow
  BY <1>1 DEF ImportTypes, Maps, SpotRow
<1>7. /\ seen(t) = {} <=> ~Exists(t)
      /\ seen(t) \subseteq IF t.what = "spot" THEN SpotRow ELSE ItemRow
      /\ Exists(t) => seen(t) = {RowOf(t)}
      /\ seen(t) \in Option(SpotRow \cup ItemRow)
  BY <1>5, <1>6 DEF Exists, RowOf, Option
<1>8. /\ Maps(base(t), Kakao, Nat)
      /\ DOMAIN run.base \subseteq DOMAIN base(t)
      /\ t.what = "spot" /\ t.p \in DOMAIN spots => t.p \in DOMAIN base(t)
      /\ \A p \in DOMAIN base(t) :
            \/ p \in DOMAIN spots /\ base(t)[p] = spots[p].revision
            \/ p \in DOMAIN run.base /\ base(t)[p] = run.base[p]
  <2>1. Maps(run.base, Kakao, Nat)
    BY <1>1 DEF ImportTypes
  <2>2. CASE t.what = "spot" /\ t.p \in DOMAIN spots
    <3> DEFINE b == With(run.base, t.p, spots[t.p].revision)
    <3>1. base(t) = b
      BY <2>2
    <3>2. /\ Maps(b, Kakao, Nat) /\ DOMAIN b = DOMAIN run.base \cup {t.p}
          /\ b[t.p] = spots[t.p].revision
          /\ \A y \in DOMAIN run.base : y # t.p => b[y] = run.base[y]
      <4>1. t.p \in Kakao /\ spots[t.p].revision \in Nat
        BY <1>5, <1>6, <2>2
      <4> HIDE DEF base
      <4>2. QED
        BY <2>1, <4>1 DEF Maps, With, b
    <3> HIDE DEF b, base
    <3>3. QED
      BY <2>2, <3>1, <3>2
  <2>3. CASE ~(t.what = "spot" /\ t.p \in DOMAIN spots)
    BY <2>1, <2>3
  <2>4. QED
    BY <2>2, <2>3
<1> HIDE DEF seen, base
<1>9. Planned' = Planned /\ Done' = Done
  BY <1>3 DEF Planned, Done
<1>10. \A u : /\ Exists(u)' <=> Exists(u)
              /\ RowOf(u)' = RowOf(u)
              /\ Wrote(u)' <=> Wrote(u)
              /\ WriteOf(u)' = WriteOf(u)
              /\ Applied(u)' <=> Applied(u)
              /\ OnTurn(u)' <=> OnTurn(u)
  BY <1>3, <1>4 DEF Exists, RowOf, Wrote, WriteOf, Applied, OnTurn
<1>11. ImportTypes'
  BY <1>1, <1>3, <1>4, <1>7, <1>8 DEF ImportTypes, NoRun
<1>12. RestaurantsCome'
  BY <1>3, <1>4, <1>8, <1>9 DEF ImportInvariant, RestaurantsCome
<1>13. RowIsSeen'
  <2> SUFFICES ASSUME NEW u \in run.todo, OnTurn(u)
               PROVE  /\ seen(t) = {} <=> ~Exists(u)
                      /\ seen(t) \subseteq IF u.what = "spot" THEN SpotRow ELSE ItemRow
                      /\ run.calm /\ Exists(u) => seen(t) = {RowOf(u)}
                      /\ u.what = "spot" /\ Exists(u) => u.p \in DOMAIN base(t)
    BY <1>3, <1>10 DEF RowIsSeen
  <2>1. run.todo \subseteq Tasks
    BY <1>1 DEF ImportTypes
  <2>2. u = t
    BY <1>2, <2>1, OnTurnIsOne
  <2>3. QED
    BY <1>7, <1>8, <2>2 DEF Exists
<1>14. WritesArePlanned' /\ ReimportIsSilent'
  BY <1>3, <1>4, <1>9 DEF ImportInvariant, WritesArePlanned, ReimportIsSilent
<1>15. TasksAreDone' /\ SettledIsApplied'
  BY <1>3, <1>4, <1>9, <1>10 DEF ImportInvariant, TasksAreDone, SettledIsApplied
<1>16. QED
  BY <1>3, <1>9, <1>11, <1>12, <1>13, <1>14, <1>15 DEF ImportInvariant

\* Two tasks of one region are of two rows.
LEMMA PlannedDiffer ==
  ASSUME ImportInvariant, run.kind = "region", NEW t \in Planned, NEW u \in Planned,
         t.what = u.what, IF t.what = "spot" THEN t.p = u.p ELSE t.k = u.k
  PROVE  t = u
<1>1. PICK s \in run.source : t \in RegionTasks(s)
  BY DEF Planned
<1>2. PICK v \in run.source : u \in RegionTasks(v)
  BY DEF Planned
<1>3. s = v /\ s \in Crawls
  BY DEF ImportInvariant, ImportTypes
<1>4. QED
  BY <1>1, <1>2, <1>3, RegionTasksDiffer

LEMMA UpsertKeeps ==
  ASSUME ImportInvariant, UNCHANGED <<spots, menuItems, owner, settled>>, run.at = "write",
         NEW t \in run.todo, OnTurn(t), NEW w \in Columns, run' = Upsert(t, w),
         run.kind = "region" => \A c \in DOMAIN t.to : t.to[c] # {} => w[c] = t.to[c],
         Exists(t) => \A c \in DOMAIN t.to : w[c] \subseteq t.to[c],
         ~(run.kind = "region" /\ run.calm /\ run.source = settled /\ settled # {})
  PROVE  ImportInvariant'
<1> DEFINE written == IF t.what = "spot" THEN With(run.spots, t.p, w) ELSE run.spots
           listing == IF t.what = "spot" THEN run.menus ELSE With(run.menus, t.k, w)
           new == IF t.what = "spot" /\ run.seen = {} THEN run.new \cup {t.p} ELSE run.new
           changed == IF t.what = "spot" THEN run.changed ELSE run.changed \cup {t.p}
<1>1. ImportTypes
  BY DEF ImportInvariant
<1>2. /\ DOMAIN run' = DOMAIN run /\ run'.at = "read" /\ run'.seen = {} /\ run'.base = run.base
      /\ run'.kind = run.kind /\ run'.source = run.source /\ run'.apply = run.apply
      /\ run'.todo = run.todo \ {t} /\ run'.spots = written /\ run'.menus = listing
      /\ run'.changed = changed /\ run'.new = new /\ run'.calm = run.calm
  BY <1>1, RunFields DEF Upsert
<1>3. t \in Planned /\ Sourced(t) /\ t \in Tasks /\ t.p \in Kakao /\ t.what \in {"spot", "item"}
      /\ DOMAIN t.to = {"price", "available", "at", "published"}
  <2>1. t \in Planned
    BY DEF ImportInvariant
  <2>2. Sourced(t)
    BY <1>1, <2>1, PlannedTasks
  <2>3. QED
    BY <2>1, <2>2 DEF Sourced, Tasks, Columns
<1>4. t.what = "item" => t.k \in ItemKeys /\ t.k[1] = t.p
  BY <1>3 DEF Sourced
<1>5. Planned' = Planned /\ Done' = Done \cup {t} /\ t \notin Done
  <2>1. Planned' = Planned
    BY <1>2 DEF Planned
  <2>2. QED
    BY <1>2, <1>3, <2>1 DEF Done
<1>6. /\ run.seen = {} <=> ~Exists(t)
      /\ t.what = "spot" /\ Exists(t) => t.p \in DOMAIN run.base
  BY DEF ImportInvariant, RowIsSeen
<1>7. /\ Maps(written, Kakao, Columns) /\ Maps(listing, ItemKeys, Columns)
      /\ DOMAIN written = DOMAIN run.spots \cup (IF t.what = "spot" THEN {t.p} ELSE {})
      /\ DOMAIN listing = DOMAIN run.menus \cup (IF t.what = "spot" THEN {} ELSE {t.k})
      /\ t.what = "spot" => written[t.p] = w
      /\ t.what = "item" => listing[t.k] = w
      /\ \A p \in DOMAIN run.spots : (t.what = "spot" /\ p = t.p) \/ written[p] = run.spots[p]
      /\ \A k \in DOMAIN run.menus : (t.what = "item" /\ k = t.k) \/ listing[k] = run.menus[k]
  <2>1. Maps(run.spots, Kakao, Columns) /\ Maps(run.menus, ItemKeys, Columns)
    BY <1>1 DEF ImportTypes
  <2>2. CASE t.what = "spot"
    BY <1>3, <2>1, <2>2 DEF Maps, With
  <2>3. CASE t.what = "item"
    BY <1>4, <2>1, <2>3 DEF Maps, With
  <2>4. QED
    BY <1>3, <2>2, <2>3
<1>8. /\ new \cap DOMAIN spots = {} /\ new \subseteq Kakao /\ run.new \subseteq new
      /\ t.what = "spot" => t.p \in DOMAIN spots \cup new
  BY <1>1, <1>3, <1>6 DEF ImportInvariant, ImportTypes, RestaurantsCome, Exists
<1>9. /\ changed \subseteq Kakao /\ run.changed \subseteq changed
      /\ t.what = "item" => t.p \in changed
      /\ \A p \in changed : p \in run.changed \/ (t.what = "item" /\ p = t.p)
  BY <1>1, <1>3 DEF ImportTypes
<1> HIDE DEF written, listing, new, changed
<1>10. ImportTypes'
  <2>1. {} \in Option(SpotRow \cup ItemRow)
    BY DEF Option
  <2>2. QED
    BY <1>1, <1>2, <1>7, <1>8, <1>9, <2>1 DEF ImportTypes, NoRun
<1>11. RestaurantsCome'
  <2>1. RestaurantsCome
    BY DEF ImportInvariant
  <2>2. DOMAIN written \subseteq DOMAIN spots \cup new
    BY <1>7, <1>8, <2>1 DEF RestaurantsCome
  <2>3. ASSUME NEW u \in Done \cup {t}, u.what = "spot"
        PROVE  /\ u.p \in DOMAIN spots \cup new
               /\ u.p \in DOMAIN spots => u.p \in DOMAIN run.base
    BY <1>6, <1>8, <2>1, <2>3 DEF RestaurantsCome, Exists
  <2>4. ASSUME NEW p \in changed
        PROVE  p \in DOMAIN spots \cup new /\ (p \in DOMAIN spots => p \in DOMAIN run.base)
    <3>1. CASE p \in run.changed
      BY <1>8, <2>1, <3>1 DEF RestaurantsCome
    <3>2. CASE t.what = "item" /\ p = t.p
      BY <1>1, <1>3, <1>8, <2>1, <3>2, RestaurantWasDone
    <3>3. QED
      BY <1>9, <2>4, <3>1, <3>2
  <2>5. QED
    BY <1>2, <1>5, <1>8, <2>1, <2>2, <2>3, <2>4 DEF RestaurantsCome
<1>12. RowIsSeen'
  BY <1>2 DEF RowIsSeen
<1>13. WritesArePlanned'
  <2>1. WritesArePlanned
    BY DEF ImportInvariant
  <2>2. ASSUME NEW p \in DOMAIN written
        PROVE  \E u \in Done \cup {t} : u.what = "spot" /\ u.p = p
    BY <1>7, <2>1, <2>2 DEF WritesArePlanned
  <2>3. ASSUME NEW k \in DOMAIN listing
        PROVE  /\ k[1] \in changed
               /\ \E u \in Done \cup {t} :
                     /\ u.what = "item" /\ u.k = k
                     /\ k \in DOMAIN menuItems =>
                           \A c \in {"price", "available", "at"} : listing[k][c] \subseteq u.to[c]
    <3>1. CASE t.what = "item" /\ k = t.k
      <4>1. k \in DOMAIN menuItems => Exists(t)
        BY <3>1 DEF Exists
      <4>2. k \in DOMAIN menuItems =>
               \A c \in {"price", "available", "at"} : listing[k][c] \subseteq t.to[c]
        BY <1>3, <1>7, <3>1, <4>1
      <4>3. QED
        BY <1>4, <1>9, <3>1, <4>2
    <3>2. CASE ~(t.what = "item" /\ k = t.k)
      <4>1. k \in DOMAIN run.menus /\ listing[k] = run.menus[k]
        BY <1>3, <1>7, <2>3, <3>2
      <4>2. QED
        BY <1>9, <2>1, <4>1 DEF WritesArePlanned
    <3>3. QED
      BY <3>1, <3>2
  <2>4. QED
    BY <1>2, <1>5, <2>2, <2>3 DEF WritesArePlanned
<1>14. TasksAreDone'
  <2> SUFFICES ASSUME run.kind = "region", run.calm, NEW u \in Done \cup {t}
               PROVE  (IF Wrote(u) THEN \A c \in DOMAIN u.to : u.to[c] # {} => WriteOf(u)[c] = u.to[c]
                       ELSE Applied(u))'
    BY <1>2, <1>5 DEF TasksAreDone
  <2>1. CASE u = t
    <3>1. Wrote(t)' /\ WriteOf(t)' = w
      BY <1>2, <1>3, <1>7 DEF Wrote, WriteOf
    <3>2. QED
      BY <2>1, <3>1
  <2>2. CASE u \in Done
    <3>1. u \in Planned /\ u # t
      BY <1>5, <2>2 DEF Done
    <3>2. u.what \in {"spot", "item"}
      BY <1>1, <3>1, PlannedTasks DEF Sourced, Tasks
    <3>3. t.what = u.what => IF t.what = "spot" THEN t.p # u.p ELSE t.k # u.k
      BY <1>3, <3>1, PlannedDiffer
    <3>4. (Wrote(u)' <=> Wrote(u)) /\ (Wrote(u) => WriteOf(u)' = WriteOf(u))
      BY <1>2, <1>3, <1>7, <3>2, <3>3 DEF Wrote, WriteOf
    <3>5. Applied(u)' <=> Applied(u)
      BY DEF Applied, Exists, RowOf
    <3>6. IF Wrote(u) THEN \A c \in DOMAIN u.to : u.to[c] # {} => WriteOf(u)[c] = u.to[c]
          ELSE Applied(u)
      BY <2>2 DEF ImportInvariant, TasksAreDone
    <3>7. QED
      BY <3>4, <3>5, <3>6
  <2>3. QED
    BY <2>1, <2>2
<1>15. SettledIsApplied'
  BY DEF ImportInvariant, SettledIsApplied, Applied, Exists, RowOf
<1>16. ReimportIsSilent'
  BY <1>2 DEF ReimportIsSilent
<1>17. QED
  BY <1>2, <1>5, <1>10, <1>11, <1>12, <1>13, <1>14, <1>15, <1>16 DEF ImportInvariant

LEMMA SkipKeeps ==
  ASSUME ImportInvariant, UNCHANGED <<spots, menuItems, owner, settled>>, run.at = "write",
         NEW t \in run.todo, OnTurn(t), NEW row \in run.seen, ~Differs(row, t.to),
         run' = [run EXCEPT !.at = "read", !.todo = @ \ {t}, !.seen = {}]
  PROVE  ImportInvariant'
<1>1. ImportTypes
  BY DEF ImportInvariant
<1>2. /\ DOMAIN run' = DOMAIN run /\ run'.at = "read" /\ run'.seen = {} /\ run'.base = run.base
      /\ run'.kind = run.kind /\ run'.source = run.source /\ run'.apply = run.apply
      /\ run'.todo = run.todo \ {t} /\ run'.spots = run.spots /\ run'.menus = run.menus
      /\ run'.changed = run.changed /\ run'.new = run.new /\ run'.calm = run.calm
  BY <1>1, RunFields
<1>3. t \in Planned
  BY DEF ImportInvariant
<1>4. Planned' = Planned /\ Done' = Done \cup {t} /\ t \notin Done
  <2>1. Planned' = Planned
    BY <1>2 DEF Planned
  <2>2. QED
    BY <1>2, <1>3, <2>1 DEF Done
<1>5. /\ Exists(t)
      /\ t.what = "spot" => t.p \in DOMAIN run.base
      /\ run.calm => row = RowOf(t)
  BY DEF ImportInvariant, RowIsSeen
<1>6. \A u : /\ Wrote(u)' <=> Wrote(u)
             /\ WriteOf(u)' = WriteOf(u)
             /\ Applied(u)' <=> Applied(u)
  BY <1>2 DEF Exists, RowOf, Wrote, WriteOf, Applied
<1>7. ImportTypes'
  <2>1. {} \in Option(SpotRow \cup ItemRow)
    BY DEF Option
  <2>2. QED
    BY <1>1, <1>2, <2>1 DEF ImportTypes, NoRun
<1>8. RestaurantsCome'
  BY <1>2, <1>4, <1>5 DEF ImportInvariant, RestaurantsCome, Exists
<1>9. RowIsSeen'
  BY <1>2 DEF RowIsSeen
<1>10. WritesArePlanned' /\ ReimportIsSilent'
  BY <1>2, <1>4 DEF ImportInvariant, WritesArePlanned, ReimportIsSilent
<1>11. TasksAreDone'
  <2>1. ASSUME run.kind = "region", run.calm PROVE ~Wrote(t) /\ Applied(t)
    <3>1. Applied(t)
      BY <1>5, <2>1 DEF Applied
    <3>2. ~Wrote(t)
      <4> SUFFICES ASSUME Wrote(t) PROVE FALSE
        OBVIOUS
      <4>1. t.what \in {"spot", "item"}
        BY <1>1, <1>3, PlannedTasks DEF Sourced, Tasks
      <4>2. PICK u \in Done : /\ u.what = t.what
                              /\ IF t.what = "spot" THEN t.p = u.p ELSE t.k = u.k
        BY <4>1 DEF Wrote, ImportInvariant, WritesArePlanned
      <4>3. u = t
        BY <1>3, <2>1, <4>2, PlannedDiffer DEF Done
      <4>4. QED
        BY <1>4, <4>2, <4>3
    <3>3. QED
      BY <3>1, <3>2
  <2>2. QED
    BY <1>2, <1>4, <1>6, <2>1 DEF ImportInvariant, TasksAreDone
<1>12. SettledIsApplied'
  BY <1>6 DEF ImportInvariant, SettledIsApplied
<1>13. QED
  BY <1>2, <1>4, <1>7, <1>8, <1>9, <1>10, <1>11, <1>12 DEF ImportInvariant

\* A crawl that is shown as it is needs no write.
LEMMA SettledIsSilent ==
  ASSUME ImportInvariant, NEW t \in Planned, run.kind = "region", run.source = settled, settled # {}
  PROVE  Applied(t)
<1>1. PICK s \in run.source : t \in RegionTasks(s)
  BY DEF Planned
<1>2. QED
  BY <1>1 DEF ImportInvariant, SettledIsApplied

LEMMA WriteKeeps == ImportInvariant /\ WriteRow => ImportInvariant'
<1> SUFFICES ASSUME ImportInvariant, WriteRow PROVE ImportInvariant'
  OBVIOUS
<1>1. PICK t \in run.todo :
        /\ OnTurn(t)
        /\ \/ run.seen = {} /\ run' = Upsert(t, Filled(t.to))
           \/ \E row \in run.seen : Differs(row, t.to) /\ run' = Upsert(t, Written(row, t.to))
           \/ \E row \in run.seen :
                /\ ~Differs(row, t.to)
                /\ run' = [run EXCEPT !.at = "read", !.todo = @ \ {t}, !.seen = {}]
  BY DEF WriteRow
<1>2. run.at = "write" /\ UNCHANGED <<spots, menuItems, owner, settled>>
  BY DEF WriteRow
<1>3. t \in Planned /\ t.to \in Columns
  BY DEF ImportInvariant, ImportTypes, Tasks
<1>4. /\ run.seen = {} <=> ~Exists(t)
      /\ run.calm /\ Exists(t) => run.seen = {RowOf(t)}
  BY <1>1, <1>2 DEF ImportInvariant, RowIsSeen
<1>5. run.kind = "region" /\ run.calm /\ run.source = settled /\ settled # {} =>
         Exists(t) /\ \A row \in run.seen : ~Differs(row, t.to)
  BY <1>3, <1>4, SettledIsSilent DEF Applied
<1>6. CASE run.seen = {} /\ run' = Upsert(t, Filled(t.to))
  <2>1. /\ Filled(t.to) \in Columns
        /\ \A c \in DOMAIN t.to : t.to[c] # {} => Filled(t.to)[c] = t.to[c]
    BY <1>3, FilledColumns
  <2>2. ~Exists(t)
    BY <1>4, <1>6
  <2>3. QED
    BY <1>1, <1>2, <1>5, <1>6, <2>1, <2>2, UpsertKeeps
<1>7. ASSUME NEW row \in run.seen, Differs(row, t.to), run' = Upsert(t, Written(row, t.to))
      PROVE  ImportInvariant'
  <2>1. /\ Written(row, t.to) \in Columns
        /\ \A c \in DOMAIN t.to : Written(row, t.to)[c] \subseteq t.to[c]
        /\ run.kind = "region" => Written(row, t.to) = t.to
    BY <1>3, WrittenColumns
  <2>2. QED
    BY <1>1, <1>2, <1>5, <1>7, <2>1, UpsertKeeps
<1>8. ASSUME NEW row \in run.seen, ~Differs(row, t.to),
             run' = [run EXCEPT !.at = "read", !.todo = @ \ {t}, !.seen = {}]
      PROVE  ImportInvariant'
  BY <1>1, <1>2, <1>8, SkipKeeps
<1>9. QED
  BY <1>1, <1>6, <1>7, <1>8

\* The rows as the import commits them.
OldSpot(p) == IF p \in DOMAIN spots THEN spots[p] ELSE [published |-> FALSE, revision |-> 1]
NewSpot(p) == IF p \in DOMAIN run.spots THEN Put(OldSpot(p), run.spots[p]) ELSE OldSpot(p)
OldItem(k) == IF k \in DOMAIN menuItems THEN menuItems[k]
              ELSE [price |-> {}, available |-> TRUE, at |-> 0]
NewItem(k) == IF k \in DOMAIN run.menus THEN Put(OldItem(k), run.menus[k]) ELSE OldItem(k)

LEMMA CommittedSpots ==
  ASSUME ImportInvariant, NEW p \in DOMAIN spots \cup run.new
  PROVE  /\ OldSpot(p) \in SpotRow /\ NewSpot(p) \in SpotRow /\ Revision(p) \in Nat
         /\ p \in DOMAIN run.spots => run.spots[p] \in Columns
<1>1. ImportTypes
  BY DEF ImportInvariant
<1>2. OldSpot(p) \in SpotRow
  <2>1. [published |-> FALSE, revision |-> 1] \in SpotRow
    BY DEF SpotRow
  <2>2. p \in DOMAIN spots => spots[p] \in SpotRow
    BY <1>1 DEF ImportTypes, Maps
  <2>3. QED
    BY <2>1, <2>2 DEF OldSpot
<1>3. p \in DOMAIN run.spots => run.spots[p] \in Columns
  BY <1>1 DEF ImportTypes, Maps
<1>4. NewSpot(p) \in SpotRow
  BY <1>2, <1>3, PutColumns DEF NewSpot
<1>5. Revision(p) \in Nat
  <2>1. p \in DOMAIN spots => spots[p].revision \in Nat
    BY <1>1 DEF ImportTypes, Maps, SpotRow
  <2>2. p \in DOMAIN run.base => run.base[p] \in Nat
    BY <1>1 DEF ImportTypes, Maps
  <2>3. p \in Bumped => p \in DOMAIN spots /\ p \in DOMAIN run.base
    BY DEF ImportInvariant, RestaurantsCome, Bumped
  <2>4. QED
    BY <2>1, <2>2, <2>3 DEF Revision
<1>6. QED
  BY <1>2, <1>3, <1>4, <1>5

LEMMA CommittedItems ==
  ASSUME ImportInvariant, NEW k \in DOMAIN menuItems \cup DOMAIN run.menus
  PROVE  /\ OldItem(k) \in ItemRow /\ NewItem(k) \in ItemRow /\ k \in ItemKeys
         /\ k \in DOMAIN run.menus => run.menus[k] \in Columns
<1>1. ImportTypes
  BY DEF ImportInvariant
<1>2. OldItem(k) \in ItemRow
  <2>1. [price |-> {}, available |-> TRUE, at |-> 0] \in ItemRow
    BY DEF ItemRow, Option
  <2>2. k \in DOMAIN menuItems => menuItems[k] \in ItemRow
    BY <1>1 DEF ImportTypes, Maps
  <2>3. QED
    BY <2>1, <2>2 DEF OldItem
<1>3. k \in ItemKeys /\ (k \in DOMAIN run.menus => run.menus[k] \in Columns)
  BY <1>1 DEF ImportTypes, Maps
<1>4. NewItem(k) \in ItemRow
  BY <1>2, <1>3, PutColumns DEF NewItem
<1>5. QED
  BY <1>2, <1>3, <1>4

\* The commit, in these words.
LEMMA FinishCommits ==
  ASSUME ImportInvariant, Finish, run.apply
  PROVE  /\ DOMAIN spots' = DOMAIN spots \cup run.new
         /\ \A p \in DOMAIN spots' : /\ spots'[p] \in SpotRow
                                     /\ spots'[p].published = NewSpot(p).published
                                     /\ spots'[p].revision = Revision(p)
         /\ Maps(spots', Kakao, SpotRow)
         /\ DOMAIN menuItems' = DOMAIN menuItems \cup DOMAIN run.menus
         /\ \A k \in DOMAIN menuItems' : menuItems'[k] = NewItem(k) /\ menuItems'[k] \in ItemRow
         /\ Maps(menuItems', ItemKeys, ItemRow)
<1>1. spots' = [p \in DOMAIN spots \cup run.new |-> [NewSpot(p) EXCEPT !.revision = Revision(p)]]
  BY DEF Finish, NewSpot, OldSpot
<1>2. menuItems' = [k \in DOMAIN menuItems \cup DOMAIN run.menus |-> NewItem(k)]
  BY DEF Finish, NewItem, OldItem
<1>3. DOMAIN spots \cup run.new \subseteq Kakao
  BY DEF ImportInvariant, ImportTypes, Maps
<1>4. \A p \in DOMAIN spots \cup run.new :
         /\ [NewSpot(p) EXCEPT !.revision = Revision(p)] \in SpotRow
         /\ [NewSpot(p) EXCEPT !.revision = Revision(p)].published = NewSpot(p).published
         /\ [NewSpot(p) EXCEPT !.revision = Revision(p)].revision = Revision(p)
  BY CommittedSpots DEF SpotRow
<1>5. \A k \in DOMAIN menuItems \cup DOMAIN run.menus : k \in ItemKeys /\ NewItem(k) \in ItemRow
  BY CommittedItems
<1>6. QED
  BY <1>1, <1>2, <1>3, <1>4, <1>5 DEF Maps

\* What a task that is done sets is what the row has when it is committed.
LEMMA DoneIsApplied ==
  ASSUME ImportInvariant, Finish, run.apply, run.kind = "region", run.calm, NEW t \in Done
  PROVE  Applied(t)'
<1>1. t \in Planned /\ t.what \in {"spot", "item"} /\ t.to \in Columns
  <2>1. ImportTypes
    BY DEF ImportInvariant
  <2>2. QED
    BY <2>1, PlannedTasks DEF Done, Sourced, Tasks
<1>2. IF Wrote(t) THEN \A c \in DOMAIN t.to : t.to[c] # {} => WriteOf(t)[c] = t.to[c]
      ELSE Applied(t)
  BY DEF ImportInvariant, TasksAreDone
<1>3. DOMAIN t.to = {"price", "available", "at", "published"}
      /\ \A c \in DOMAIN t.to : \A v, u \in t.to[c] : v = u
  BY <1>1 DEF Columns, Option
<1>4. CASE t.what = "spot"
  <2>1. t.p \in DOMAIN spots \cup run.new
    BY <1>4 DEF ImportInvariant, RestaurantsCome
  <2>2. /\ t.p \in DOMAIN spots' /\ spots'[t.p] \in SpotRow
        /\ spots'[t.p].published = NewSpot(t.p).published
    BY <2>1, FinishCommits
  <2>3. DOMAIN spots'[t.p] = {"published", "revision"}
    BY <2>2 DEF SpotRow
  <2>4. t.to["published"] # {} => t.to["published"] = {NewSpot(t.p).published}
    <3>1. CASE Wrote(t)
      <4>1. t.p \in DOMAIN run.spots /\ run.spots[t.p] \in Columns
        BY <1>4, <2>1, <3>1, CommittedSpots DEF Wrote
      <4>2. t.to["published"] # {} => run.spots[t.p]["published"] = t.to["published"]
        BY <1>2, <1>3, <1>4, <3>1 DEF WriteOf
      <4>3. NewSpot(t.p) = Put(OldSpot(t.p), run.spots[t.p]) /\ OldSpot(t.p) \in SpotRow
        BY <2>1, <4>1, CommittedSpots DEF NewSpot
      <4>4. "published" \in DOMAIN OldSpot(t.p) /\ "published" \in DOMAIN run.spots[t.p]
        BY <4>1, <4>3 DEF SpotRow, Columns
      <4>5. t.to["published"] # {} => NewSpot(t.p)["published"] \in t.to["published"]
        BY <4>1, <4>2, <4>3, <4>4, PutColumns
      <4>6. QED
        BY <1>3, <4>5
    <3>2. CASE ~Wrote(t)
      <4>1. t.p \in DOMAIN spots /\ ~Differs(spots[t.p], t.to)
        BY <1>2, <1>4, <3>2 DEF Applied, Exists, RowOf
      <4>2. NewSpot(t.p) = spots[t.p] /\ spots[t.p] \in SpotRow
        BY <1>4, <3>2, <4>1, CommittedSpots DEF NewSpot, OldSpot, Wrote
      <4>3. "published" \in DOMAIN spots[t.p]
        BY <4>2 DEF SpotRow
      <4>4. QED
        BY <1>3, <4>1, <4>2, <4>3 DEF Differs
    <3>3. QED
      BY <3>1, <3>2
  <2>5. ~Differs(spots'[t.p], t.to)
    BY <1>3, <2>2, <2>3, <2>4 DEF Differs
  <2>6. QED
    BY <1>4, <2>2, <2>5 DEF Applied, Exists, RowOf, Differs
<1>5. CASE t.what = "item"
  <2>1. t.k \in DOMAIN menuItems \cup DOMAIN run.menus
    BY <1>2, <1>5 DEF Wrote, Applied, Exists
  <2>2. t.k \in DOMAIN menuItems' /\ menuItems'[t.k] = NewItem(t.k) /\ NewItem(t.k) \in ItemRow
    BY <2>1, FinishCommits
  <2>3. DOMAIN NewItem(t.k) = {"price", "available", "at"}
    BY <2>2 DEF ItemRow
  <2>4. \A c \in {"price", "available", "at"} : t.to[c] # {} => t.to[c] = {NewItem(t.k)[c]}
    <3> SUFFICES ASSUME NEW c \in {"price", "available", "at"}, t.to[c] # {}
                 PROVE  t.to[c] = {NewItem(t.k)[c]}
      OBVIOUS
    <3>1. CASE Wrote(t)
      <4>1. t.k \in DOMAIN run.menus /\ run.menus[t.k] \in Columns
        BY <1>5, <2>1, <3>1, CommittedItems DEF Wrote
      <4>2. run.menus[t.k][c] = t.to[c]
        BY <1>2, <1>3, <1>5, <3>1 DEF WriteOf
      <4>3. NewItem(t.k) = Put(OldItem(t.k), run.menus[t.k]) /\ OldItem(t.k) \in ItemRow
        BY <2>1, <4>1, CommittedItems DEF NewItem
      <4>4. c \in DOMAIN OldItem(t.k) /\ c \in DOMAIN run.menus[t.k]
        BY <4>1, <4>3 DEF ItemRow, Columns
      <4>5. NewItem(t.k)[c] \in t.to[c]
        BY <4>1, <4>2, <4>3, <4>4, PutColumns
      <4>6. QED
        BY <1>3, <4>5
    <3>2. CASE ~Wrote(t)
      <4>1. t.k \in DOMAIN menuItems /\ ~Differs(menuItems[t.k], t.to)
        BY <1>2, <1>5, <3>2 DEF Applied, Exists, RowOf
      <4>2. NewItem(t.k) = menuItems[t.k]
        BY <1>5, <3>2, <4>1 DEF NewItem, OldItem, Wrote
      <4>3. c \in DOMAIN menuItems[t.k]
        BY <2>3, <4>2
      <4>4. QED
        BY <1>3, <4>1, <4>2, <4>3 DEF Differs
    <3>3. QED
      BY <3>1, <3>2
  <2>5. ~Differs(menuItems'[t.k], t.to)
    BY <1>3, <2>2, <2>3, <2>4 DEF Differs
  <2>6. QED
    BY <1>5, <2>2, <2>5 DEF Applied, Exists, RowOf, Differs
<1>6. QED
  BY <1>1, <1>4, <1>5

LEMMA FinishKeeps == ImportInvariant /\ Finish => ImportInvariant'
<1> SUFFICES ASSUME ImportInvariant, Finish PROVE ImportInvariant'
  OBVIOUS
<1>1. Fresh'
  BY EndIsFresh DEF Finish
<1>2. CASE ~run.apply
  <2>1. Database'
    BY <1>2, DatabaseStays DEF Finish
  <2>2. QED
    BY <1>1, <2>1, FreshIsSoundNext
<1>3. CASE run.apply
  <2>1. /\ DOMAIN spots' = DOMAIN spots \cup run.new
        /\ DOMAIN menuItems' = DOMAIN menuItems \cup DOMAIN run.menus
        /\ Maps(spots', Kakao, SpotRow) /\ Maps(menuItems', ItemKeys, ItemRow)
    BY <1>3, FinishCommits
  <2>2. \A k \in DOMAIN menuItems' : k[1] \in DOMAIN spots'
    BY <2>1 DEF ImportInvariant, RestaurantsCome, WritesArePlanned
  <2>3. owner' \in Option([k : ItemKeys, row : ItemRow, revision : Nat])
    BY DEF Finish, ImportInvariant, ImportTypes
  <2>4. settled' = IF run.kind = "region" /\ run.calm THEN run.source ELSE {}
    BY <1>3 DEF Finish
  <2>5. settled' \in Option(Crawls)
    BY <2>4 DEF ImportInvariant, ImportTypes, Option
  <2>6. SettledIsApplied'
    <3> SUFFICES ASSUME NEW c \in settled', NEW t \in RegionTasks(c) PROVE Applied(t)'
      BY DEF SettledIsApplied
    <3>1. run.kind = "region" /\ run.calm /\ c \in run.source
      BY <2>4
    <3>2. t \in Done
      BY <3>1 DEF Done, Planned, Finish
    <3>3. QED
      BY <1>3, <3>1, <3>2, DoneIsApplied
  <2>7. Database'
    BY <2>1, <2>2, <2>3, <2>5, <2>6 DEF Database
  <2>8. QED
    BY <1>1, <2>7, FreshIsSoundNext
<1>4. QED
  BY <1>2, <1>3

LEMMA ImportInvariantHolds == ImportSpec => []ImportInvariant
<1>1. ImportInvariant /\ [ImportNext]_importVars => ImportInvariant'
  <2> SUFFICES ASSUME ImportInvariant, [ImportNext]_importVars PROVE ImportInvariant'
    OBVIOUS
  <2>1. ASSUME NEW c \in Crawls, NEW apply \in BOOLEAN, BeginRegion(c, apply)
        PROVE  ImportInvariant'
    BY <2>1, BeginKeeps DEF BeginRegion
  <2>2. ASSUME NEW m \in Manifests, NEW apply \in BOOLEAN, BeginManifest(m, apply)
        PROVE  ImportInvariant'
    BY <2>2, BeginKeeps DEF BeginManifest
  <2>3. CASE UNCHANGED importVars
    <3>1. UNCHANGED <<spots, menuItems, run, owner, settled>>
      BY <2>3 DEF importVars
    <3>2. owner' \in Option([k : ItemKeys, row : ItemRow, revision : Nat])
      BY <3>1 DEF ImportInvariant, ImportTypes
    <3>3. QED
      BY <3>1, <3>2, UndisturbedKeeps
  <2>4. QED
    BY <2>1, <2>2, <2>3, ReadKeeps, WriteKeeps, FinishKeeps, FailKeeps, OwnersKeep DEF ImportNext
<1>2. QED
  BY <1>1, ImportStarts, PTL DEF ImportSpec

LEMMA ImportTypesHold == ImportSpec => []ImportTypes
<1>1. ImportInvariant => ImportTypes
  BY DEF ImportInvariant
<1>2. QED
  BY <1>1, ImportInvariantHolds, PTL

LEMMA SettledIsShown == ImportInvariant => CrawlIsShown
<1> SUFFICES ASSUME ImportInvariant, NEW c \in settled, NEW p \in c.places
             PROVE  /\ spots[p].published
                    /\ \A n \in DOMAIN Chosen(c, p) :
                         LET row == Chosen(c, p)[n]
                             first == \A m \in 1 .. n - 1 : Chosen(c, p)[m].product # row.product IN
                         row.product \in Products /\ first =>
                             menuItems[<<p, row.product>>] =
                                 [price |-> IF row.price \in 1 .. MaxPrice THEN {row.price} ELSE {},
                                  available |-> ~row.soldout, at |-> n]
  BY DEF CrawlIsShown
<1>1. c \in Crawls /\ \A t \in RegionTasks(c) : Applied(t)
  BY DEF ImportInvariant, ImportTypes, SettledIsApplied, Option
<1>2. Maps(spots, Kakao, SpotRow) /\ Maps(menuItems, ItemKeys, ItemRow)
  BY DEF ImportInvariant, ImportTypes
<1>3. spots[p].published
  <2> DEFINE t == SpotTask(p, [Unset EXCEPT !.published = {TRUE}], <<0, p, 0>>)
  <2>1. Applied(t)
    BY <1>1 DEF RegionTasks
  <2>2. t.what = "spot" /\ t.p = p /\ t.to["published"] = {TRUE} /\ "published" \in DOMAIN t.to
    BY DEF SpotTask, Unset
  <2> HIDE DEF t
  <2>3. p \in DOMAIN spots /\ ~Differs(spots[p], t.to)
    BY <2>1, <2>2 DEF Applied, Exists, RowOf
  <2>4. spots[p] \in SpotRow
    BY <1>2, <2>3 DEF Maps
  <2>5. "published" \in DOMAIN spots[p]
    BY <2>4 DEF SpotRow
  <2>6. {TRUE} = {spots[p]["published"]}
    BY <2>2, <2>3, <2>5 DEF Differs
  <2>7. QED
    BY <2>6
<1>4. ASSUME NEW n \in DOMAIN Chosen(c, p), Chosen(c, p)[n].product \in Products,
             \A m \in 1 .. n - 1 : Chosen(c, p)[m].product # Chosen(c, p)[n].product
      PROVE  menuItems[<<p, Chosen(c, p)[n].product>>] =
                 [price |-> IF Chosen(c, p)[n].price \in 1 .. MaxPrice
                            THEN {Chosen(c, p)[n].price} ELSE {},
                  available |-> ~Chosen(c, p)[n].soldout, at |-> n]
  <2> DEFINE row == Chosen(c, p)[n]
             t == ItemTask(p, row.product, ItemColumns(row, n), <<1, p, n>>)
  <2>1. n \in Selected(Chosen(c, p))
    BY <1>4 DEF Selected
  <2>2. t \in RegionTasks(c)
    BY <2>1, ItemTaskInRegion
  <2>3. /\ t.what = "item" /\ t.k = <<p, row.product>>
        /\ t.to = [price |-> {NormalPrice(row.price)}, available |-> {~row.soldout}, at |-> {n},
                   published |-> {}]
    BY DEF ItemTask, ItemColumns
  <2>4. row \in SourceRow
    BY <1>1, <2>1, ListsAreSequences
  <2> DEFINE item == menuItems[<<p, row.product>>]
  <2> HIDE DEF t
  <2>5. <<p, row.product>> \in DOMAIN menuItems /\ ~Differs(item, t.to)
    BY <1>1, <2>2, <2>3 DEF Applied, Exists, RowOf
  <2>6. item \in ItemRow
    BY <1>2, <2>5 DEF Maps
  <2> HIDE DEF item, row
  <2>7. DOMAIN item = {"price", "available", "at"} /\ item = [price |-> item.price,
                                                              available |-> item.available,
                                                              at |-> item.at]
    BY <2>6 DEF ItemRow
  <2>8. DOMAIN t.to = {"price", "available", "at", "published"}
        /\ t.to["price"] = {NormalPrice(row.price)} /\ t.to["available"] = {~row.soldout}
        /\ t.to["at"] = {n}
    BY <2>3
  <2>9. /\ {NormalPrice(row.price)} = {item["price"]} /\ {~row.soldout} = {item["available"]}
        /\ {n} = {item["at"]}
    BY <2>5, <2>7, <2>8 DEF Differs
  <2>10. item.price = NormalPrice(row.price) /\ item.available = ~row.soldout /\ item.at = n
    BY <2>9
  <2>11. NormalPrice(row.price) = IF row.price \in 1 .. MaxPrice THEN {row.price} ELSE {}
    BY <2>4, ImportAssumptions DEF NormalPrice, SourceRow
  <2>12. item = [price |-> IF row.price \in 1 .. MaxPrice THEN {row.price} ELSE {},
                 available |-> ~row.soldout, at |-> n]
    BY <2>7, <2>10, <2>11
  <2>13. QED
    BY <2>12 DEF item, row
<1>5. QED
  BY <1>3, <1>4

\* A crawl that was imported is shown as it lists its places and products, and to
\* import it again, while nobody writes, changes nothing (import_jeju_catalog.py:679,
\* :964).
THEOREM CrawlsAlwaysSettle == ImportSpec => []CrawlsSettle
<1>1. ImportInvariant => CrawlsSettle
  BY SettledIsShown DEF ImportInvariant, CrawlsSettle
<1>2. QED
  BY <1>1, ImportInvariantHolds, PTL

\* A region's import counts every menu whose items it changes in that menu's
\* revision whatever owners do meanwhile, a manifest's import when nobody wrote
\* since it began; both leave the items their source does not list, and the columns
\* of items that a manifest omits, as they are (import_jeju_catalog.py:901, :1064,
\* import_catalog.py:308, :784).
THEOREM ImportsAlwaysCount == ImportSpec => ImportsCountTheirChanges
<1>1. ImportInvariant /\ Finish => RevisionsMove /\ OmittedIsKept
  <2> SUFFICES ASSUME ImportInvariant, Finish PROVE RevisionsMove /\ OmittedIsKept
    OBVIOUS
  <2>1. RevisionsMove
    <3> SUFFICES ASSUME run.apply, run.kind = "region" \/ run.calm, NEW p \in DOMAIN spots,
                        NEW k \in DOMAIN menuItems', k[1] = p,
                        k \notin DOMAIN menuItems \/ menuItems'[k] # menuItems[k]
                 PROVE  spots'[p].revision = spots[p].revision + 1
      BY DEF RevisionsMove, ChangesMenu
    <3>1. k \in DOMAIN menuItems \cup DOMAIN run.menus /\ menuItems'[k] = NewItem(k)
      BY FinishCommits
    <3>2. k \in DOMAIN run.menus
      BY <3>1 DEF NewItem, OldItem
    <3>3. p \in run.changed /\ p \in DOMAIN run.base /\ p \notin run.new
      BY <3>2 DEF ImportInvariant, RestaurantsCome, WritesArePlanned
    <3>4. spots'[p].revision = Revision(p)
      BY FinishCommits
    <3>5. run.calm => run.base[p] = spots[p].revision
      BY <3>3 DEF ImportInvariant, RestaurantsCome
    <3>6. QED
      BY <3>3, <3>4, <3>5 DEF Revision, Bumped
  <2>2. ASSUME NEW k \in DOMAIN menuItems, ~Named(k) PROVE menuItems'[k] = menuItems[k]
    <3>1. CASE ~run.apply
      BY <3>1 DEF Finish
    <3>2. CASE run.apply
      <4>1. k \notin DOMAIN run.menus
        <5> SUFFICES ASSUME k \in DOMAIN run.menus PROVE FALSE
          OBVIOUS
        <5>1. PICK t \in Done : t.what = "item" /\ t.k = k
          BY DEF ImportInvariant, WritesArePlanned
        <5>2. PICK s \in run.source :
                t \in IF run.kind = "region" THEN RegionTasks(s) ELSE ManifestTasks(s)
          BY DEF Done, Planned
        <5>3. CASE run.kind = "region"
          <6>1. s \in Crawls /\ t \in RegionTasks(s)
            BY <5>2, <5>3 DEF ImportInvariant, ImportTypes
          <6>2. Sourced(t) /\ t.p \in s.places
                /\ \E n \in DOMAIN Chosen(s, t.p) : Chosen(s, t.p)[n].product = t.k[2]
            BY <5>1, <6>1, RegionTasksAreTasks
          <6>3. t.p = k[1]
            BY <5>1, <6>2 DEF Sourced
          <6>4. QED
            BY <2>2, <5>1, <5>3, <6>2, <6>3 DEF Named
        <5>4. CASE run.kind # "region"
          <6>1. s \in Manifests /\ t \in ManifestTasks(s)
            BY <5>2, <5>4 DEF ImportInvariant, ImportTypes
          <6>2. t.k[1] \in DOMAIN s.restaurants /\ t.k[2] \in DOMAIN s.restaurants[t.k[1]].items
            BY <5>1, <6>1, ManifestTasksAreTasks
          <6>3. QED
            BY <2>2, <5>1, <5>4, <6>2 DEF Named
        <5>5. QED
          BY <5>3, <5>4
      <4>2. k \in DOMAIN menuItems' /\ menuItems'[k] = NewItem(k)
        BY <3>2, FinishCommits
      <4>3. QED
        BY <4>1, <4>2 DEF NewItem, OldItem
    <3>3. QED
      BY <3>1, <3>2
  <2>3. ASSUME NEW k \in DOMAIN menuItems, run.kind = "manifest", NEW s \in run.source,
               NEW c \in {"price", "available", "at"}, s.restaurants[k[1]].items[k[2]][c] = {}
        PROVE  menuItems'[k][c] = menuItems[k][c]
    <3>1. CASE ~run.apply
      BY <3>1 DEF Finish
    <3>2. CASE run.apply
      <4>1. k \in DOMAIN menuItems' /\ menuItems'[k] = NewItem(k) /\ OldItem(k) = menuItems[k]
        BY <3>2, FinishCommits DEF OldItem
      <4>2. CASE k \notin DOMAIN run.menus
        BY <4>1, <4>2 DEF NewItem
      <4>3. CASE k \in DOMAIN run.menus
        <5>1. PICK t \in Done : /\ t.what = "item" /\ t.k = k
                                /\ run.menus[k][c] \subseteq t.to[c]
          BY <4>3 DEF ImportInvariant, WritesArePlanned
        <5>2. PICK v \in run.source : t \in ManifestTasks(v)
          BY <2>3 DEF Done, Planned
        <5>3. v = s /\ s \in Manifests
          BY <2>3 DEF ImportInvariant, ImportTypes
        <5>4. t.to = s.restaurants[k[1]].items[k[2]]
          BY <5>1, <5>2, <5>3, ManifestTasksAreTasks
        <5>5. run.menus[k][c] = {}
          BY <2>3, <5>1, <5>4
        <5>6. run.menus[k] \in Columns /\ OldItem(k) \in ItemRow
          BY <4>3, CommittedItems
        <5>7. c \in DOMAIN OldItem(k)
          BY <5>6 DEF ItemRow
        <5>8. Put(OldItem(k), run.menus[k])[c] = OldItem(k)[c]
          BY <5>5, <5>6, <5>7, PutColumns
        <5>9. QED
          BY <4>1, <4>3, <5>8 DEF NewItem
      <4>4. QED
        BY <4>2, <4>3
    <3>3. QED
      BY <3>1, <3>2
  <2>4. OmittedIsKept
    BY <2>2, <2>3 DEF OmittedIsKept
  <2>5. QED
    BY <2>1, <2>4
<1>2. ImportInvariant /\ [ImportNext]_importVars => [Finish => RevisionsMove /\ OmittedIsKept]_importVars
  BY <1>1
<1>3. QED
  BY <1>2, ImportInvariantHolds, PTL DEF ImportSpec, ImportsCountTheirChanges

-----------------------------------------------------------------------------
(* The run side by side: each component moves as its own specification says. *)

catalogVars == <<openVars, pageVars, searchVars, evidenceVars, importVars, vars>>

LEMMA CatalogOneAtATime ==
  ASSUME [CatalogNext]_catalogVars
  PROVE  /\ [OpenNext]_openVars /\ [PageNext]_pageVars /\ [SearchNext]_searchVars
         /\ [EvidenceNext]_evidenceVars /\ [ImportNext]_importVars /\ [Next]_vars
<1>1. CASE UNCHANGED catalogVars
  BY <1>1 DEF catalogVars
<1>2. CASE CatalogNext
  BY <1>2 DEF CatalogNext, Alone
<1>3. QED
  BY <1>1, <1>2

\* A behaviour of the catalog side by side is a behaviour of each component: what
\* is proved of a component alone holds of it there.
THEOREM CatalogIsItsComponents ==
  CatalogSpec => OpenSpec /\ PageSpec /\ SearchSpec /\ EvidenceSpec /\ ImportSpec /\ Spec
<1>1. CatalogInit => OpenInit /\ PageInit /\ SearchInit /\ EvidenceInit /\ ImportInit /\ Init
  BY DEF CatalogInit
<1>2. QED
  BY <1>1, CatalogOneAtATime, PTL
  DEF CatalogSpec, catalogVars, OpenSpec, PageSpec, SearchSpec, EvidenceSpec, ImportSpec, Spec

\* Every variable of the six components of the catalog keeps its declared shape.
THEOREM CatalogTypeCorrect == CatalogSpec => []CatalogTypes
<1>1. CatalogTypes <=> OpenTypes /\ PageTypes /\ SearchTypes /\ EvidenceTypes /\ ImportTypes
                       /\ TypeOK
  BY DEF CatalogTypes
<1>2. QED
  BY <1>1, CatalogIsItsComponents, OpenTypesHold, PageTypesHold, SearchTypesHold,
     EvidenceTypesHold, ImportTypesHold, CartTypeCorrect, PTL
==============================================================================
