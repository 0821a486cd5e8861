SPECIFICATION CatalogSpec
CONSTANTS
  c1 = c1 c2 = c2 c3 = c3 dish1 = dish1 r1 = r1 r2 = r2 t1 = t1 t2 = t2
  WeekDays = 3
  DayLength = 3
  Zone = "seoul"
  OtherZones = {"tokyo", "gone"}
  NoTime = 9
  HourRows <- Shifts
  Offsets <- Clocks
  Spots = {1, 2}
  Dishes <- SpotDishes
  Openings <- DayAndNight
  Fitting <- DishesThatFit
  Far <- Distances
  Stars <- SameStars
  Score <- DishScores
  PageSize = 1
  MaxOffset = 1
  Plates = {"p", "q"}
  Profiles <- PlateProfiles
  Home <- OneHome
  Part <- SlugPart
  Diets = {"vegan", "vegetarian"}
  Allergens = {"peanut"}
  Ingredients = {"pork-belly", "mackerel"}
  Avoidable = {"pork", "fish"}
  Relations = {"may_contain", "free_from", "does_not_contain"}
  Crawls <- RegionCrawls
  Manifests <- ManifestFiles
  Kakao = {1}
  Products = {1, 2}
  MaxPrice = 9
  LastRevision = 3
  Carts = {c1, c2, c3}
  Items = {dish1}
  Prices = {1}
  Contents = {}
  Tables = {t1, t2}
  Locales = {en}
  Keys = {}
  Requests = {r1, r2}
  Editors = {}
  None = None
  ExpectedVersions = {None}
  ExpectedRevisions = {None}
  MaxVersion = 2
  MaxRevision = 1
SYMMETRY Interchangeable
INVARIANTS
  CatalogTypes OneOpenNow QuietWalksAreExact AnsweredPagesAreWhole FacetsAnnounceWhatSearchFinds
  PredicatesKeepWhatMatches ReadingsAgree CrawlsSettle CartIsNeverLost
PROPERTIES WarningsNeverClear ImportsCountTheirChanges
