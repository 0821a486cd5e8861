SPECIFICATION ServicesSpec
CONSTANTS
  guest = guest clerk = clerk bistro = bistro
  r1 = r1 r2 = r2 b1 = b1 b2 = b2 c1 = c1
  p1 = p1 p2 = p2 d1 = d1 d2 = d2
  Applicants = {"ann", "bob"}
  Venues = {"bistro", "cafe"}
  Applications = {p1, p2}
  Numbers = {"n1"}
  Managers <- SeededManagers
  Desks = {d1, d2}
  Patches <- DayPatches
  Screens = {"one", "two"}
  Uploads = {"one", "two"}
  Callers = {"one", "two"}
  Limit = 1
  Window = 2
  LastTick = 4
  Threads = {"one", "two"}
  Reuse = 9
  MinAge = 4
  Steps = {1, 3}
  LastMinute = 14
  Tabs = {"one", "two"}
  Details = {"d"}
  LastVersion = 3
  LastRow = 3
  Users = {guest, clerk}
  Readers = {}
  Guests = {guest}
  Restaurants = {bistro}
  Staff <- ClerkOnly
  Scope <- GuestAtBistro
  Conversations = {c1}
  Keys = {k1}
  Contents = {b1, b2}
  Requests = {r1, r2}
  PageSize = 1
  None = None
  MaxTime = 3
SYMMETRY Interchangeable
INVARIANTS
  ServicesTypes OwnersWereApproved HoursAreOnePatchUnlessRaced UploadsEndClean LateAdmissionsAreFew UpdatesAreApart VersionCountsChanges
  SavedAnswersAreRows
PROPERTIES VerdictsAreFinal SendIsIdempotent
CHECK_DEADLOCK FALSE
