SPECIFICATION Spec
CONSTANTS
  c1 = c1 c2 = c2 c3 = c3 x = x y = y r1 = r1 r2 = r2 e1 = e1
  q1 = q1 q2 = q2 t1 = t1 t2 = t2
  Carts = {c1}
  Items = {x}
  Prices = {1, 2}
  Contents = {q1}
  Tables = {t1}
  Locales = {en, ko}
  Keys = {k1}
  Requests = {r1, r2}
  Editors = {e1}
  None = None
  ExpectedVersions = {None}
  ExpectedRevisions = {None}
  MaxVersion = 2
  MaxRevision = 3
SYMMETRY Interchangeable
INVARIANT CardShowsItsMenu
PROPERTIES PrepareIsIdempotent
