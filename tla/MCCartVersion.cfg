SPECIFICATION Spec
CONSTANTS
  c1 = c1 c2 = c2 c3 = c3 x = x y = y r1 = r1 r2 = r2 e1 = e1
  q1 = q1 q2 = q2 t1 = t1 t2 = t2
  Carts = {c1}
  Items = {x}
  Prices = {1}
  Contents = {q1}
  Tables = {t1}
  Locales = {en}
  Keys = {k1}
  Requests = {r1, r2}
  Editors = {}
  None = None
  ExpectedVersions = {None, 1, 2}
  ExpectedRevisions = {None}
  MaxVersion = 3
  MaxRevision = 1
PROPERTIES ChangesApplyToTheirVersion
