SPECIFICATION Spec
CONSTANTS
  guest = guest clerk = clerk bistro = bistro
  r1 = r1 r2 = r2 b1 = b1 b2 = b2 c1 = c1 c2 = c2
  Users = {guest, clerk}
  Readers = {clerk}
  Guests = {guest}
  Restaurants = {bistro}
  Staff <- ClerkOnly
  Scope <- GuestAtBistro
  Conversations = {c1}
  Keys = {k1}
  Contents = {b1}
  Requests = {r1, r2}
  PageSize = 1
  None = None
  MaxTime = 3
INVARIANT PagingSkipsNothing
