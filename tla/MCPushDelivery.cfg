SPECIFICATION Spec
CONSTANTS
  u1 = u1 u2 = u2 s1 = s1 s2 = s2 m1 = m1 m2 = m2
  d1 = d1 d2 = d2 i1 = i1 i2 = i2 k1 = k1 k2 = k2
  p1 = p1 p2 = p2 w1 = w1 w2 = w2
  Users = {u1, u2}
  Sessions = {s1}
  Owner <- OwnerOne
  Installations = {i1}
  Tokens = {k1}
  Messages = {m1}
  Sender <- SentByU2
  Devices = {d1}
  Configs = {c1}
  Slots = {p1}
  Workers = {w1, w2}
  MaxDevices = 1
  MaxAttempts = 3
  BatchSize = 1
  MaxRegistrations = 2
SYMMETRY Interchangeable
INVARIANTS TypeOK LeaseIsExclusive PushesWithinAttempts
PROPERTIES TerminalIsFinal SettledByLeaseHolder
