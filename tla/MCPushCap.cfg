SPECIFICATION Spec
CONSTANTS
  u1 = u1 u2 = u2 s1 = s1 s2 = s2 m1 = m1 m2 = m2
  d1 = d1 d2 = d2 i1 = i1 i2 = i2 k1 = k1 k2 = k2
  p1 = p1 p2 = p2 w1 = w1 w2 = w2
  Users = {u1, u2}
  Sessions = {s1, s2}
  Owner <- OwnerTwo
  Installations = {i1, i2}
  Tokens = {k1, k2}
  Messages = {}
  Sender <- SentByU2
  Devices = {d1, d2}
  Configs = {c1, c2}
  Slots = {p1, p2}
  Workers = {w1}
  MaxDevices = 1
  MaxAttempts = 1
  BatchSize = 1
  MaxRegistrations = 2
SYMMETRY SameAccount
INVARIANTS ActiveDeviceCap
