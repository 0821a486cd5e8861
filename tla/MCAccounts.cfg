SPECIFICATION Spec
CONSTANTS
  u1 = u1 u2 = u2 s1 = s1 s2 = s2 s3 = s3 g1 = g1 g2 = g2 e1 = e1 e2 = e2
  w1 = w1 w2 = w2 r1 = r1 r2 = r2
  Users = {u1, u2}
  Sessions = {s1, s2, s3}
  Subjects = {g1}
  Emails = {e1}
  Passwords = {w1}
  Clients = {"web"}
  Requests = {r1, r2}
  None = None

SYMMETRY Interchangeable
INVARIANTS TypeOK MembersShowedProof OneUpgradeWins HeldTokensAreCurrent MembersCanReturn
  LateWebAnswersAreFew
PROPERTIES RevokedIsFinal
CHECK_DEADLOCK FALSE
