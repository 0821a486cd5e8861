---------------------------- MODULE MCAuthSessions ----------------------------
(* Instances of AuthSessions for TLC.                                        *)
EXTENDS AuthSessions, TLC

CONSTANTS u1, u2, s1, s2, s3, g1, g2, e1, e2, w1, w2, r1, r2

Interchangeable ==
    Permutations(Users) \cup Permutations(Sessions) \cup Permutations(Subjects)
    \cup Permutations(Emails) \cup Permutations(Passwords) \cup Permutations(Requests)
=============================================================================
