---------------------------- MODULE MCPushOutbox ----------------------------
(* Instances of PushOutbox for TLC.                                        *)
EXTENDS PushOutbox, TLC

CONSTANTS u1, u2, s1, s2, m1, m2, d1, d2, i1, i2, k1, k2,
          p1, p2, w1, w2

\* The account of each session, and the sender of every message.
OneEach == (s1 :> u1) @@ (s2 :> u2)
OwnerOne == (s1 :> u1)
OwnerTwo == (s1 :> u1) @@ (s2 :> u1)
SentByU2 == [m \in Messages |-> u2]

\* Devices, slots, workers, installations and tokens are interchangeable; so are
\* two sessions of one account.
Interchangeable ==
    Permutations(Devices) \cup Permutations(Slots) \cup Permutations(Workers)
        \cup Permutations(Installations) \cup Permutations(Tokens)
SameAccount == Interchangeable \cup Permutations({s1, s2})
=============================================================================
