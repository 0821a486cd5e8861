------------------------------- MODULE MCCart -------------------------------
(* Instances of Cart for TLC.                                              *)
EXTENDS Cart, TLC

CONSTANTS c1, c2, c3, x, y, r1, r2, e1, q1, q2, t1, t2

Interchangeable == Permutations(Requests) \cup Permutations(Editors) \cup Permutations(Locales)
=============================================================================
