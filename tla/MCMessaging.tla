---------------------------- MODULE MCMessaging ----------------------------
(* Instances of Messaging for TLC.                                         *)
EXTENDS Messaging, TLC

CONSTANTS guest, clerk, bistro, r1, r2, b1, b2, c1, c2

\* One restaurant, whose clerk a QR guest may contact.
ClerkOnly == bistro :> {clerk}
GuestAtBistro == guest :> bistro

Interchangeable ==
    Permutations(Requests) \cup Permutations(Contents) \cup Permutations(Conversations)
=============================================================================
