----------------------------- MODULE MCServices -----------------------------
(***************************************************************************)
(* Instances for TLC of the services that share no row: owner onboarding,  *)
(* opening hours, media, the rate limiter, the provider token, what a user *)
(* keeps, and messages.  TLC checks them side by side: a behaviour is one  *)
(* of one component at a time, while the others are as they started.       *)
(***************************************************************************)
EXTENDS Merchants, OpeningHours, MediaUpload, RateLimiter, ProviderToken, Profile,
        Messaging, TLC

CONSTANTS guest, clerk, bistro, r1, r2, b1, b2, c1, p1, p2, d1, d2

\* Messages: one restaurant, whose clerk a QR guest may contact.
ClerkOnly == bistro :> {clerk}
GuestAtBistro == guest :> bistro

\* Owners: the seed made one manager of one restaurant.
SeededManagers == {<<"bistro", "ann">>}

\* Hours: a closed day, a day shift, an evening shift that shares an end with it.
DayPatches ==
    {[opens_at |-> "none", closes_at |-> "none", is_closed |-> "yes"],
     [opens_at |-> "09:00", closes_at |-> "21:00", is_closed |-> "no"],
     [opens_at |-> "21:00", closes_at |-> "23:00", is_closed |-> "no"]}

Interchangeable ==
    Permutations(Requests) \cup Permutations(Contents) \cup Permutations(Applications)
        \cup Permutations(Desks)

\* Every component but c is as it started, and stays so.
Alone(c) ==
    /\ IF c = "merchants" THEN TRUE ELSE MerchantInit /\ UNCHANGED merchantVars
    /\ IF c = "hours" THEN TRUE ELSE HoursInit /\ UNCHANGED hoursVars
    /\ IF c = "media" THEN TRUE ELSE MediaInit /\ UNCHANGED mediaVars
    /\ IF c = "limiter" THEN TRUE ELSE LimiterInit /\ UNCHANGED limiterVars
    /\ IF c = "token" THEN TRUE ELSE TokenInit /\ UNCHANGED tokenVars
    /\ IF c = "profile" THEN TRUE ELSE ProfileInit /\ UNCHANGED profileVars
    /\ IF c = "messages" THEN TRUE ELSE Init /\ UNCHANGED vars

ServicesInit ==
    /\ MerchantInit /\ HoursInit /\ MediaInit /\ LimiterInit /\ TokenInit /\ ProfileInit
    /\ Init

ServicesNext ==
    \/ Alone("merchants") /\ MerchantNext
    \/ Alone("hours") /\ HoursNext
    \/ Alone("media") /\ MediaNext
    \/ Alone("limiter") /\ LimiterNext
    \/ Alone("token") /\ TokenNext
    \/ Alone("profile") /\ ProfileNext
    \/ Alone("messages") /\ Next

ServicesSpec ==
    ServicesInit /\ [][ServicesNext]_<<merchantVars, hoursVars, mediaVars, limiterVars,
                                       tokenVars, profileVars, vars>>

\* The shape of every variable of the services.
ServicesTypes ==
    /\ MerchantTypes /\ HoursTypes /\ MediaTypes /\ LimiterTypes /\ TokenTypes
    /\ ProfileTypes /\ TypeOK
=============================================================================
