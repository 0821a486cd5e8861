---------------------------- MODULE ProviderToken ----------------------------
(***************************************************************************)
(* The signed APNs provider token that the sender threads of one worker    *)
(* process share (APNsSender of app/services/push.py): reused for 45       *)
(* minutes, signed again when it is older, and, after APNs rejected it as  *)
(* expired, when it is at least 20 minutes old.  Times are in minutes; a   *)
(* token is the number of its signing.  The clock of APNs need not agree   *)
(* with the process's: any token may be rejected at any time.              *)
(***************************************************************************)
EXTENDS Integers, Sequences, FiniteSets

CONSTANTS
    Threads,        \* sender threads
    Reuse,          \* 45 * 60
    MinAge,         \* 20 * 60: what APNs asks between two tokens
    Steps,          \* by how much the clock may go on between two calls
    LastMinute      \* bound on the clock

ASSUME TokenAssumptions ==
    MinAge \in Nat /\ Reuse \in Nat /\ MinAge <= Reuse /\ Steps \subseteq Nat
    /\ LastMinute \in Nat

VARIABLES
    minute,
    signed,         \* when each token was signed; the last is the cached one
    using           \* per thread: the token of its request, 0 when it has none

tokenVars == <<minute, signed, using>>

Cached == Len(signed)
Age(k) == minute - signed[k]

TokenTypes ==
    /\ minute \in 0 .. LastMinute
    /\ signed \in Seq(0 .. LastMinute) /\ signed # << >>
    /\ using \in [Threads -> 0 .. Cached]

\* The constructor signs a token, so that a bad key fails at startup.
TokenInit ==
    /\ minute = 0
    /\ signed = <<0>>
    /\ using = [t \in Threads |-> 0]

TokenTick(d) ==
    /\ minute + d <= LastMinute
    /\ minute' = minute + d
    /\ UNCHANGED <<signed, using>>

\* _provider_token, under the lock.
Obtain(t) ==
    /\ using[t] = 0
    /\ signed' = IF Age(Cached) < Reuse THEN signed ELSE Append(signed, minute)
    /\ using' = [using EXCEPT ![t] = Len(signed')]
    /\ UNCHANGED minute

\* The answer of APNs is another than ExpiredProviderToken.
Answered(t) ==
    /\ using[t] # 0
    /\ using' = [using EXCEPT ![t] = 0]
    /\ UNCHANGED <<minute, signed>>

\* Fault: the age of the token is not asked.
RenewableAtAnyAge(k) == k = Cached

\* _refresh_rejected_provider_token signs a new token in the place of the
\* rejected one, unless that is very young.
Renewable(k) == k = Cached /\ Age(k) >= MinAge

Rejected(t) ==
    LET k == using[t] IN
    /\ k # 0
    /\ signed' = IF Renewable(k) THEN Append(signed, minute) ELSE signed
    /\ using' = [using EXCEPT ![t] = 0]
    /\ UNCHANGED minute

TokenNext ==
    \/ \E d \in Steps : TokenTick(d)
    \/ \E t \in Threads : Obtain(t) \/ Answered(t) \/ Rejected(t)

TokenSpec == TokenInit /\ [][TokenNext]_tokenVars

-----------------------------------------------------------------------------
\* "Apple rejects provider-token updates made more than once within 20
\* minutes" (push.py:559): however many threads have a token rejected at the
\* same time, two tokens are signed at least that far apart.
UpdatesAreApart ==
    \A k \in 2 .. Len(signed) : signed[k] - signed[k - 1] >= MinAge
=============================================================================
