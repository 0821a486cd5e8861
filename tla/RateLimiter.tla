----------------------------- MODULE RateLimiter -----------------------------
(***************************************************************************)
(* SlidingWindowLimiter.check of app/rate_limit.py for one key: at most    *)
(* "limit" admissions in a sliding window.  The clock is read before the   *)
(* lock is taken, so a bucket need not be in the order of its times, and a *)
(* thread that waits admits with a time that is past.                      *)
(***************************************************************************)
EXTENDS Integers, Sequences, FiniteSets, FiniteSetsExt

CONSTANTS
    Callers,        \* requests that call check at the same time
    Limit,          \* requests
    Window,         \* window_seconds
    LastTick        \* bound on the clock

ASSUME LimiterAssumptions ==
    /\ Limit \in Nat \ {0} /\ Window \in Nat \ {0} /\ LastTick \in Nat
    /\ IsFiniteSet(Callers)

VARIABLES
    monotonic,
    bucket,         \* self._events[key]
    stamps,         \* per caller: its "now", -1 when it is not in check
    admitted        \* history: the times of admissions

limiterVars == <<monotonic, bucket, stamps, admitted>>

Ticks == 0 .. LastTick

LimiterTypes ==
    /\ monotonic \in Ticks
    /\ \A i \in 1 .. Len(bucket) : bucket[i] \in Ticks
    /\ stamps \in [Callers -> Ticks \cup {-1}]
    /\ \A i \in 1 .. Len(admitted) : admitted[i] \in Ticks

LimiterInit ==
    /\ monotonic = 0
    /\ bucket = << >>
    /\ stamps = [c \in Callers |-> -1]
    /\ admitted = << >>

Tick ==
    /\ monotonic < LastTick
    /\ monotonic' = monotonic + 1
    /\ UNCHANGED <<bucket, stamps, admitted>>

\* now = time.monotonic(), outside the lock.
ReadClock(c) ==
    /\ stamps[c] = -1
    /\ stamps' = [stamps EXCEPT ![c] = monotonic]
    /\ UNCHANGED <<monotonic, bucket, admitted>>

\* The stamps that leave the bucket: from its head while they are past the
\* cutoff, so one that is out of order waits behind a younger one.
Fresh(b, now) ==
    LET stays == {i \in 1 .. Len(b) : b[i] > now - Window} IN
    IF stays = {} THEN << >> ELSE SubSeq(b, Min(stays), Len(b))

\* Fault: one more than the limit.
RoomForOneMore(b) == Len(b) <= Limit

Room(b) == Len(b) < Limit

\* The body of the lock; otherwise 429.
CheckLocked(c) ==
    LET now == stamps[c]
        fresh == Fresh(bucket, now) IN
    /\ now # -1
    /\ IF Room(fresh)
       THEN /\ bucket' = Append(fresh, now)
            /\ admitted' = Append(admitted, monotonic)
       ELSE bucket' = fresh /\ UNCHANGED admitted
    /\ stamps' = [stamps EXCEPT ![c] = -1]
    /\ UNCHANGED monotonic

LimiterNext == Tick \/ \E c \in Callers : ReadClock(c) \/ CheckLocked(c)

LimiterSpec == LimiterInit /\ [][LimiterNext]_limiterVars

-----------------------------------------------------------------------------
\* However callers wait for the lock, and in whatever order their times come
\* in, a window holds at most "requests" admissions and one more for every
\* caller that waited since before it (rate_limit.py:24, :28).
LateAdmissionsAreFew ==
    \A t \in Ticks :
        Cardinality({i \in 1 .. Len(admitted) : admitted[i] \in t .. t + Window - 1})
            <= Limit + Cardinality(Callers)
=============================================================================
