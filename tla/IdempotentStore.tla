--------------------------- MODULE IdempotentStore ---------------------------
(***************************************************************************)
(* What an endpoint with an idempotency key promises its callers: the      *)
(* first request with a key takes effect, once; every later one with the   *)
(* same content is answered with the stored result, and one with another   *)
(* content is refused.  An answer may be lost, and a caller may retry at   *)
(* any time.  Messaging (client_message_id) and Cart                       *)
(* (idempotency_key) implement it.                                         *)
(***************************************************************************)
CONSTANTS Keys, Requests, Results, None

VARIABLES
    stored,     \* what took effect under each key
    answers     \* history: every answer a caller received

vars == <<stored, answers>>

Entry == [request: Requests, result: Results]
Answer == [key: Keys, request: Requests, result: Results \cup {None}]

TypeOK ==
    /\ stored \in [Keys -> Entry \cup {None}]
    /\ answers \subseteq Answer

Init ==
    /\ stored = [k \in Keys |-> None]
    /\ answers = {}

\* An answer is received or lost.
Received(a) == answers' \in {answers, answers \cup {a}}

\* The first request with key k takes effect.
Put(k, r, v) ==
    /\ stored[k] = None
    /\ stored' = [stored EXCEPT ![k] = [request |-> r, result |-> v]]
    /\ Received([key |-> k, request |-> r, result |-> v])

\* A request with the content that is stored gets the stored result.
Replay(k, r) ==
    /\ stored[k] # None
    /\ stored[k].request = r
    /\ Received([key |-> k, request |-> r, result |-> stored[k].result])
    /\ UNCHANGED stored

\* A request with another content is refused.
Refuse(k, r) ==
    /\ stored[k] # None
    /\ stored[k].request # r
    /\ Received([key |-> k, request |-> r, result |-> None])
    /\ UNCHANGED stored

Next ==
    \E k \in Keys, r \in Requests :
        \/ \E v \in Results : Put(k, r, v)
        \/ Replay(k, r)
        \/ Refuse(k, r)

Spec == Init /\ [][Next]_vars

-----------------------------------------------------------------------------
(* Two callers that succeeded with the same key asked for the same and got *)
(* the same result; a refused one asked for something else than a caller   *)
(* that succeeded.                                                         *)
AnswersAgree ==
    \A a, b \in answers :
        a.key = b.key /\ b.result # None =>
            IF a.result = None
            THEN a.request # b.request
            ELSE a.request = b.request /\ a.result = b.result
=============================================================================
