------------------------ MODULE IdempotentStoreProofs ------------------------
(* What follows from the promise of IdempotentStore alone, and so for every *)
(* module that implements it.                                               *)
EXTENDS IdempotentStore, TLAPS

\* What an answer says of the store.
Backed(a) ==
    /\ stored[a.key] # None
    /\ IF a.result = None
       THEN a.request # stored[a.key].request
       ELSE a.request = stored[a.key].request /\ a.result = stored[a.key].result

AnswersBacked == \A a \in answers : Backed(a)

Inv == TypeOK /\ AnswersBacked

(* A stored entry is never replaced, and an answer that was backed stays so. *)
LEMMA EntriesStay ==
    ASSUME Inv, Next
    PROVE  /\ \A k \in Keys : stored[k] # None => stored'[k] = stored[k]
           /\ \A a \in answers : Backed(a)'
<1>1. \A k \in Keys : stored[k] # None => stored'[k] = stored[k]
  BY DEF Inv, TypeOK, Next, Put, Replay, Refuse
<1>2. \A a \in answers : a.key \in Keys
  BY DEF Inv, TypeOK, Answer
<1>3. \A a \in answers : Backed(a)'
  BY <1>1, <1>2 DEF Inv, AnswersBacked, Backed
<1> QED
  BY <1>1, <1>3

(* The shape of the store is kept.  *)
LEMMA TypeStep ==
    ASSUME Inv, Next
    PROVE  TypeOK'
<1>1. PICK k \in Keys, r \in Requests :
          (\E v \in Results : Put(k, r, v)) \/ Replay(k, r) \/ Refuse(k, r)
  BY DEF Next
<1>2. CASE \E v \in Results : Put(k, r, v)
  <2>1. PICK v \in Results : Put(k, r, v)
    BY <1>2
  <2>2. [request |-> r, result |-> v] \in Entry
    BY DEF Entry
  <2>3. [key |-> k, request |-> r, result |-> v] \in Answer
    BY DEF Answer
  <2> QED
    BY <2>1, <2>2, <2>3 DEF Put, Received, Inv, TypeOK
<1>3. CASE Replay(k, r)
  <2>1. stored[k] \in Entry
    BY <1>3 DEF Replay, Inv, TypeOK
  <2>2. [key |-> k, request |-> r, result |-> stored[k].result] \in Answer
    BY <2>1 DEF Entry, Answer
  <2> QED
    BY <1>3, <2>2 DEF Replay, Received, Inv, TypeOK
<1>4. CASE Refuse(k, r)
  <2>1. [key |-> k, request |-> r, result |-> None] \in Answer
    BY DEF Answer
  <2> QED
    BY <1>4, <2>1 DEF Refuse, Received, Inv, TypeOK
<1> QED
  BY <1>1, <1>2, <1>3, <1>4

(* Every answer given is backed by the store, then and later.               *)
LEMMA BackedStep ==
    ASSUME Inv, Next, None \notin Results, None \notin Entry
    PROVE  AnswersBacked'
<1>1. PICK k \in Keys, r \in Requests :
          (\E v \in Results : Put(k, r, v)) \/ Replay(k, r) \/ Refuse(k, r)
  BY DEF Next
<1>2. \A a \in answers : Backed(a)'
  BY EntriesStay
<1>3. CASE \E v \in Results : Put(k, r, v)
  <2>1. PICK v \in Results : Put(k, r, v)
    BY <1>3
  <2>2. stored'[k] = [request |-> r, result |-> v] /\ stored'[k] # None
    BY <2>1 DEF Put, Inv, TypeOK, Entry
  <2>3. Backed([key |-> k, request |-> r, result |-> v])'
    BY <2>2 DEF Backed
  <2> QED
    BY <1>2, <2>1, <2>3 DEF Put, Received, AnswersBacked
<1>4. CASE Replay(k, r)
  <2>1. stored[k] \in Entry /\ stored[k].result # None /\ stored' = stored
    BY <1>4 DEF Replay, Inv, TypeOK, Entry
  <2>2. Backed([key |-> k, request |-> r, result |-> stored[k].result])'
    BY <1>4, <2>1 DEF Replay, Backed
  <2> QED
    BY <1>2, <1>4, <2>2 DEF Replay, Received, AnswersBacked
<1>5. CASE Refuse(k, r)
  <2>1. Backed([key |-> k, request |-> r, result |-> None])'
    BY <1>5 DEF Refuse, Backed
  <2> QED
    BY <1>2, <1>5, <2>1 DEF Refuse, Received, AnswersBacked
<1> QED
  BY <1>1, <1>3, <1>4, <1>5

(* Whoever asks with one key and succeeds gets one result, for one content,  *)
(* and is refused only with another content: what a client that retries      *)
(* POST /messages or POST /cart/order-card relies on.                        *)
THEOREM CallersAgree ==
    ASSUME None \notin Results, None \notin Entry
    PROVE  Spec => []AnswersAgree
<1>1. Init => Inv
  BY DEF Init, Inv, TypeOK, AnswersBacked
<1>2. Inv /\ [Next]_vars => Inv'
  <2>1. SUFFICES ASSUME Inv, [Next]_vars PROVE Inv'
    OBVIOUS
  <2>2. CASE UNCHANGED vars
    BY <2>1, <2>2 DEF vars, Inv, TypeOK, AnswersBacked, Backed
  <2>3. CASE Next
    BY <2>1, <2>3, TypeStep, BackedStep DEF Inv
  <2> QED
    BY <2>1, <2>2, <2>3
<1>3. Inv => AnswersAgree
  BY DEF Inv, TypeOK, AnswersBacked, Backed, AnswersAgree, Answer
<1> QED
  BY <1>1, <1>2, <1>3, PTL DEF Spec
=============================================================================
