--------------------------- MODULE MessagingProofs ---------------------------
(***************************************************************************)
(* For any users, conversations and requests, and pages of any size: the   *)
(* send is the idempotent store, and paging skips nothing.                 *)
(***************************************************************************)
EXTENDS Messaging, FiniteSetTheorems, TLAPS

USE MessagingAssumptions DEF Times

Sending == [phase: {"sending", "flushed", "raced"}, message: Message]
Creating == [phase: {"creating"}, user: Users, topic: Topic, now: Times]
Reading == [phase: {"reading"}, user: Users, conversation: Conversations, now: Times]

\* No step deletes the conversation a request is about.
HeldConversationsExist ==
    \A r \in Requests :
        /\ txn[r] \in Sending => conversation[txn[r].message.conversation] \in Conversation
        /\ txn[r] \in Reading => conversation[txn[r].conversation] \in Conversation

\* The row lock of a conversation, from the flush to the commit.
OneFlushPerConversation ==
    \A r, q \in Requests :
        txn[r].phase = "flushed" /\ txn[q].phase = "flushed"
            /\ txn[r].message.conversation = txn[q].message.conversation => r = q

\* The unique key: a flushed message is the first with its client id, and so was
\* every one that is committed.
FlushedIsFirst == \A r \in Requests : txn[r].phase = "flushed" => Prior(txn[r].message) = {}
OneMessagePerKey == \A m, n \in messages : SameKey(m, n) => m = n

SendInv == HeldConversationsExist /\ OneFlushPerConversation /\ FlushedIsFirst /\ OneMessagePerKey

Inv == TypeOK /\ SendInv

-----------------------------------------------------------------------------
(* The phase of a transaction tells what it holds.                          *)
LEMMA Phases ==
    ASSUME TypeOK, NEW r \in Requests
    PROVE  /\ txn[r].phase \in {"sending", "flushed", "raced"} => txn[r] \in Sending
           /\ txn[r].phase = "creating" => txn[r] \in Creating
           /\ txn[r].phase = "reading" => txn[r] \in Reading
<1>1. txn[r] \in Txn
  BY DEF TypeOK
<1> QED
  BY <1>1 DEF Txn, Idle, Sending, Creating, Reading

(* What each request does to the invariant, when it writes no row.           *)
LEMMA TransactionStep ==
    ASSUME Inv, NEW r \in Requests, NEW t \in Txn,
           txn' = [txn EXCEPT ![r] = t],
           UNCHANGED <<conversation, messages, reader>>, clock' \in Times,
           t \in Sending => conversation[t.message.conversation] \in Conversation,
           t \in Reading => conversation[t.conversation] \in Conversation,
           t.phase = "flushed" => /\ Prior(t.message) = {}
                                  /\ ConversationFree(t.message.conversation)
    PROVE  Inv'
<1>1. TypeOK'
  BY DEF Inv, TypeOK
<1>2. \A q \in Requests : txn'[q] = IF q = r THEN t ELSE txn[q]
  BY DEF Inv, TypeOK
<1>3. HeldConversationsExist'
  BY <1>2 DEF Inv, SendInv, HeldConversationsExist
<1>4. OneFlushPerConversation'
  BY <1>2 DEF Inv, SendInv, OneFlushPerConversation, ConversationFree, Flushed
<1>5. FlushedIsFirst' /\ OneMessagePerKey'
  BY <1>2 DEF Inv, SendInv, FlushedIsFirst, OneMessagePerKey, Prior, SameKey
<1> QED
  BY <1>1, <1>3, <1>4, <1>5 DEF Inv, SendInv

LEMMA IdleIsFree ==
    Idle \in Txn /\ Idle \notin Sending /\ Idle \notin Reading /\ Idle.phase = "idle"
  BY DEF Idle, Txn, Sending, Reading

(* A request that ends without having written.                              *)
LEMMA CloseStep ==
    ASSUME Inv, NEW r \in Requests, Close(r), UNCHANGED <<conversation, messages, clock, reader>>
    PROVE  Inv'
  BY IdleIsFree, TransactionStep DEF Close, Inv, TypeOK

LEMMA ParticipantsHaveRows ==
    ASSUME TypeOK, NEW c \in Conversations, NEW u \in Participants(c)
    PROVE  conversation[c] \in Conversation
  BY DEF TypeOK, Participants

LEMMA TopicsAreTopics == ASSUME NEW u \in Users PROVE Topics(u) \subseteq Topic
  BY DEF Topics, Topic

LEMMA CreateReadStep ==
    ASSUME Inv, NEW r \in Requests, NEW u \in Users, CreateRead(r, u)
    PROVE  Inv'
<1>1. PICK topic \in Topics(u) :
          txn' = [txn EXCEPT ![r] = [phase |-> "creating", user |-> u, topic |-> topic, now |-> clock]]
  BY DEF CreateRead
<1> DEFINE t == [phase |-> "creating", user |-> u, topic |-> topic, now |-> clock]
<1>2. t \in Txn /\ t \notin Sending /\ t \notin Reading /\ t.phase # "flushed"
  BY TopicsAreTopics DEF Txn, Sending, Reading, Inv, TypeOK
<1>3. UNCHANGED <<conversation, messages, clock, reader>>
  BY DEF CreateRead
<1> HIDE DEF t
<1> QED
  BY <1>1, <1>2, <1>3, TransactionStep DEF Inv, TypeOK, t

LEMMA CreateCommitStep ==
    ASSUME Inv, NEW r \in Requests, CreateCommit(r)
    PROVE  Inv'
<1>1. PICK c \in Conversations :
          /\ conversation[c] = None
          /\ conversation' = [conversation EXCEPT ![c] =
                 [topic |-> txn[r].topic,
                  lastMessageAt |-> txn[r].now,
                  lastReadAt |-> [u \in Users |-> IF u = txn[r].user THEN txn[r].now ELSE 0]]]
  BY DEF CreateCommit
<1>2. txn[r] \in Creating
  BY Phases DEF CreateCommit, Inv
<1>3. conversation' \in [Conversations -> Conversation \cup {None}]
      /\ \A d \in Conversations : conversation[d] \in Conversation => conversation'[d] \in Conversation
  BY <1>1, <1>2 DEF Inv, TypeOK, Conversation, Creating
<1>4. \A q \in Requests : txn'[q] = IF q = r THEN Idle ELSE txn[q]
  BY DEF CreateCommit, Close, Inv, TypeOK
<1>5. UNCHANGED <<messages, clock, reader>>
  BY DEF CreateCommit
<1>6. TypeOK'
  BY <1>3, <1>5, IdleIsFree DEF CreateCommit, Close, Inv, TypeOK
<1>7. HeldConversationsExist'
  BY <1>3, <1>4, IdleIsFree DEF Inv, SendInv, HeldConversationsExist, Sending, Reading, Message
<1>8. OneFlushPerConversation' /\ FlushedIsFirst' /\ OneMessagePerKey'
  BY <1>4, <1>5, IdleIsFree
     DEF Inv, SendInv, OneFlushPerConversation, FlushedIsFirst, OneMessagePerKey, Prior, SameKey
<1> QED
  BY <1>6, <1>7, <1>8 DEF Inv, SendInv

-----------------------------------------------------------------------------
(* The send.                                                                *)

LEMMA SendReadStep ==
    ASSUME Inv, NEW r \in Requests, NEW u \in Users, NEW c \in Conversations,
           NEW k \in Keys \cup {None}, NEW b \in Contents, SendRead(r, u, c, k, b)
    PROVE  Inv'
<1> DEFINE t == [phase |-> "sending", message |-> Draft(u, c, k, b)]
<1>1. clock + 1 \in Times
  BY DEF SendRead, Inv, TypeOK
<1>2. Draft(u, c, k, b) \in Message
  BY <1>1 DEF Draft, Message
<1>3. t \in Txn /\ t \notin Reading /\ t.phase # "flushed" /\ t.message.conversation = c
  BY <1>2 DEF Txn, Reading, Draft
<1>4. conversation[c] \in Conversation
  BY ParticipantsHaveRows DEF SendRead, Inv
<1>5. txn' = [txn EXCEPT ![r] = t] /\ clock' \in Times
      /\ UNCHANGED <<conversation, messages, reader>>
  BY <1>1 DEF SendRead
<1> HIDE DEF t
<1> QED
  BY <1>3, <1>4, <1>5, TransactionStep

LEMMA FlushStep ==
    ASSUME Inv, NEW r \in Requests, Flush(r)
    PROVE  Inv'
<1> DEFINE p == IF Prior(txn[r].message) = {} THEN "flushed" ELSE "raced"
           t == [txn[r] EXCEPT !.phase = p]
<1>1. txn[r] \in Sending
  BY Phases DEF Flush, Inv
<1>2. t \in Sending /\ t.message = txn[r].message /\ t.phase = p
  BY <1>1 DEF Sending
<1>3. t \in Txn /\ t \notin Reading
  BY <1>2 DEF Txn, Sending, Reading
<1>4. conversation[t.message.conversation] \in Conversation
  BY <1>1, <1>2 DEF Inv, SendInv, HeldConversationsExist
<1>5. txn' = [txn EXCEPT ![r] = t] /\ clock' \in Times
      /\ UNCHANGED <<conversation, messages, reader>>
  BY DEF Flush, Inv, TypeOK
<1>6. t.phase = "flushed" => Prior(t.message) = {} /\ ConversationFree(t.message.conversation)
  BY <1>2 DEF Flush
<1> HIDE DEF t
<1> QED
  BY <1>3, <1>4, <1>5, <1>6, TransactionStep

LEMMA SendCommitStep ==
    ASSUME Inv, NEW r \in Requests, SendCommit(r)
    PROVE  Inv'
<1> DEFINE m == txn[r].message
<1>1. txn[r] \in Sending /\ txn[r].phase = "flushed" /\ m \in Message
  BY Phases DEF SendCommit, Inv, Sending
<1>2. conversation[m.conversation] \in Conversation /\ m.conversation \in Conversations
  BY <1>1 DEF Inv, SendInv, HeldConversationsExist, Message
<1>3. /\ messages' = messages \cup {m}
      /\ conversation' = [conversation EXCEPT ![m.conversation].lastMessageAt = m.at,
                                              ![m.conversation].lastReadAt[m.sender] = m.at]
      /\ UNCHANGED <<clock, reader>>
      /\ txn' = [txn EXCEPT ![r] = Idle]
  BY DEF SendCommit, Close
<1>4. conversation' \in [Conversations -> Conversation \cup {None}]
      /\ \A d \in Conversations : conversation[d] \in Conversation => conversation'[d] \in Conversation
  BY <1>1, <1>2, <1>3 DEF Inv, TypeOK, Conversation, Message
<1>5. \A q \in Requests : txn'[q] = IF q = r THEN Idle ELSE txn[q]
  BY <1>3 DEF Inv, TypeOK
<1>6. TypeOK'
  BY <1>1, <1>3, <1>4, IdleIsFree DEF Inv, TypeOK
<1>7. HeldConversationsExist'
  BY <1>4, <1>5, IdleIsFree DEF Inv, SendInv, HeldConversationsExist, Sending, Reading, Message
<1>8. OneFlushPerConversation'
  BY <1>5, IdleIsFree DEF Inv, SendInv, OneFlushPerConversation
<1>9. OneMessagePerKey'
  BY <1>1, <1>3 DEF Inv, SendInv, FlushedIsFirst, OneMessagePerKey, Prior, SameKey
<1>10. ASSUME NEW q \in Requests, txn'[q].phase = "flushed" PROVE (Prior(txn[q].message) = {})'
  <2>1. q # r /\ txn'[q] = txn[q] /\ txn[q].phase = "flushed"
    BY <1>5, <1>10, IdleIsFree
  <2>2. Prior(txn[q].message) = {}
    BY <2>1 DEF Inv, SendInv, FlushedIsFirst
  <2>3. txn[q].message.conversation # m.conversation
    BY <1>1, <2>1 DEF Inv, SendInv, OneFlushPerConversation
  <2> QED
    BY <1>3, <2>1, <2>2, <2>3 DEF Prior, SameKey
<1> QED
  BY <1>6, <1>7, <1>8, <1>9, <1>10 DEF Inv, SendInv, FlushedIsFirst

LEMMA MarkReadStep ==
    ASSUME Inv, NEW r \in Requests, NEW u \in Users, NEW c \in Conversations, MarkRead(r, u, c)
    PROVE  Inv'
<1> DEFINE t == [phase |-> "reading", user |-> u, conversation |-> c, now |-> clock]
<1>1. t \in Txn /\ t \notin Sending /\ t.phase # "flushed" /\ t.conversation = c
  BY DEF Txn, Sending, Inv, TypeOK
<1>2. conversation[c] \in Conversation
  BY ParticipantsHaveRows DEF MarkRead, Inv
<1>3. txn' = [txn EXCEPT ![r] = t] /\ clock' \in Times
      /\ UNCHANGED <<conversation, messages, reader>>
  BY DEF MarkRead, Inv, TypeOK
<1> HIDE DEF t
<1> QED
  BY <1>1, <1>2, <1>3, TransactionStep

LEMMA MarkCommitStep ==
    ASSUME Inv, NEW r \in Requests, MarkCommit(r)
    PROVE  Inv'
<1>1. txn[r] \in Reading
  BY Phases DEF MarkCommit, Inv
<1>2. conversation[txn[r].conversation] \in Conversation
  BY <1>1 DEF Inv, SendInv, HeldConversationsExist
<1>3. conversation' \in [Conversations -> Conversation \cup {None}]
      /\ \A d \in Conversations : conversation[d] \in Conversation => conversation'[d] \in Conversation
  BY <1>1, <1>2 DEF MarkCommit, Inv, TypeOK, Conversation, Reading
<1>4. \A q \in Requests : txn'[q] = IF q = r THEN Idle ELSE txn[q]
  BY DEF MarkCommit, Close, Inv, TypeOK
<1>5. TypeOK'
  BY <1>3, IdleIsFree DEF MarkCommit, Close, Inv, TypeOK
<1>6. HeldConversationsExist'
  BY <1>3, <1>4, IdleIsFree DEF Inv, SendInv, HeldConversationsExist, Sending, Reading, Message
<1>7. OneFlushPerConversation' /\ FlushedIsFirst' /\ OneMessagePerKey'
  BY <1>4, IdleIsFree
     DEF MarkCommit, Inv, SendInv, OneFlushPerConversation, FlushedIsFirst, OneMessagePerKey,
         Prior, SameKey
<1> QED
  BY <1>5, <1>6, <1>7 DEF Inv, SendInv

(* Reading a page.                                                          *)
LEMMA PageStep ==
    ASSUME Inv, NEW u \in Readers, NEW c \in Conversations \cup {None}, NEW offset \in Nat,
           NEW due \in SUBSET Message, NEW seen \in SUBSET Message,
           ReadPage(u, c, offset, due, seen), UNCHANGED <<conversation, messages, clock, txn>>
    PROVE  Inv'
<1>1. seen \cup Slice(c, offset) \in SUBSET Message
  BY DEF Slice, In, Inv, TypeOK
<1>2. NextOffset(offset) \in Nat
  BY DEF NextOffset
<1>3. reader' \in [Readers -> Page]
  BY <1>1, <1>2 DEF ReadPage, Page, Inv, TypeOK
<1> QED
  BY <1>3 DEF Inv, TypeOK, SendInv, HeldConversationsExist, OneFlushPerConversation,
              FlushedIsFirst, OneMessagePerKey, Prior, SameKey

LEMMA FirstPageStep ==
    ASSUME Inv, NEW u \in Readers, NEW c \in Conversations, FirstPage(u, c)
    PROVE  Inv'
<1>1. In(c) \in SUBSET Message /\ {} \in SUBSET Message /\ 0 \in Nat
  BY DEF In, Inv, TypeOK
<1>2. ReadPage(u, c, 0, In(c), {}) /\ UNCHANGED <<conversation, messages, clock, txn>>
  BY DEF FirstPage
<1> QED
  BY <1>1, <1>2, PageStep

LEMMA NextPageStep ==
    ASSUME Inv, NEW u \in Readers, NextPage(u)
    PROVE  Inv'
<1>1. reader[u] \in Page
  BY DEF Inv, TypeOK
<1> QED
  BY <1>1, PageStep DEF NextPage, Page

LEMMA InvInit == Init => Inv
<1> SUFFICES ASSUME Init PROVE Inv
  OBVIOUS
<1>1. TypeOK
  BY IdleIsFree DEF Init, TypeOK, Page
<1>2. SendInv
  BY IdleIsFree DEF Init, SendInv, HeldConversationsExist, OneFlushPerConversation, FlushedIsFirst,
                    OneMessagePerKey
<1> QED
  BY <1>1, <1>2 DEF Inv

LEMMA InvStep == Inv /\ [Next]_vars => Inv'
<1> SUFFICES ASSUME Inv, [Next]_vars PROVE Inv'
  OBVIOUS
<1>1. CASE UNCHANGED vars
  BY <1>1 DEF vars, Inv, TypeOK, SendInv, HeldConversationsExist, OneFlushPerConversation,
              FlushedIsFirst, OneMessagePerKey, Prior, SameKey
<1>2. ASSUME NEW r \in Requests, NEW u \in Users, NEW c \in Conversations,
             NEW k \in Keys \cup {None}, NEW b \in Contents, SendAgain(r, u, c, k, b)
      PROVE  Inv'
  BY <1>2 DEF SendAgain, Inv, TypeOK, SendInv, HeldConversationsExist, OneFlushPerConversation,
              FlushedIsFirst, OneMessagePerKey, Prior, SameKey
<1>3. ASSUME NEW r \in Requests, Send(r) PROVE Inv'
  BY <1>2, <1>3, SendReadStep DEF Send
<1>4. ASSUME NEW r \in Requests, SendRaced(r) PROVE Inv'
  BY <1>4, CloseStep DEF SendRaced
<1>5. ASSUME NEW r \in Requests, Abort(r) PROVE Inv'
  BY <1>5, CloseStep DEF Abort
<1>6. ASSUME NEW r \in Requests, NEW u \in Readers, NEW c \in Conversations, MarkRead(r, u, c)
      PROVE  Inv'
  <2>1. u \in Users
    OBVIOUS
  <2> QED
    BY <1>6, <2>1, MarkReadStep
<1>7. ASSUME NEW r \in Requests, NEW u \in Users, CreateRead(r, u) PROVE Inv'
  BY <1>7, CreateReadStep
<1> QED
  BY <1>1, <1>3, <1>4, <1>5, <1>6, <1>7, CreateCommitStep, FlushStep, SendCommitStep,
     MarkCommitStep, FirstPageStep, NextPageStep DEF Next

(* Every variable keeps its declared shape.                                 *)
THEOREM MessagingTypeCorrect == Spec => []TypeOK
<1>1. Inv => TypeOK
  BY DEF Inv
<1> QED
  BY <1>1, InvInit, InvStep, PTL DEF Spec

LEMMA Invariant == Spec => []Inv
  BY InvInit, InvStep, PTL DEF Spec

-----------------------------------------------------------------------------
(* The send is a step of the idempotent store.                              *)

KeyOf(m) == <<m.conversation, m.sender, m.key>>

\* What the store has under the key of a message.
LEMMA StoredIsPrior ==
    ASSUME Inv, NEW m, m.conversation \in Conversations, m.sender \in Users, m.key \in Keys
    PROVE  /\ KeyOf(m) \in StoreKeys
           /\ Prior(m) = {} => storedMessage[KeyOf(m)] = None
           /\ \A n \in Prior(m) : storedMessage[KeyOf(m)] = [request |-> n.content, result |-> n.at]
<1>1. KeyOf(m) \in StoreKeys
  BY DEF KeyOf, StoreKeys
<1>2. Prior(m) = Under(KeyOf(m))
  BY DEF Prior, Under, SameKey, KeyOf
<1>3. ASSUME NEW n \in Under(KeyOf(m)) PROVE Under(KeyOf(m)) = {n}
  BY <1>3 DEF Under, KeyOf, Inv, SendInv, OneMessagePerKey, SameKey
<1>4. ASSUME NEW n \in Under(KeyOf(m))
      PROVE  storedMessage[KeyOf(m)] = [request |-> n.content, result |-> n.at]
  <2>1. (CHOOSE o \in Under(KeyOf(m)) : TRUE) = n
    BY <1>3
  <2> QED
    BY <1>1, <1>4, <2>1 DEF storedMessage
<1>5. Under(KeyOf(m)) = {} => storedMessage[KeyOf(m)] = None
  BY <1>1 DEF storedMessage
<1> QED
  BY <1>1, <1>2, <1>4, <1>5

\* An answer that finds the message of its key stored.
LEMMA ReplayImplements ==
    ASSUME Inv, NEW m, m.conversation \in Conversations, m.sender \in Users,
           m.key \in Keys \cup {None}, m.content \in Contents,
           NEW n \in Prior(m), Respond(m, n), UNCHANGED messages
    PROVE  [Store!Next]_Store!vars
<1> DEFINE k == KeyOf(m)
           f == m.content
<1>1. m.key \in Keys
  BY DEF Prior, SameKey
<1>2. k \in StoreKeys /\ storedMessage[k] = [request |-> n.content, result |-> n.at]
  BY <1>1, StoredIsPrior
<1>3. storedMessage[k] # None
  BY <1>2 DEF Prior, Inv, TypeOK, Message
<1>4. UNCHANGED storedMessage
  BY DEF storedMessage, Under
<1>5. answers' \in {answers, answers \cup {[key |-> k, request |-> f,
          result |-> IF f = n.content THEN n.at ELSE None]}}
  BY <1>1 DEF Respond, Replayed, KeyOf
<1> HIDE DEF k, f
<1>6. CASE f = n.content
  <2>1. Store!Replay(k, f)
    BY <1>2, <1>3, <1>4, <1>5, <1>6 DEF Store!Replay, Store!Received
  <2> QED
    BY <1>2, <2>1 DEF Store!Next, f
<1>7. CASE f # n.content
  <2>1. Store!Refuse(k, f)
    BY <1>2, <1>3, <1>4, <1>5, <1>7 DEF Store!Refuse, Store!Received
  <2> QED
    BY <1>2, <2>1 DEF Store!Next, f
<1> QED
  BY <1>6, <1>7

LEMMA SendAgainImplements ==
    ASSUME Inv, NEW r \in Requests, NEW u \in Users, NEW c \in Conversations,
           NEW k \in Keys \cup {None}, NEW b \in Contents, SendAgain(r, u, c, k, b)
    PROVE  [Store!Next]_Store!vars
<1> DEFINE m == Draft(u, c, k, b)
<1>1. m.conversation \in Conversations /\ m.sender \in Users /\ m.key \in Keys \cup {None}
      /\ m.content \in Contents
  BY DEF Draft
<1>2. PICK n \in Prior(m) : Respond(m, n) /\ UNCHANGED messages
  BY DEF SendAgain
<1> HIDE DEF m
<1> QED
  BY <1>1, <1>2, ReplayImplements

LEMMA SendRacedImplements ==
    ASSUME Inv, NEW r \in Requests, SendRaced(r)
    PROVE  [Store!Next]_Store!vars
<1> DEFINE m == txn[r].message
<1>1. m \in Message
  BY Phases DEF SendRaced, Inv, Sending
<1>2. PICK n \in Prior(m) : Respond(m, n) /\ UNCHANGED messages
  BY DEF SendRaced
<1> HIDE DEF m
<1> QED
  BY <1>1, <1>2, ReplayImplements DEF Message

LEMMA SendCommitImplements ==
    ASSUME Inv, NEW r \in Requests, SendCommit(r)
    PROVE  [Store!Next]_Store!vars
<1> PICK m : m = txn[r].message
  OBVIOUS
<1> DEFINE k == KeyOf(m)
<1>1. m \in Message /\ Prior(m) = {}
  BY Phases DEF SendCommit, Inv, Sending, SendInv, FlushedIsFirst
<1>2. messages' = messages \cup {m} /\ Respond(m, m)
  BY DEF SendCommit
<1>3. \A j \in StoreKeys : j # k => (Under(j))' = Under(j)
  BY <1>2 DEF Under, KeyOf
<1>4. CASE m.key = None
  <2>1. k \notin StoreKeys
    BY <1>4 DEF KeyOf, StoreKeys
  <2>2. UNCHANGED storedMessage
    BY <1>3, <2>1 DEF storedMessage
  <2>3. UNCHANGED answers
    BY <1>2, <1>4 DEF Respond
  <2> QED
    BY <2>2, <2>3 DEF Store!vars
<1>5. CASE m.key # None
  <2>1. m.key \in Keys /\ k \in StoreKeys /\ storedMessage[k] = None
    BY <1>1, <1>5, StoredIsPrior DEF Message
  <2>2. (Under(k))' = {m}
    BY <1>1, <1>2, <1>5 DEF Under, KeyOf, Prior, SameKey
  <2>3. \A j \in StoreKeys : storedMessage'[j] =
            IF j = k THEN [request |-> m.content, result |-> m.at] ELSE storedMessage[j]
    BY <1>3, <2>2 DEF storedMessage
  <2>4. storedMessage' = [storedMessage EXCEPT ![k] = [request |-> m.content, result |-> m.at]]
    BY <2>3 DEF storedMessage
  <2>5. answers' \in {answers, answers \cup {[key |-> k, request |-> m.content, result |-> m.at]}}
    BY <1>2, <1>5 DEF Respond, Replayed, KeyOf
  <2> HIDE DEF k
  <2>6. Store!Put(k, m.content, m.at)
    BY <2>1, <2>4, <2>5 DEF Store!Put, Store!Received
  <2> QED
    BY <1>1, <2>1, <2>6 DEF Store!Next, Message
<1> QED
  BY <1>4, <1>5

LEMMA StepImplements ==
    ASSUME Inv, [Next]_vars
    PROVE  [Store!Next]_Store!vars
<1>1. ASSUME UNCHANGED <<messages, answers>> PROVE [Store!Next]_Store!vars
  BY <1>1 DEF Store!vars, storedMessage, Under
<1>2. CASE UNCHANGED vars
  BY <1>1, <1>2 DEF vars
<1>3. ASSUME NEW r \in Requests,
             \/ \E u \in Users : CreateRead(r, u)
             \/ CreateCommit(r)
             \/ Flush(r)
             \/ \E u \in Readers, c \in Conversations : MarkRead(r, u, c)
             \/ MarkCommit(r)
             \/ Abort(r)
      PROVE  UNCHANGED <<messages, answers>>
  BY <1>3 DEF CreateRead, CreateCommit, Flush, MarkRead, MarkCommit, Abort
<1>4. ASSUME NEW r \in Requests, Send(r) PROVE [Store!Next]_Store!vars
  <2>1. PICK u \in Users, c \in Conversations, k \in Keys \cup {None}, b \in Contents :
            SendAgain(r, u, c, k, b) \/ SendRead(r, u, c, k, b)
    BY <1>4 DEF Send
  <2>2. CASE SendAgain(r, u, c, k, b)
    BY <2>2, SendAgainImplements
  <2>3. CASE SendRead(r, u, c, k, b)
    BY <1>1, <2>3 DEF SendRead
  <2> QED
    BY <2>1, <2>2, <2>3
<1>5. ASSUME NEW u \in Readers, (\E c \in Conversations : FirstPage(u, c)) \/ NextPage(u)
      PROVE  UNCHANGED <<messages, answers>>
  BY <1>5 DEF FirstPage, NextPage
<1> QED
  BY <1>1, <1>2, <1>3, <1>4, <1>5, SendRacedImplements, SendCommitImplements DEF Next

(* send_message implements IdempotentStore: however retries of a send race  *)
(* with the first try, and with other sends to the conversation, each       *)
(* client_message_id has one message and its answers agree                  *)
(* (messaging.py:515-535, 551-575).                                         *)
THEOREM MessagesAreIdempotent == Spec => SendIsIdempotent
<1>1. Init => Store!Init
  BY DEF Init, Store!Init, storedMessage, Under
<1> QED
  BY <1>1, Invariant, StepImplements, PTL DEF Spec, SendIsIdempotent, Store!Spec

-----------------------------------------------------------------------------
(* Paging.                                                                  *)

Newer(m) == {n \in In(m.conversation) : n.at > m.at}

\* What a reader is still due is there, behind its cursor; it is given the rest
\* of the list before it is told that there is no more.
DueIsAhead(u) ==
    \A m \in reader[u].due \ reader[u].seen :
        /\ m \in messages /\ m.conversation = reader[u].conversation
        /\ Cardinality(Newer(m)) >= reader[u].offset
        /\ reader[u].more

PageInv ==
    /\ TypeOK
    /\ IsFiniteSet(messages)
    /\ \A u \in Readers : DueIsAhead(u)

LEMMA InIsFinite ==
    ASSUME IsFiniteSet(messages), NEW c, NEW m
    PROVE  /\ IsFiniteSet(In(c)) /\ Cardinality(In(c)) \in Nat
           /\ IsFiniteSet(Newer(m)) /\ Cardinality(Newer(m)) \in Nat
<1>1. In(c) \in SUBSET messages /\ Newer(m) \in SUBSET messages
  BY DEF In, Newer
<1> QED
  BY <1>1, FS_Subset, FS_CardinalityType

\* Messages are only added, which pushes others back.
LEMMA PostedKeepsPages ==
    ASSUME PageInv, TypeOK', messages \subseteq messages', IsFiniteSet(messages'),
           UNCHANGED reader
    PROVE  PageInv'
<1>1. ASSUME NEW u \in Readers, NEW m \in reader[u].due \ reader[u].seen
      PROVE  Cardinality(Newer(m))' >= reader[u].offset
  <2>1. Newer(m) \in SUBSET (Newer(m))'
    BY DEF Newer, In
  <2>2. IsFiniteSet((Newer(m))')
    <3>1. (Newer(m))' \in SUBSET messages'
      BY DEF Newer, In
    <3> QED
      BY <3>1, FS_Subset
  <2>3. Cardinality(Newer(m)) <= Cardinality((Newer(m))') /\ Cardinality((Newer(m))') \in Nat
    BY <2>1, <2>2, FS_Subset, FS_CardinalityType
  <2>4. Cardinality(Newer(m)) >= reader[u].offset /\ Cardinality(Newer(m)) \in Nat
    BY InIsFinite DEF PageInv, DueIsAhead
  <2>5. reader[u].offset \in Nat
    BY DEF PageInv, TypeOK, Page
  <2> QED
    BY <2>3, <2>4, <2>5
<1> QED
  BY <1>1 DEF PageInv, DueIsAhead

\* A page gives all that is due up to its end, and is the last only if that is
\* the end of the list.
LEMMA PageIsAhead ==
    ASSUME PageInv, TypeOK', NEW u \in Readers, NEW c, NEW offset \in Nat, NEW due, NEW seen,
           ReadPage(u, c, offset, due, seen), UNCHANGED messages,
           \A m \in due \ seen : /\ m \in messages /\ m.conversation = c
                                 /\ Cardinality(Newer(m)) >= offset
    PROVE  PageInv'
<1>1. reader'[u] = [conversation |-> c, offset |-> offset + PageSize,
                    more |-> Cardinality(In(c)) > offset + PageSize,
                    due |-> due, seen |-> seen \cup Slice(c, offset)]
      /\ \A v \in Readers \ {u} : reader'[v] = reader[v]
  BY DEF ReadPage, NextOffset, PageInv, TypeOK
<1>2. ASSUME NEW m \in due \ (seen \cup Slice(c, offset))
      PROVE  /\ Cardinality(Newer(m)) >= offset + PageSize
             /\ Cardinality(In(c)) > offset + PageSize
  <2>1. m \in In(c) /\ Newer(m) = {n \in In(c) : n.at > m.at}
    BY DEF In, Newer
  <2>2. Cardinality(Newer(m)) \in Nat /\ Cardinality(In(c)) \in Nat /\ IsFiniteSet(In(c))
    BY InIsFinite DEF PageInv
  <2>3. Cardinality(Newer(m)) \notin offset .. offset + PageSize - 1
    BY <2>1 DEF Slice
  <2>4. Cardinality(Newer(m)) >= offset + PageSize
    BY <2>2, <2>3
  <2>5. m \notin Newer(m) /\ Newer(m) \in SUBSET In(c)
    BY <2>1 DEF PageInv, TypeOK, In, Message
  <2>6. Cardinality(Newer(m)) < Cardinality(In(c))
    BY <2>1, <2>2, <2>5, FS_Subset
  <2> QED
    BY <2>2, <2>4, <2>6
<1>3. \A m : (Newer(m))' = Newer(m)
  BY DEF Newer, In
<1>4. DueIsAhead(u)'
  <2>1. reader'[u].due = due /\ reader'[u].seen = seen \cup Slice(c, offset)
        /\ reader'[u].conversation = c /\ reader'[u].offset = offset + PageSize
        /\ reader'[u].more = (Cardinality(In(c)) > offset + PageSize)
    BY <1>1
  <2>2. \A m \in due \ (seen \cup Slice(c, offset)) :
            /\ m \in messages' /\ m.conversation = c
            /\ Cardinality(Newer(m))' >= offset + PageSize
            /\ Cardinality(In(c)) > offset + PageSize
    BY <1>2, <1>3
  <2> QED
    BY <2>1, <2>2 DEF DueIsAhead
<1>5. \A v \in Readers \ {u} : DueIsAhead(v)'
  BY <1>1, <1>3 DEF PageInv, DueIsAhead
<1> QED
  BY <1>4, <1>5 DEF PageInv

LEMMA PageInvStep ==
    ASSUME Inv, Inv', PageInv, [Next]_vars
    PROVE  PageInv'
<1>1. TypeOK'
  BY DEF Inv
<1>2. ASSUME UNCHANGED <<messages, reader>> PROVE PageInv'
  BY <1>1, <1>2, PostedKeepsPages DEF PageInv
<1>3. ASSUME NEW r \in Requests,
             \/ \E u \in Users : CreateRead(r, u)
             \/ CreateCommit(r)
             \/ Send(r)
             \/ Flush(r)
             \/ SendRaced(r)
             \/ \E u \in Readers, c \in Conversations : MarkRead(r, u, c)
             \/ MarkCommit(r)
             \/ Abort(r)
      PROVE  UNCHANGED <<messages, reader>>
  BY <1>3 DEF CreateRead, CreateCommit, Send, SendAgain, SendRead, Flush, SendRaced, MarkRead,
              MarkCommit, Abort
<1>4. ASSUME NEW r \in Requests, SendCommit(r) PROVE PageInv'
  <2>1. messages' = messages \cup {txn[r].message} /\ UNCHANGED reader
    BY <1>4 DEF SendCommit
  <2>2. IsFiniteSet(messages')
    BY <2>1, FS_AddElement DEF PageInv
  <2> QED
    BY <1>1, <2>1, <2>2, PostedKeepsPages
<1>5. ASSUME NEW u \in Readers, NEW c \in Conversations, FirstPage(u, c) PROVE PageInv'
  <2>1. ReadPage(u, c, 0, In(c), {}) /\ UNCHANGED messages
    BY <1>5 DEF FirstPage
  <2>2. \A m \in In(c) : Cardinality(Newer(m)) \in Nat
    BY InIsFinite DEF PageInv
  <2>3. \A m \in In(c) \ {} : /\ m \in messages /\ m.conversation = c
                             /\ Cardinality(Newer(m)) >= 0
    BY <2>2 DEF In
  <2> QED
    BY <1>1, <2>1, <2>3, PageIsAhead
<1>6. ASSUME NEW u \in Readers, NextPage(u) PROVE PageInv'
  <2>1. reader[u].offset \in Nat
    BY DEF PageInv, TypeOK, Page
  <2>2. ReadPage(u, reader[u].conversation, reader[u].offset, reader[u].due, reader[u].seen)
        /\ UNCHANGED messages
    BY <1>6 DEF NextPage
  <2>3. \A m \in reader[u].due \ reader[u].seen :
            /\ m \in messages /\ m.conversation = reader[u].conversation
            /\ Cardinality(Newer(m)) >= reader[u].offset
    BY DEF PageInv, DueIsAhead
  <2> QED
    BY <1>1, <2>1, <2>2, <2>3, PageIsAhead
<1> QED
  BY <1>2, <1>3, <1>4, <1>5, <1>6 DEF Next, vars

(* A client that pages to the end of a message list has seen every message  *)
(* that was there when it began, with pages of any size and whatever is     *)
(* posted or committed late between them (messaging.py:428-457).            *)
THEOREM PagesSkipNothing == Spec => []PagingSkipsNothing
<1>1. Init => PageInv
  <2>1. Init => TypeOK /\ messages = {}
    BY InvInit DEF Inv, Init
  <2>2. Init => \A u \in Readers : DueIsAhead(u)
    BY DEF Init, DueIsAhead
  <2> QED
    BY <2>1, <2>2, FS_EmptySet DEF PageInv
<1>2. PageInv => PagingSkipsNothing
  BY DEF PageInv, DueIsAhead, PagingSkipsNothing
<1> QED
  BY <1>1, <1>2, Invariant, PageInvStep, PTL DEF Spec
=============================================================================
