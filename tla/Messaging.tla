------------------------------ MODULE Messaging ------------------------------
(***************************************************************************)
(* Conversations and messages (app/services/messaging.py): opening a       *)
(* conversation, the idempotent send, read receipts, and the paging of a   *)
(* message list.                                                           *)
(*                                                                         *)
(* A request is one READ COMMITTED transaction, cut where it acts on what  *)
(* it read earlier: a send looks its client_message_id up, draws `now',    *)
(* flushes (the conversation row stays locked from there), and commits.    *)
(* Time is abstract: each send draws a new tick of `clock', which then     *)
(* identifies its message; the other timestamps only compare with those.   *)
(***************************************************************************)
EXTENDS Integers, FiniteSets

CONSTANTS
    Users,
    Readers,        \* bound of the model: users that read lists
    Guests,         \* users.is_guest
    Restaurants,
    Staff,          \* Staff[r]: _restaurant_staff_ids
    Scope,          \* Scope[g]: auth_sessions.qr_restaurant_id of a guest
    Conversations,  \* ids of conversations rows
    Keys,           \* client_message_id values
    Contents,       \* body, kind and attachment of a message
    Requests,       \* requests served at the same time
    PageSize,       \* limit of a message list
    None,
    MaxTime         \* bound of the model: messages that are drafted

Times == 0 .. MaxTime

ASSUME MessagingAssumptions ==
    /\ Guests \cup Readers \subseteq Users
    /\ Staff \in [Restaurants -> SUBSET Users]
    /\ Scope \in [Guests -> Restaurants \cup {None}]
    /\ PageSize \in Nat \ {0}
    /\ MaxTime \in Nat
    /\ None \notin Times \cup Keys \cup [request: Contents, result: Times]

VARIABLES
    conversation,   \* conversations with conversation_participants
    messages,       \* committed messages
    clock,
    txn,            \* per request: the open transaction
    reader,         \* per reader: a client paging through a message list
    answers         \* history: what send_message answered

vars == <<conversation, messages, clock, txn, reader, answers>>

Topic == [kind: {"direct", "restaurant"}, restaurant: Restaurants \cup {None},
          members: SUBSET Users]
Conversation == [topic: Topic, lastMessageAt: Times, lastReadAt: [Users -> Times]]
Message == [conversation: Conversations, sender: Users, key: Keys \cup {None},
            content: Contents, at: Times]

Idle == [phase |-> "idle"]
Txn == {Idle}
    \cup [phase: {"creating"}, user: Users, topic: Topic, now: Times]
    \cup [phase: {"reading"}, user: Users, conversation: Conversations, now: Times]
    \cup [phase: {"sending", "flushed", "raced"}, message: Message]
Page == [conversation: Conversations \cup {None}, offset: Nat, more: BOOLEAN,
         due: SUBSET Message, seen: SUBSET Message]

TypeOK ==
    /\ conversation \in [Conversations -> Conversation \cup {None}]
    /\ messages \subseteq Message
    /\ clock \in Times
    /\ txn \in [Requests -> Txn]
    /\ reader \in [Readers -> Page]

-----------------------------------------------------------------------------
Close(r) == txn' = [txn EXCEPT ![r] = Idle]
Participants(c) == IF conversation[c] = None THEN {} ELSE conversation[c].topic.members

\* What create_conversation accepts from user u: one peer, or staff of a
\* published restaurant; a guest only its scoped restaurant.
Topics(u) ==
    [kind: {"direct"}, restaurant: {None},
     members: IF u \in Guests THEN {} ELSE {{u, v} : v \in Users \ {u}}]
    \cup UNION {
        [kind: {"restaurant"}, restaurant: {r},
         members: {S \cup {u} : S \in (SUBSET Staff[r]) \ {{}, {u}}}] :
        r \in IF u \in Guests THEN {Scope[u]} \ {None} ELSE Restaurants}

\* _find_existing_conversation
Existing(topic) ==
    {c \in Conversations : conversation[c] # None /\ conversation[c].topic = topic}

\* Rows written and not committed: a flushed send holds its conversation and
\* the participant row of its sender.
Flushed == {txn[r].message : r \in {x \in Requests : txn[x].phase = "flushed"}}
ConversationFree(c) == \A m \in Flushed : m.conversation # c
ParticipantFree(c, u) == \A m \in Flushed : ~(m.conversation = c /\ m.sender = u)

SameKey(m, n) ==
    /\ m.key # None
    /\ m.key = n.key
    /\ m.conversation = n.conversation
    /\ m.sender = n.sender

Prior(m) == {n \in messages : SameKey(m, n)}

-----------------------------------------------------------------------------
(* Opening a conversation.                                                 *)

CreateRead(r, u) ==
    /\ txn[r] = Idle
    /\ \E topic \in Topics(u) :
          /\ Existing(topic) = {}
          /\ txn' = [txn EXCEPT ![r] =
                 [phase |-> "creating", user |-> u, topic |-> topic, now |-> clock]]
    /\ UNCHANGED <<conversation, messages, clock, reader, answers>>

CreateCommit(r) ==
    /\ txn[r].phase = "creating"
    /\ \E c \in Conversations :
          /\ conversation[c] = None
          /\ conversation' = [conversation EXCEPT ![c] =
                 [topic |-> txn[r].topic,
                  lastMessageAt |-> txn[r].now,
                  lastReadAt |-> [u \in Users |-> IF u = txn[r].user THEN txn[r].now ELSE 0]]]
    /\ Close(r)
    /\ UNCHANGED <<messages, clock, reader, answers>>

-----------------------------------------------------------------------------
(* send_message.                                                           *)

\* Fault: a replay does not compare the content.
ReplayedUnchecked(m, n) ==
    [key |-> <<m.conversation, m.sender, m.key>>, request |-> m.content, result |-> n.at]

\* The answer of a request that carries message m, given the stored one n: a
\* replay, or client_message_id_conflict.
Replayed(m, n) ==
    [key |-> <<m.conversation, m.sender, m.key>>, request |-> m.content,
     result |-> IF m.content = n.content THEN n.at ELSE None]

\* Responses may be lost.
Respond(m, n) ==
    answers' \in {answers, answers \cup IF m.key = None THEN {} ELSE {Replayed(m, n)}}

Draft(u, c, k, b) ==
    [conversation |-> c, sender |-> u, key |-> k, content |-> b, at |-> clock + 1]

\* The look-up by client_message_id finds the message: replay or conflict.
SendAgain(r, u, c, k, b) ==
    /\ txn[r] = Idle
    /\ u \in Participants(c)
    /\ \E n \in Prior(Draft(u, c, k, b)) : Respond(Draft(u, c, k, b), n)
    /\ UNCHANGED <<conversation, messages, clock, txn, reader>>

\* It finds none: the message is built, with now.
SendRead(r, u, c, k, b) ==
    /\ txn[r] = Idle
    /\ u \in Participants(c)
    /\ Prior(Draft(u, c, k, b)) = {}
    /\ clock < MaxTime
    /\ clock' = clock + 1
    /\ txn' = [txn EXCEPT ![r] = [phase |-> "sending", message |-> Draft(u, c, k, b)]]
    /\ UNCHANGED <<conversation, messages, reader, answers>>

\* db.flush(): waits for the conversation row; the unique key may be taken by
\* then, which rolls the transaction back.
Flush(r) ==
    /\ txn[r].phase = "sending"
    /\ ConversationFree(txn[r].message.conversation)
    /\ txn' = [txn EXCEPT ![r].phase = IF Prior(txn[r].message) = {} THEN "flushed" ELSE "raced"]
    /\ UNCHANGED <<conversation, messages, clock, reader, answers>>

SendCommit(r) ==
    LET m == txn[r].message IN
    /\ txn[r].phase = "flushed"
    /\ messages' = messages \cup {m}
    /\ conversation' = [conversation EXCEPT ![m.conversation].lastMessageAt = m.at,
                                            ![m.conversation].lastReadAt[m.sender] = m.at]
    /\ Respond(m, m)
    /\ Close(r)
    /\ UNCHANGED <<clock, reader>>

\* After the IntegrityError: the message of the request that won is read.
SendRaced(r) ==
    /\ txn[r].phase = "raced"
    /\ \E n \in Prior(txn[r].message) : Respond(txn[r].message, n)
    /\ Close(r)
    /\ UNCHANGED <<conversation, messages, clock, reader>>

\* An error, a lost connection, a crash of the process: rollback.
Abort(r) ==
    /\ txn[r] # Idle
    /\ Close(r)
    /\ UNCHANGED <<conversation, messages, clock, reader, answers>>

-----------------------------------------------------------------------------
(* mark_conversation_read.                                                 *)

MarkRead(r, u, c) ==
    /\ txn[r] = Idle
    /\ u \in Participants(c)
    /\ txn' = [txn EXCEPT ![r] =
           [phase |-> "reading", user |-> u, conversation |-> c, now |-> clock]]
    /\ UNCHANGED <<conversation, messages, clock, reader, answers>>

MarkCommit(r) ==
    /\ txn[r].phase = "reading"
    /\ ParticipantFree(txn[r].conversation, txn[r].user)
    /\ conversation' =
           [conversation EXCEPT ![txn[r].conversation].lastReadAt[txn[r].user] = txn[r].now]
    /\ Close(r)
    /\ UNCHANGED <<messages, clock, reader, answers>>

-----------------------------------------------------------------------------
(* list_messages: newest first, in pages addressed by offset.              *)

In(c) == {m \in messages : m.conversation = c}

\* The rows of one page: those with `offset' to `offset + PageSize - 1' newer
\* messages before them.
Slice(c, offset) ==
    {m \in In(c) : Cardinality({n \in In(c) : n.at > m.at}) \in offset .. offset + PageSize - 1}

\* Fault: the cursor also counts the row fetched to see whether there is more.
NextOffsetPastProbe(offset) == offset + PageSize + 1

NextOffset(offset) == offset + PageSize

ReadPage(u, c, offset, due, seen) ==
    reader' = [reader EXCEPT ![u] =
        [conversation |-> c, offset |-> NextOffset(offset),
         more |-> Cardinality(In(c)) > offset + PageSize,
         due |-> due, seen |-> seen \cup Slice(c, offset)]]

\* A client opens the list; what is there is due to be shown.
FirstPage(u, c) ==
    /\ u \in Participants(c)
    /\ ReadPage(u, c, 0, In(c), {})
    /\ UNCHANGED <<conversation, messages, clock, txn, answers>>

NextPage(u) ==
    /\ reader[u].more
    /\ ReadPage(u, reader[u].conversation, reader[u].offset, reader[u].due, reader[u].seen)
    /\ UNCHANGED <<conversation, messages, clock, txn, answers>>

-----------------------------------------------------------------------------
Init ==
    /\ conversation = [c \in Conversations |-> None]
    /\ messages = {}
    /\ clock = 0
    /\ txn = [r \in Requests |-> Idle]
    /\ reader = [u \in Readers |->
           [conversation |-> None, offset |-> 0, more |-> FALSE, due |-> {}, seen |-> {}]]
    /\ answers = {}

Send(r) ==
    \E u \in Users, c \in Conversations, k \in Keys \cup {None}, b \in Contents :
        SendAgain(r, u, c, k, b) \/ SendRead(r, u, c, k, b)

Next ==
    \/ \E r \in Requests :
          \/ \E u \in Users : CreateRead(r, u)
          \/ CreateCommit(r)
          \/ Send(r)
          \/ Flush(r)
          \/ SendCommit(r)
          \/ SendRaced(r)
          \/ \E u \in Readers, c \in Conversations : MarkRead(r, u, c)
          \/ MarkCommit(r)
          \/ Abort(r)
    \/ \E u \in Readers :
          \/ \E c \in Conversations : FirstPage(u, c)
          \/ NextPage(u)

Spec == Init /\ [][Next]_vars

-----------------------------------------------------------------------------
\* What the endpoint's callers see is an idempotent store: the messages that
\* have a client id, keyed by it.
StoreKeys == Conversations \X Users \X Keys
Under(k) == {m \in messages : <<m.conversation, m.sender, m.key>> = k}
storedMessage ==
    [k \in StoreKeys |->
        IF Under(k) = {} THEN None
        ELSE LET m == CHOOSE m \in Under(k) : TRUE
             IN [request |-> m.content, result |-> m.at]]

Store == INSTANCE IdempotentStore WITH
    Keys <- StoreKeys, Requests <- Contents, Results <- Times, stored <- storedMessage

(* send_message keeps the promise of IdempotentStore: a retry with the same *)
(* client_message_id, concurrent or later, never posts again and is         *)
(* answered with the message the first one posted, or refused if its        *)
(* content differs (messaging.py:515-535, 551-575).                         *)
SendIsIdempotent == Store!Spec

(* A client that pages to the end of a message list has seen every message *)
(* that was there when it began, whatever was posted meanwhile, late        *)
(* commits with an earlier created_at included (messaging.py:428-457).      *)
PagingSkipsNothing ==
    \A u \in Readers : ~reader[u].more => reader[u].due \subseteq reader[u].seen
=============================================================================
