----------------------------- MODULE CartProofs -----------------------------
(* Theorems about Cart, for every value of its constants.                   *)
EXTENDS Cart, TLAPS

USE CartAssumptions DEF Versions, Revisions

\* Rows of carts.  No step deletes one, and of any of them one is the last
\* updated.
Rows == {c \in Carts : cart[c] \in CartRow}
Recency == \A S \in SUBSET Rows : S # {} => \E c \in S : S \subseteq older[c] \cup {c}

\* The cart a request has loaded or is about to replace is a row.
HeldCartsExist ==
    \A r \in Requests :
        /\ txn[r] \in Loaded \cup Listed \cup Checked => txn[r].cart \in Rows
        /\ txn[r] \in Opening /\ txn[r].replaced # None => txn[r].replaced \in Rows

Inv == TypeOK /\ Recency /\ HeldCartsExist

-----------------------------------------------------------------------------
(* The phase of a transaction tells what it has read.                       *)
LEMMA Phases ==
    ASSUME TypeOK, NEW r \in Requests
    PROVE  /\ txn[r].phase = "scanned" => txn[r] \in Scanned
           /\ txn[r].phase = "opening" => txn[r] \in Opening
           /\ txn[r].phase = "loaded" => txn[r] \in Loaded
           /\ txn[r].phase \in {"listed", "current"} => txn[r] \in Listed
           /\ txn[r].phase = "checked" => txn[r] \in Checked
           /\ txn[r].phase = "built" => txn[r] \in Built
<1>1. txn[r] \in Txn
  BY DEF TypeOK
<1> QED
  BY <1>1 DEF Txn, Idle, Scanned, Opening, Loaded, Listed, Checked, Built

(* The current cart, if there is one, is an active row.                     *)
LEMMA CurrentIsRow ==
    ASSUME TypeOK, Recency
    PROVE  /\ Current \in Carts \cup {None}
           /\ Active # {} => Current \in Active
           /\ Current # None => Current \in Rows
<1>1. Active \subseteq Rows
  BY DEF TypeOK, Active, Rows
<1>2. CASE Active = {}
  BY <1>2 DEF Current
<1>3. CASE Active # {}
  <2>1. \E c \in Active : Active \subseteq older[c] \cup {c}
    BY <1>1, <1>3 DEF Recency
  <2>2. Current \in Active
    BY <1>3, <2>1 DEF Current
  <2> QED
    BY <1>1, <2>2 DEF Rows
<1> QED
  BY <1>2, <1>3

(* Touching a cart keeps the order of the others.                           *)
LEMMA RecencyStep ==
    ASSUME TypeOK, Recency, NEW c \in Carts, Touch(c), Rows' \subseteq Rows \cup {c}
    PROVE  Recency' /\ older' \in [Carts -> SUBSET Carts]
<1>1. older' \in [Carts -> SUBSET Carts]
  BY DEF Touch, TypeOK
<1>2. SUFFICES ASSUME NEW S \in SUBSET Rows', S # {}
               PROVE  \E d \in S : S \subseteq older'[d] \cup {d}
  BY <1>1 DEF Recency
<1>3. S \subseteq Carts
  BY DEF Rows
<1>4. CASE c \in S
  BY <1>3, <1>4 DEF Touch
<1>5. CASE c \notin S
  <2>1. PICK d \in S : S \subseteq older[d] \cup {d}
    BY <1>2, <1>5 DEF Recency
  <2>2. older'[d] = older[d] \ {c}
    BY <1>3, <1>5, <2>1 DEF Touch
  <2> QED
    BY <1>5, <2>1, <2>2
<1> QED
  BY <1>4, <1>5

(* What a step of one request does to the invariant, its transaction aside. *)
LEMMA OneTransaction ==
    ASSUME Inv, NEW r \in Requests, NEW t \in Txn,
           txn' = [txn EXCEPT ![r] = t],
           Rows \subseteq Rows',
           t \in Loaded \cup Listed \cup Checked => t.cart \in Rows',
           t \in Opening /\ t.replaced # None => t.replaced \in Rows'
    PROVE  txn' \in [Requests -> Txn] /\ HeldCartsExist'
<1>1. txn' \in [Requests -> Txn]
  BY DEF Inv, TypeOK
<1>2. \A q \in Requests : txn'[q] = IF q = r THEN t ELSE txn[q]
  BY DEF Inv, TypeOK
<1> QED
  BY <1>1, <1>2 DEF Inv, HeldCartsExist

-----------------------------------------------------------------------------
(* One lemma per operation: it keeps the invariant.                         *)

\* What an action leaves alone when it only moves the transaction of r on.
Reads == UNCHANGED <<menu, cart, older, orders, edit, menus, overtaken, answers>>

LEMMA ReadStep ==
    ASSUME Inv, NEW r \in Requests, NEW t \in Txn, Reads,
           txn' = [txn EXCEPT ![r] = t],
           t \in Loaded \cup Listed \cup Checked => t.cart \in Rows,
           t \in Opening /\ t.replaced # None => t.replaced \in Rows
    PROVE  Inv'
<1>1. Rows' = Rows /\ Recency'
  BY DEF Inv, Recency, Rows, Reads
<1>2. txn' \in [Requests -> Txn] /\ HeldCartsExist'
  BY <1>1, OneTransaction
<1> QED
  BY <1>1, <1>2 DEF Inv, TypeOK, Reads

LEMMA AbortStep ==
    ASSUME Inv, NEW r \in Requests, Reads, Close(r)
    PROVE  Inv'
<1>1. Idle \in Txn /\ Idle \notin Loaded \cup Listed \cup Checked \cup Opening
  BY DEF Txn, Idle, Loaded, Listed, Checked, Opening
<1> QED
  BY <1>1, ReadStep DEF Close

LEMMA ReadRestaurantStep ==
    ASSUME Inv, NEW r \in Requests, NEW table \in Tables \cup {None}, ReadRestaurant(r, table)
    PROVE  Inv'
<1> DEFINE t == [phase |-> "scanned", table |-> table, revision |-> menu.revision]
<1>1. t \in Scanned
  BY DEF Inv, TypeOK, Menu, Scanned
<1>2. t \in Txn /\ t \notin Loaded \cup Listed \cup Checked \cup Opening
  BY <1>1 DEF Txn, Loaded, Listed, Checked, Opening, Scanned
<1>3. Reads /\ txn' = [txn EXCEPT ![r] = t]
  BY DEF ReadRestaurant, Reads
<1> HIDE DEF t
<1> QED
  BY <1>2, <1>3, ReadStep

LEMMA OpenReadStep ==
    ASSUME Inv, NEW r \in Requests, OpenRead(r)
    PROVE  Inv'
<1> DEFINE table == IF txn[r].table = None THEN cart[Current].table ELSE txn[r].table
           t == [phase |-> "opening", table |-> table,
                 revision |-> txn[r].revision, replaced |-> Current]
<1>1. txn[r] \in Scanned
  BY Phases DEF OpenRead, Inv
<1>2. Current \in Carts \cup {None} /\ (Current # None => Current \in Rows)
  BY CurrentIsRow DEF Inv
<1>3. Current # None => cart[Current].table \in Tables
  BY <1>2 DEF Rows, CartRow
<1>4. Current = None => txn[r].table # None
  BY DEF OpenRead
<1>5. table \in Tables
  BY <1>1, <1>3, <1>4 DEF Scanned
<1>6. Reads /\ txn' = [txn EXCEPT ![r] = t]
  BY DEF OpenRead, Reads
<1> HIDE DEF table
<1>7. t \in Opening
  BY <1>1, <1>2, <1>5 DEF Scanned, Opening
<1>8. t \in Txn /\ t \notin Loaded \cup Listed \cup Checked
  BY <1>7 DEF Txn, Loaded, Listed, Checked, Opening
<1>9. t.replaced # None => t.replaced \in Rows
  BY <1>2
<1> HIDE DEF t
<1> QED
  BY <1>6, <1>8, <1>9, ReadStep

LEMMA LoadCartStep ==
    ASSUME Inv, NEW r \in Requests, NEW op \in Change \cup Prepare, NEW expect \in Expect,
           LoadCart(r, op, expect)
    PROVE  Inv'
<1> DEFINE t == [phase |-> "loaded", op |-> op, expect |-> expect, cart |-> Current,
                 version |-> cart[Current].version, revision |-> cart[Current].revision]
<1>1. Current \in Rows
  BY CurrentIsRow DEF LoadCart, Inv
<1>2. /\ Current \in Carts
      /\ cart[Current].version \in Versions
      /\ cart[Current].revision \in Revisions
  BY <1>1 DEF Rows, CartRow
<1>3. t \in Loaded
  BY <1>2 DEF Loaded
<1>4. t \in Txn /\ t \notin Opening /\ t.cart \in Rows
  BY <1>1, <1>3 DEF Txn, Loaded, Opening
<1>5. Reads /\ txn' = [txn EXCEPT ![r] = t]
  BY DEF LoadCart, Reads
<1> HIDE DEF t
<1> QED
  BY <1>4, <1>5, ReadStep

LEMMA LoadLinesStep ==
    ASSUME Inv, NEW r \in Requests, LoadLines(r)
    PROVE  Inv'
<1> DEFINE s == txn[r]
           t == [phase |-> "listed", op |-> s.op, expect |-> s.expect, cart |-> s.cart,
                 version |-> s.version, revision |-> s.revision,
                 lines |-> cart[s.cart].lines]
<1>1. s \in Loaded
  BY Phases DEF LoadLines, Inv
<1>2. s.cart \in Rows
  BY <1>1 DEF Inv, HeldCartsExist
<1>3. cart[s.cart].lines \in Lines
  BY <1>2 DEF Rows, CartRow
<1>4. Reads /\ txn' = [txn EXCEPT ![r] = t]
  BY DEF LoadLines, Reads
<1> HIDE DEF s
<1>5. t \in Listed
  BY <1>1, <1>3 DEF Loaded, Listed
<1>6. t \in Txn /\ t \notin Opening /\ t.cart \in Rows
  BY <1>2, <1>5 DEF Txn, Listed, Opening
<1> HIDE DEF t
<1> QED
  BY <1>4, <1>6, ReadStep

LEMMA ReadRevisionStep ==
    ASSUME Inv, NEW r \in Requests, ReadRevision(r)
    PROVE  Inv'
<1> DEFINE s == txn[r]
           t == [s EXCEPT !.phase = "current"]
<1>1. s \in Listed /\ s.cart \in Rows
  BY Phases DEF ReadRevision, Inv, HeldCartsExist
<1>2. Reads /\ txn' = [txn EXCEPT ![r] = t]
  BY DEF ReadRevision, Reads
<1> HIDE DEF s
<1>3. t \in Listed /\ t.cart = s.cart
  BY <1>1 DEF Listed
<1>4. t \in Txn /\ t \notin Opening /\ t.cart \in Rows
  BY <1>1, <1>3 DEF Txn, Listed, Opening
<1> HIDE DEF t
<1> QED
  BY <1>2, <1>4, ReadStep

LEMMA CheckStep ==
    ASSUME Inv, NEW r \in Requests, Check(r)
    PROVE  Inv'
<1> DEFINE s == txn[r]
           line == IF s.op.kind = "settings" THEN None ELSE s.lines[s.op.item]
           write == IF s.op.kind # "upsert" THEN None
                    ELSE [content |-> s.op.content, price |-> menu.price[s.op.item]]
           t == [phase |-> "checked", op |-> s.op, expect |-> s.expect, cart |-> s.cart,
                 version |-> s.version, line |-> line, write |-> write]
<1>1. s \in Listed /\ s.cart \in Rows
  BY Phases DEF Check, Inv, HeldCartsExist
<1>2. s.op \in Change
  BY DEF Check
<1>3. Reads /\ txn' = [txn EXCEPT ![r] = t]
  BY DEF Check, Reads
<1>4. menu.price \in [Items -> Prices]
  BY DEF Inv, TypeOK, Menu
<1> HIDE DEF s
<1>5. line \in Line \cup {None}
  BY <1>1, <1>2 DEF Listed, Lines, Change
<1>6. write \in Line \cup {None}
  BY <1>2, <1>4 DEF Change, Line
<1> HIDE DEF line, write
<1>7. t \in Checked
  BY <1>1, <1>2, <1>5, <1>6 DEF Listed, Checked
<1>8. t \in Txn /\ t \notin Opening /\ t.cart \in Rows
  BY <1>1, <1>7 DEF Txn, Checked, Opening
<1> HIDE DEF t
<1> QED
  BY <1>3, <1>8, ReadStep

LEMMA PrepareBuildStep ==
    ASSUME Inv, NEW r \in Requests, PrepareBuild(r)
    PROVE  Inv'
<1> DEFINE s == txn[r]
           card == [cart |-> s.cart, version |-> s.version,
                    revision |-> s.revision, lines |-> s.lines]
           t == [phase |-> "built", op |-> s.op, expect |-> s.expect, card |-> card]
<1>1. s \in Listed /\ s.op \in Prepare
  BY Phases DEF PrepareBuild, Inv
<1>2. Reads /\ txn' = [txn EXCEPT ![r] = t]
  BY DEF PrepareBuild, Reads
<1> HIDE DEF s
<1>3. card \in Card
  BY <1>1 DEF Listed, Card
<1> HIDE DEF card
<1>4. t \in Built
  BY <1>1, <1>3 DEF Listed, Built
<1>5. t \in Txn /\ t \notin Loaded \cup Listed \cup Checked \cup Opening
  BY <1>4 DEF Txn, Built, Loaded, Listed, Checked, Opening
<1> HIDE DEF t
<1> QED
  BY <1>2, <1>5, ReadStep

\* An answer of prepare_order_card.
CardAnswer == [key: Keys, request: Fingerprint, result: Card \cup {None}]

LEMMA RespondStep ==
    ASSUME NEW k \in Keys, NEW f \in Fingerprint, NEW order \in Order,
           answers \subseteq CardAnswer, Respond(k, f, order)
    PROVE  answers' \subseteq CardAnswer
<1>1. Replayed(k, f, order) \in CardAnswer
  BY DEF Replayed, CardAnswer, Order
<1> QED
  BY <1>1 DEF Respond

(* The invariant when only orders and answers are written.                  *)
LEMMA AnswerStep ==
    ASSUME Inv, NEW r \in Requests, Close(r),
           UNCHANGED <<menu, cart, older, edit, menus, overtaken>>,
           orders' \in [Keys -> Order \cup {None}],
           answers' \subseteq CardAnswer
    PROVE  Inv'
<1>1. Idle \in Txn /\ Idle \notin Loaded \cup Listed \cup Checked \cup Opening
  BY DEF Txn, Idle, Loaded, Listed, Checked, Opening
<1>2. Rows' = Rows /\ Recency'
  BY DEF Inv, Recency, Rows
<1>3. txn' \in [Requests -> Txn] /\ HeldCartsExist'
  BY <1>1, <1>2, OneTransaction DEF Close
<1> QED
  BY <1>2, <1>3 DEF Inv, TypeOK, CardAnswer

\* The key and the fingerprint of a request that prepares an order card.
PreparedKey(t) == t.op.key
PreparedRequest(t) ==
    FingerprintOf(t.op, t.expect, IF t.phase = "built" THEN t.card.cart ELSE t.cart)

LEMMA PreparedTypes ==
    ASSUME NEW t \in Listed \cup Built, t.op \in Prepare
    PROVE  PreparedKey(t) \in Keys /\ PreparedRequest(t) \in Fingerprint
<1>1. t.expect \in Expect
  BY DEF Listed, Built
<1>2. (IF t.phase = "built" THEN t.card.cart ELSE t.cart) \in Carts
  BY DEF Listed, Built, Card
<1> QED
  BY <1>1, <1>2 DEF PreparedKey, PreparedRequest, FingerprintOf, Fingerprint, Expect, Prepare

LEMMA PrepareAgainStep ==
    ASSUME Inv, NEW r \in Requests, PrepareAgain(r)
    PROVE  Inv'
<1> DEFINE t == txn[r]
           k == PreparedKey(t)
           f == PreparedRequest(t)
<1>1. t \in Listed /\ t.phase = "listed" /\ t.op \in Prepare
  BY Phases DEF PrepareAgain, Inv
<1>2. k \in Keys /\ f \in Fingerprint
  BY <1>1, PreparedTypes
<1>3. /\ orders[k] # None
      /\ Respond(k, f, orders[k])
      /\ Close(r)
      /\ UNCHANGED <<menu, cart, older, orders, edit, menus, overtaken>>
  BY <1>1 DEF PrepareAgain, PreparedKey, PreparedRequest
<1> HIDE DEF k, f
<1>4. orders[k] \in Order /\ answers \subseteq CardAnswer
  BY <1>2, <1>3 DEF Inv, TypeOK, CardAnswer
<1>5. answers' \subseteq CardAnswer
  BY <1>2, <1>3, <1>4, RespondStep
<1> QED
  BY <1>3, <1>5, AnswerStep DEF Inv, TypeOK

LEMMA PrepareCommitStep ==
    ASSUME Inv, NEW r \in Requests, PrepareCommit(r)
    PROVE  Inv'
<1> DEFINE t == txn[r]
           k == PreparedKey(t)
           f == PreparedRequest(t)
           order == [request |-> f, result |-> t.card]
<1>1. t \in Built /\ t.phase = "built"
  BY Phases DEF PrepareCommit, Inv
<1>2. t.op \in Prepare /\ t.card \in Card
  BY <1>1 DEF Built
<1>3. k \in Keys /\ f \in Fingerprint
  BY <1>1, <1>2, PreparedTypes
<1>4. /\ orders' = IF orders[k] # None THEN orders ELSE [orders EXCEPT ![k] = order]
      /\ Respond(k, f, orders'[k])
      /\ Close(r)
      /\ UNCHANGED <<menu, cart, older, edit, menus, overtaken>>
  BY <1>1 DEF PrepareCommit, PreparedKey, PreparedRequest
<1> HIDE DEF k, f
<1>5. order \in Order
  BY <1>2, <1>3 DEF Order
<1> HIDE DEF t, order
<1>6. orders' \in [Keys -> Order \cup {None}] /\ orders'[k] \in Order
  BY <1>3, <1>4, <1>5 DEF Inv, TypeOK
<1>7. answers' \subseteq CardAnswer
  BY <1>3, <1>4, <1>6, RespondStep DEF Inv, TypeOK, CardAnswer
<1> QED
  BY <1>4, <1>6, <1>7, AnswerStep

\* What a commit that writes the cart and no order must see to.
CartWritten(r, c) ==
    /\ cart' \in [Carts -> CartRow \cup {None}]
    /\ Rows \subseteq Rows'
    /\ Rows' \subseteq Rows \cup {c}
    /\ Touch(c)
    /\ Close(r)
    /\ UNCHANGED <<menu, orders, edit, menus, overtaken, answers>>

LEMMA CartWrittenStep ==
    ASSUME Inv, NEW r \in Requests, NEW c \in Carts, CartWritten(r, c)
    PROVE  Inv'
<1>1. Idle \in Txn /\ Idle \notin Loaded \cup Listed \cup Checked \cup Opening
  BY DEF Txn, Idle, Loaded, Listed, Checked, Opening
<1>2. Recency' /\ older' \in [Carts -> SUBSET Carts]
  BY RecencyStep DEF Inv, CartWritten
<1>3. txn' \in [Requests -> Txn] /\ HeldCartsExist'
  BY <1>1, OneTransaction DEF Close, CartWritten
<1> QED
  BY <1>2, <1>3 DEF Inv, TypeOK, CartWritten

LEMMA OpenCommitStep ==
    ASSUME Inv, NEW r \in Requests, OpenCommit(r)
    PROVE  Inv'
<1> DEFINE t == txn[r]
<1>1. t \in Opening /\ (t.replaced # None => t.replaced \in Rows)
  BY Phases DEF OpenCommit, Inv, HeldCartsExist
<1>2. PICK c \in Carts : cart[c] = None /\ Replace(t, c)
  BY DEF OpenCommit
<1>3. NewCart(t) \in CartRow
  BY <1>1 DEF NewCart, Opening, CartRow, Lines
<1>4. ASSUME NEW d \in Rows PROVE [cart[d] EXCEPT !.status = "abandoned"] \in CartRow
  BY <1>4 DEF Rows, CartRow
<1> HIDE DEF t
<1>5. \A d \in Carts : d = t.replaced => d \in Rows
  BY <1>1
<1>6. \A d \in Carts : cart'[d] = IF d = c THEN NewCart(t)
                                  ELSE IF d = t.replaced
                                       THEN [cart[d] EXCEPT !.status = "abandoned"]
                                       ELSE cart[d]
  BY <1>2 DEF Replace
<1>7. cart' \in [Carts -> CartRow \cup {None}]
  BY <1>2, <1>3, <1>4, <1>5 DEF Replace, Inv, TypeOK
<1>8. Rows \subseteq Rows' /\ Rows' \subseteq Rows \cup {c}
  BY <1>3, <1>4, <1>5, <1>6 DEF Rows
<1> QED
  BY <1>2, <1>7, <1>8, CartWrittenStep DEF OpenCommit, CartWritten, Replace

(* A change writes the row it loaded, and keeps it a row.                   *)
LEMMA ChangeKeepsRows ==
    ASSUME Inv, NEW r \in Requests, ChangeCommit(r)
    PROVE  /\ cart' \in [Carts -> CartRow \cup {None}]
           /\ Rows' = Rows
           /\ txn[r].cart \in Rows'
<1> DEFINE t == txn[r]
           c == t.cart
           lines == IF t.op.kind = "settings" \/ Unwritten(t) THEN cart[c].lines
                    ELSE [cart[c].lines EXCEPT ![t.op.item] = t.write]
           version == t.version + 1
           row == [cart[c] EXCEPT !.version = version, !.lines = lines]
<1>1. t \in Checked /\ c \in Rows
  BY Phases DEF ChangeCommit, Inv, HeldCartsExist
<1>2. c \in Carts /\ cart[c] \in CartRow
  BY <1>1 DEF Rows
<1>3. t.version < MaxVersion /\ Touch(c) /\ Close(r)
      /\ UNCHANGED <<menu, orders, edit, menus, overtaken, answers>>
  BY DEF ChangeCommit
<1>4. cart' = [cart EXCEPT ![c] = row]
  BY <1>2 DEF ChangeCommit, CartRow, Inv, TypeOK
<1>5. t.op \in Change /\ t.version \in Versions /\ t.write \in Line \cup {None}
  BY <1>1 DEF Checked
<1> HIDE DEF t, c
<1>6. lines \in Lines
  BY <1>2, <1>5 DEF Change, Lines, CartRow
<1>9. version \in Versions
  BY <1>3, <1>5
<1> HIDE DEF lines, version
<1>7. row \in CartRow
  BY <1>2, <1>6, <1>9 DEF CartRow
<1> HIDE DEF row
<1>8. cart' \in [Carts -> CartRow \cup {None}] /\ Rows' = Rows
  BY <1>2, <1>4, <1>7 DEF Rows, Inv, TypeOK
<1> QED
  BY <1>1, <1>8 DEF c, t

LEMMA ChangeCommitStep ==
    ASSUME Inv, NEW r \in Requests, ChangeCommit(r)
    PROVE  Inv'
<1> DEFINE c == txn[r].cart
<1>1. cart' \in [Carts -> CartRow \cup {None}] /\ Rows' = Rows /\ c \in Carts
  BY ChangeKeepsRows DEF Rows
<1>2. CartWritten(r, c)
  BY <1>1 DEF ChangeCommit, CartWritten
<1> QED
  BY <1>1, <1>2, CartWrittenStep

(* Menu edits leave carts, orders and requests alone.                       *)
LEMMA EditStep ==
    ASSUME Inv, UNCHANGED <<cart, older, orders, txn, answers>>,
           menu' \in Menu, menus' \subseteq Menu, overtaken' \in BOOLEAN,
           edit' \in [Editors -> Edit]
    PROVE  Inv'
<1>1. Rows' = Rows
  BY DEF Rows
<1>2. Recency' /\ HeldCartsExist'
  BY <1>1 DEF Inv, Recency, HeldCartsExist
<1> QED
  BY <1>2 DEF Inv, TypeOK

LEMMA EditorStep ==
    ASSUME Inv, NEW e \in Editors,
           \/ \E i \in Items : \/ AvailabilityRead(e, i)
                               \/ \E p \in Prices : ImportRead(e, i, p)
           \/ EditCommit(e)
           \/ EditAbort(e)
    PROVE  Inv'
<1>1. ASSUME NEW i \in Items, AvailabilityRead(e, i) PROVE Inv'
  <2> DEFINE t == [phase |-> "availability", revision |-> menu.revision,
                   item |-> i, available |-> i \notin menu.available]
  <2>1. t \in Toggle
    BY DEF Inv, TypeOK, Menu, Toggle
  <2>2. /\ edit' = [edit EXCEPT ![e] = t]
        /\ UNCHANGED <<menu, cart, older, orders, txn, menus, overtaken, answers>>
    BY <1>1 DEF AvailabilityRead
  <2> HIDE DEF t
  <2>3. edit' \in [Editors -> Edit]
    BY <2>1, <2>2 DEF Inv, TypeOK, Edit
  <2> QED
    BY <2>2, <2>3, EditStep DEF Inv, TypeOK
<1>2. ASSUME NEW i \in Items, NEW p \in Prices, ImportRead(e, i, p) PROVE Inv'
  <2> DEFINE t == [phase |-> "import", revision |-> menu.revision, item |-> i, price |-> p]
  <2>1. t \in Import
    BY DEF Inv, TypeOK, Menu, Import
  <2>2. /\ edit' = [edit EXCEPT ![e] = t]
        /\ UNCHANGED <<menu, cart, older, orders, txn, menus, overtaken, answers>>
    BY <1>2 DEF ImportRead
  <2> HIDE DEF t
  <2>3. edit' \in [Editors -> Edit]
    BY <2>1, <2>2 DEF Inv, TypeOK, Edit
  <2> QED
    BY <2>2, <2>3, EditStep DEF Inv, TypeOK
<1>3. ASSUME EditCommit(e) PROVE Inv'
  <2>1. edit[e] \in Toggle \cup Import /\ edit[e].revision < MaxRevision
    BY <1>3 DEF EditCommit, Inv, TypeOK, Edit
  <2>2. NextRevision(edit[e]) \in Revisions
    BY <2>1 DEF NextRevision, Toggle, Import
  <2>3. Edited(edit[e]) \in Menu
    BY <2>1, <2>2 DEF Edited, Inv, TypeOK, Menu, Toggle, Import
  <2>4. NoEdit \in Edit
    BY DEF Edit
  <2> QED
    BY <1>3, <2>3, <2>4, EditStep DEF EditCommit, Inv, TypeOK
<1>4. ASSUME EditAbort(e) PROVE Inv'
  <2>1. NoEdit \in Edit
    BY DEF Edit
  <2> QED
    BY <1>4, <2>1, EditStep DEF EditAbort, Inv, TypeOK
<1> QED
  BY <1>1, <1>2, <1>3, <1>4

-----------------------------------------------------------------------------
LEMMA Inductive ==
    ASSUME Inv, [Next]_vars
    PROVE  Inv'
<1>1. CASE UNCHANGED vars
  BY <1>1 DEF vars, Inv, TypeOK, Recency, Rows, HeldCartsExist
<1>2. ASSUME NEW r \in Requests,
             \/ \E table \in Tables \cup {None} : ReadRestaurant(r, table)
             \/ OpenRead(r)
             \/ OpenCommit(r)
             \/ \E op \in Change \cup Prepare, expect \in Expect : LoadCart(r, op, expect)
             \/ LoadLines(r)
             \/ ReadRevision(r)
             \/ Check(r)
             \/ ChangeCommit(r)
      PROVE  Inv'
  BY <1>2, ReadRestaurantStep, OpenReadStep, OpenCommitStep, LoadCartStep, LoadLinesStep,
     ReadRevisionStep, CheckStep, ChangeCommitStep
<1>3. ASSUME NEW r \in Requests,
             PrepareAgain(r) \/ PrepareBuild(r) \/ PrepareCommit(r) \/ Abort(r)
      PROVE  Inv'
  <2>1. Abort(r) => Close(r) /\ Reads
    BY DEF Abort, Reads
  <2> QED
    BY <1>3, <2>1, PrepareAgainStep, PrepareBuildStep, PrepareCommitStep, AbortStep
<1> QED
  BY <1>1, <1>2, <1>3, EditorStep DEF Next

LEMMA Initial == Init => Inv
<1> SUFFICES ASSUME Init PROVE Inv
  OBVIOUS
<1>1. menu \in Menu
  <2>1. PICK price \in [Items -> Prices] :
            menu = [revision |-> 1, available |-> Items, price |-> price]
    BY DEF Init
  <2> QED
    BY <2>1 DEF Menu
<1>2. Idle \in Txn /\ Idle \notin Loaded \cup Listed \cup Checked \cup Opening /\ NoEdit \in Edit
  BY DEF Txn, Idle, Loaded, Listed, Checked, Opening, Edit
<1>3. TypeOK
  BY <1>1, <1>2 DEF Init, TypeOK
<1>4. HeldCartsExist
  BY <1>2 DEF Init, HeldCartsExist
<1>5. Rows = {}
  BY NoneIsNoRow DEF Init, Rows
<1>6. Recency
  BY <1>5 DEF Recency
<1> QED
  BY <1>3, <1>4, <1>6 DEF Inv

LEMMA Invariant == Spec => []Inv
  BY Initial, Inductive, PTL DEF Spec

(* Every reachable state has the declared shape: carts, orders and the      *)
(* transactions of any number of concurrent requests and menu edits.        *)
THEOREM CartTypeCorrect == Spec => []TypeOK
<1>1. Inv => TypeOK
  BY DEF Inv
<1> QED
  BY <1>1, Invariant, PTL

-----------------------------------------------------------------------------
(* Only OpenCommit makes a cart inactive, and it makes another one active.  *)
LEMMA ActiveStep ==
    ASSUME Inv, [Next]_vars, CartIsNeverLost
    PROVE  CartIsNeverLost'
<1>1. CASE UNCHANGED cart
  BY <1>1 DEF CartIsNeverLost, Active
<1>2. ASSUME NEW r \in Requests, OpenCommit(r) PROVE CartIsNeverLost'
  <2> DEFINE t == txn[r]
  <2>1. t \in Opening
    BY <1>2, Phases DEF OpenCommit, Inv
  <2>2. PICK c \in Carts : Replace(t, c)
    BY <1>2 DEF OpenCommit
  <2>3. NewCart(t) \in CartRow /\ NewCart(t).status = "active"
    BY <2>1 DEF NewCart, Opening, CartRow, Lines
  <2> HIDE DEF t
  <2>4. cart'[c] = NewCart(t)
    BY <2>2 DEF Replace
  <2>5. c \in Active'
    BY <2>3, <2>4, NoneIsNoRow DEF Active
  <2> QED
    BY <2>5 DEF CartIsNeverLost
<1>3. ASSUME NEW r \in Requests, ChangeCommit(r) PROVE CartIsNeverLost'
  <2> DEFINE c == txn[r].cart
  <2>1. c \in Carts /\ cart[c] \in CartRow
    BY <1>3, Phases DEF ChangeCommit, Inv, HeldCartsExist, Rows
  <2>2. \A d \in Carts : cart'[d] = cart[d] \/ (d = c /\ cart'[d].status = cart[d].status)
    BY <1>3, <2>1 DEF ChangeCommit, CartRow, Inv, TypeOK
  <2>3. cart'[c] \in CartRow
    <3>1. cart' \in [Carts -> CartRow \cup {None}] /\ c \in Rows'
      BY <1>3, ChangeKeepsRows
    <3> QED
      BY <3>1 DEF Rows
  <2>4. Active \subseteq Active'
    BY <2>2, <2>3, NoneIsNoRow DEF Active
  <2>5. Active # {}
    BY <1>3, <2>1, NoneIsNoRow DEF CartIsNeverLost
  <2> QED
    BY <2>4, <2>5 DEF CartIsNeverLost
<1>4. ASSUME NEW r \in Requests,
             \/ \E table \in Tables \cup {None} : ReadRestaurant(r, table)
             \/ OpenRead(r)
             \/ \E op \in Change \cup Prepare, expect \in Expect : LoadCart(r, op, expect)
             \/ LoadLines(r)
             \/ ReadRevision(r)
             \/ Check(r)
             \/ PrepareAgain(r)
             \/ PrepareBuild(r)
             \/ PrepareCommit(r)
             \/ Abort(r)
      PROVE  UNCHANGED cart
  BY <1>4 DEF ReadRestaurant, OpenRead, LoadCart, LoadLines, ReadRevision, Check,
     PrepareAgain, PrepareBuild, PrepareCommit, Abort
<1>5. ASSUME NEW e \in Editors,
             \/ \E i \in Items : \/ AvailabilityRead(e, i)
                                 \/ \E p \in Prices : ImportRead(e, i, p)
             \/ EditCommit(e)
             \/ EditAbort(e)
      PROVE  UNCHANGED cart
  BY <1>5 DEF AvailabilityRead, ImportRead, EditCommit, EditAbort
<1> QED
  BY <1>1, <1>2, <1>3, <1>4, <1>5 DEF Next, vars

(* A guest that has a cart keeps one, however many QR sessions and          *)
(* bootstraps replace carts at once: get_or_create_cart abandons a cart     *)
(* only with its successor in the same transaction.                         *)
THEOREM CartsAreNeverLost == Spec => []CartIsNeverLost
<1>1. Init => CartIsNeverLost
  BY DEF Init, CartIsNeverLost
<1> QED
  BY <1>1, Invariant, ActiveStep, PTL DEF Spec

-----------------------------------------------------------------------------
(* An answered prepare is a step of the idempotent store.                   *)
LEMMA AgainImplements ==
    ASSUME Inv, NEW r \in Requests, PrepareAgain(r)
    PROVE  [Store!Next]_Store!vars
<1> DEFINE t == txn[r]
           k == PreparedKey(t)
           f == PreparedRequest(t)
<1>1. t \in Listed /\ t.phase = "listed" /\ t.op \in Prepare
  BY Phases DEF PrepareAgain, Inv
<1>2. k \in Keys /\ f \in Fingerprint
  BY <1>1, PreparedTypes
<1>3. orders[k] # None /\ Respond(k, f, orders[k]) /\ UNCHANGED orders
  BY <1>1 DEF PrepareAgain, PreparedKey, PreparedRequest
<1> HIDE DEF k, f
<1>4. CASE orders[k].request = f
  <2>1. Store!Replay(k, f)
    BY <1>3, <1>4 DEF Store!Replay, Store!Received, Respond, Replayed
  <2> QED
    BY <1>2, <2>1 DEF Store!Next
<1>5. CASE orders[k].request # f
  <2>1. Store!Refuse(k, f)
    BY <1>3, <1>5 DEF Store!Refuse, Store!Received, Respond, Replayed
  <2> QED
    BY <1>2, <2>1 DEF Store!Next
<1> QED
  BY <1>4, <1>5

LEMMA CommitImplements ==
    ASSUME Inv, NEW r \in Requests, PrepareCommit(r)
    PROVE  [Store!Next]_Store!vars
<1> DEFINE t == txn[r]
           k == PreparedKey(t)
           f == PreparedRequest(t)
<1>1. t \in Built /\ t.phase = "built"
  BY Phases DEF PrepareCommit, Inv
<1>2. t.op \in Prepare /\ t.card \in Card
  BY <1>1 DEF Built
<1>3. k \in Keys /\ f \in Fingerprint
  BY <1>1, <1>2, PreparedTypes
<1>4. /\ orders' = IF orders[k] # None THEN orders
                   ELSE [orders EXCEPT ![k] = [request |-> f, result |-> t.card]]
      /\ Respond(k, f, orders'[k])
  BY <1>1 DEF PrepareCommit, PreparedKey, PreparedRequest
<1> HIDE DEF k, f, t
<1>5. CASE orders[k] = None
  <2>1. /\ orders' = [orders EXCEPT ![k] = [request |-> f, result |-> t.card]]
        /\ orders'[k] = [request |-> f, result |-> t.card]
    BY <1>3, <1>4, <1>5 DEF Inv, TypeOK
  <2>2. Replayed(k, f, orders'[k]) = [key |-> k, request |-> f, result |-> t.card]
    BY <2>1 DEF Replayed
  <2>3. Store!Put(k, f, t.card)
    BY <1>4, <1>5, <2>1, <2>2 DEF Store!Put, Store!Received, Respond
  <2> QED
    BY <1>2, <1>3, <2>3 DEF Store!Next
<1>6. CASE orders[k] # None /\ orders[k].request = f
  <2>1. Store!Replay(k, f)
    BY <1>4, <1>6 DEF Store!Replay, Store!Received, Respond, Replayed
  <2> QED
    BY <1>3, <2>1 DEF Store!Next
<1>7. CASE orders[k] # None /\ orders[k].request # f
  <2>1. Store!Refuse(k, f)
    BY <1>4, <1>7 DEF Store!Refuse, Store!Received, Respond, Replayed
  <2> QED
    BY <1>3, <2>1 DEF Store!Next
<1> QED
  BY <1>5, <1>6, <1>7

LEMMA StepImplements ==
    ASSUME Inv, [Next]_vars
    PROVE  [Store!Next]_Store!vars
<1>1. ASSUME UNCHANGED <<orders, answers>> PROVE [Store!Next]_Store!vars
  BY <1>1 DEF Store!vars
<1>2. CASE UNCHANGED vars
  BY <1>1, <1>2 DEF vars
<1>3. ASSUME NEW r \in Requests,
             \/ \E table \in Tables \cup {None} : ReadRestaurant(r, table)
             \/ OpenRead(r)
             \/ OpenCommit(r)
             \/ \E op \in Change \cup Prepare, expect \in Expect : LoadCart(r, op, expect)
             \/ LoadLines(r)
             \/ ReadRevision(r)
             \/ Check(r)
             \/ ChangeCommit(r)
             \/ PrepareBuild(r)
             \/ Abort(r)
      PROVE  UNCHANGED <<orders, answers>>
  BY <1>3 DEF ReadRestaurant, OpenRead, OpenCommit, LoadCart, LoadLines, ReadRevision, Check,
     ChangeCommit, PrepareBuild, Abort
<1>4. ASSUME NEW e \in Editors,
             \/ \E i \in Items : \/ AvailabilityRead(e, i)
                                 \/ \E p \in Prices : ImportRead(e, i, p)
             \/ EditCommit(e)
             \/ EditAbort(e)
      PROVE  UNCHANGED <<orders, answers>>
  BY <1>4 DEF AvailabilityRead, ImportRead, EditCommit, EditAbort
<1> QED
  BY <1>1, <1>2, <1>3, <1>4, AgainImplements, CommitImplements DEF Next

(* prepare_order_card implements IdempotentStore: however many retries of a *)
(* prepare run at once, while the cart is changed or replaced and the menu  *)
(* is edited, each key has one order and its answers agree.                 *)
THEOREM OrdersAreIdempotent == Spec => PrepareIsIdempotent
<1>1. Init => Store!Init
  BY DEF Init, Store!Init
<1> QED
  BY <1>1, Invariant, StepImplements, PTL DEF Spec, PrepareIsIdempotent, Store!Spec
-----------------------------------------------------------------------------
(* Cards show their menu.  A cart is made for the revision of the menu then  *)
(* and keeps it; edits that do not overlap raise the revision, so while a    *)
(* cart has the revision of the menu nothing was edited since its first line *)
(* was checked.                                                              *)

\* Lines that were on offer, as they are, on committed menus of a revision.
Shown(lines, revision) ==
    \A i \in Items : lines[i] # None =>
        \E m \in menus :
            /\ m.revision = revision
            /\ i \in m.available
            /\ m.price[i] = lines[i].price

\* What a transaction read fits the menu, or a menu of the revision it checked.
FitsMenu(t) ==
    /\ t.phase \in {"scanned", "opening"} => t.revision <= menu.revision
    /\ t.phase \in {"loaded", "listed", "current"} => t.revision = cart[t.cart].revision
    /\ t.phase = "listed" /\ t.revision = menu.revision => Offered(t.lines)
    /\ t.phase = "current" => Shown(t.lines, t.revision)
    /\ t.phase = "checked" /\ t.write # None /\ cart[t.cart].revision = menu.revision =>
          t.op.item \in menu.available /\ t.write.price = menu.price[t.op.item]
    /\ t.phase = "built" => Shown(t.card.lines, t.card.revision)

\* A cart of the current revision has lines the menu offers.
CartFitsMenu(row) ==
    /\ row.revision <= menu.revision
    /\ row.revision = menu.revision => Offered(row.lines)

MenuInvariant ==
    /\ menu \in menus
    /\ \A c \in Rows : CartFitsMenu(cart[c])
    /\ \A r \in Requests : FitsMenu(txn[r])
    /\ \A k \in Keys : orders[k] # None => Shown(orders[k].result.lines, orders[k].result.revision)

LEMMA ShownGrows ==
    ASSUME menus \subseteq menus', NEW lines, NEW revision, Shown(lines, revision)
    PROVE  Shown(lines, revision)'
  BY DEF Shown

LEMMA IdleFits == FitsMenu(Idle)
  BY DEF FitsMenu, Idle

(* A request that writes nothing: only what it holds has to fit.            *)
LEMMA FitsStep ==
    ASSUME Inv, MenuInvariant, NEW r \in Requests, NEW t \in Txn, FitsMenu(t),
           txn' = [txn EXCEPT ![r] = t], UNCHANGED <<menu, cart, orders, edit, menus, overtaken>>
    PROVE  MenuInvariant'
<1>1. ASSUME NEW q \in Requests PROVE FitsMenu(txn[q])'
  <2>1. PICK s : s = txn'[q]
    OBVIOUS
  <2>2. FitsMenu(s)
    BY <2>1 DEF Inv, TypeOK, MenuInvariant
  <2>3. FitsMenu(s)'
    BY <2>2 DEF FitsMenu, Offered, Shown
  <2> QED
    BY <2>1, <2>3
<1>2. \A c \in Rows' : CartFitsMenu(cart[c])'
  BY DEF MenuInvariant, CartFitsMenu, Offered, Rows
<1> QED
  BY <1>1, <1>2 DEF MenuInvariant, Shown

(* What a request has read fits, action by action.                          *)
LEMMA RequestFits ==
    ASSUME Inv, MenuInvariant, NEW r \in Requests,
           \/ \E table \in Tables \cup {None} : ReadRestaurant(r, table)
           \/ OpenRead(r)
           \/ \E op \in Change \cup Prepare, expect \in Expect : LoadCart(r, op, expect)
           \/ LoadLines(r)
           \/ ReadRevision(r)
           \/ Check(r)
           \/ PrepareBuild(r)
           \/ Abort(r)
    PROVE  FitsMenu(txn'[r]) /\ UNCHANGED <<menu, cart, orders, edit, menus, overtaken>>
<1> DEFINE t == txn[r]
<1>0. FitsMenu(t)
  BY DEF MenuInvariant
<1>m. menu \in Menu /\ menu.revision \in Revisions
  BY DEF Inv, TypeOK, Menu
<1>1. ASSUME NEW table \in Tables \cup {None}, ReadRestaurant(r, table)
      PROVE  FitsMenu(txn'[r])
  <2>1. txn'[r] = [phase |-> "scanned", table |-> table, revision |-> menu.revision]
    BY <1>1 DEF ReadRestaurant, Inv, TypeOK
  <2> QED
    BY <2>1, <1>m DEF FitsMenu
<1>2. ASSUME OpenRead(r) PROVE FitsMenu(txn'[r])
  <2>1. txn'[r].phase = "opening" /\ txn'[r].revision = t.revision /\ t.phase = "scanned"
    BY <1>2 DEF OpenRead, Inv, TypeOK
  <2> QED
    BY <2>1, <1>0 DEF FitsMenu
<1>3. ASSUME NEW op \in Change \cup Prepare, NEW expect \in Expect, LoadCart(r, op, expect)
      PROVE  FitsMenu(txn'[r])
  <2>1. txn'[r] = [phase |-> "loaded", op |-> op, expect |-> expect, cart |-> Current,
                   version |-> cart[Current].version, revision |-> cart[Current].revision]
    BY <1>3 DEF LoadCart, Inv, TypeOK
  <2> QED
    BY <2>1 DEF FitsMenu
<1>4. ASSUME LoadLines(r) PROVE FitsMenu(txn'[r])
  <2>1. t.phase = "loaded" /\ t \in Loaded
    BY <1>4, Phases DEF LoadLines, Inv
  <2>2. t.cart \in Rows /\ t.revision = cart[t.cart].revision
    BY <1>0, <2>1 DEF Inv, HeldCartsExist, FitsMenu
  <2>3. CartFitsMenu(cart[t.cart])
    BY <2>2 DEF MenuInvariant
  <2>4. /\ txn'[r].phase = "listed" /\ txn'[r].cart = t.cart
        /\ txn'[r].revision = t.revision /\ txn'[r].lines = cart[t.cart].lines
    BY <1>4 DEF LoadLines, Inv, TypeOK
  <2> QED
    BY <2>2, <2>3, <2>4 DEF FitsMenu, CartFitsMenu
<1>5. ASSUME ReadRevision(r) PROVE FitsMenu(txn'[r])
  <2>1. t \in Listed /\ t.phase = "listed" /\ t.revision = menu.revision
    BY <1>5, Phases DEF ReadRevision, ExpectationsMet, Inv
  <2>2. Offered(t.lines) /\ t.revision = cart[t.cart].revision
    BY <1>0, <2>1 DEF FitsMenu
  <2>3. Shown(t.lines, t.revision)
    BY <2>1, <2>2 DEF Offered, Shown, MenuInvariant
  <2>4. /\ txn'[r].phase = "current" /\ txn'[r].cart = t.cart
        /\ txn'[r].revision = t.revision /\ txn'[r].lines = t.lines
    BY <1>5, <2>1 DEF ReadRevision, Listed, Inv, TypeOK
  <2> QED
    BY <2>2, <2>3, <2>4 DEF FitsMenu
<1>6. ASSUME Check(r) PROVE FitsMenu(txn'[r])
  <2>1. /\ txn'[r].phase = "checked" /\ txn'[r].op = t.op
        /\ txn'[r].write = IF t.op.kind # "upsert" THEN None
                           ELSE [content |-> t.op.content, price |-> menu.price[t.op.item]]
        /\ t.op.kind = "upsert" => t.op.item \in menu.available
    BY <1>6 DEF Check, Allows, Inv, TypeOK
  <2> QED
    BY <2>1 DEF FitsMenu
<1>7. ASSUME PrepareBuild(r) PROVE FitsMenu(txn'[r])
  <2>1. t.phase = "current" /\ Shown(t.lines, t.revision)
    BY <1>0, <1>7 DEF PrepareBuild, FitsMenu
  <2>2. /\ txn'[r].phase = "built"
        /\ txn'[r].card.lines = t.lines /\ txn'[r].card.revision = t.revision
    BY <1>7 DEF PrepareBuild, Inv, TypeOK
  <2> QED
    BY <2>1, <2>2 DEF FitsMenu
<1>8. ASSUME Abort(r) PROVE FitsMenu(txn'[r])
  <2>1. txn'[r] = Idle
    BY <1>8 DEF Abort, Close, Inv, TypeOK
  <2> QED
    BY <2>1, IdleFits
<1>9. UNCHANGED <<menu, cart, orders, edit, menus, overtaken>>
  BY DEF ReadRestaurant, OpenRead, LoadCart, LoadLines, ReadRevision, Check, PrepareBuild, Abort
<1> QED
  BY <1>1, <1>2, <1>3, <1>4, <1>5, <1>6, <1>7, <1>8, <1>9

LEMMA RequestMenuStep ==
    ASSUME Inv, MenuInvariant, NEW r \in Requests,
           \/ \E table \in Tables \cup {None} : ReadRestaurant(r, table)
           \/ OpenRead(r)
           \/ \E op \in Change \cup Prepare, expect \in Expect : LoadCart(r, op, expect)
           \/ LoadLines(r)
           \/ ReadRevision(r)
           \/ Check(r)
           \/ PrepareBuild(r)
           \/ Abort(r)
    PROVE  MenuInvariant'
<1>1. FitsMenu(txn'[r]) /\ UNCHANGED <<menu, cart, orders, edit, menus, overtaken>>
  BY RequestFits
<1>2. Inv'
  BY Inductive DEF Next
<1>3. txn' = [txn EXCEPT ![r] = txn'[r]]
  BY DEF ReadRestaurant, OpenRead, LoadCart, LoadLines, ReadRevision, Check, PrepareBuild,
     Abort, Close, Inv, TypeOK
<1>4. PICK t : t = txn'[r]
  OBVIOUS
<1> QED
  BY <1>1, <1>2, <1>3, <1>4, FitsStep DEF Inv, TypeOK

(* A commit that writes carts keeps their revisions.                        *)
LEMMA CartMenuStep ==
    ASSUME Inv, MenuInvariant, NEW r \in Requests, Close(r),
           UNCHANGED <<menu, orders, edit, menus, overtaken>>,
           \A c \in Rows : cart'[c].revision = cart[c].revision,
           \A c \in Rows' : CartFitsMenu(cart'[c])
    PROVE  MenuInvariant'
<1>1. ASSUME NEW q \in Requests PROVE FitsMenu(txn[q])'
  <2>1. PICK s : s = txn'[q]
    OBVIOUS
  <2>2. s = Idle \/ s = txn[q]
    BY <2>1 DEF Close, Inv, TypeOK
  <2>3. CASE s = Idle
    BY <2>1, <2>3 DEF FitsMenu, Idle
  <2>4. CASE s = txn[q]
    <3>1. FitsMenu(s)
      BY <2>4 DEF MenuInvariant
    <3>2. s.phase \in {"loaded", "listed", "current", "checked"} =>
              cart'[s.cart].revision = cart[s.cart].revision
      BY <2>4, Phases DEF Inv, HeldCartsExist
    <3>3. FitsMenu(s)'
      BY <3>1, <3>2 DEF FitsMenu, Offered, Shown
    <3> QED
      BY <2>1, <3>3
  <2> QED
    BY <2>2, <2>3, <2>4
<1>2. \A c \in Rows' : CartFitsMenu(cart[c])'
  BY DEF CartFitsMenu, Offered
<1> QED
  BY <1>1, <1>2 DEF MenuInvariant, Shown

LEMMA OpenMenuStep ==
    ASSUME Inv, MenuInvariant, NEW r \in Requests, OpenCommit(r)
    PROVE  MenuInvariant'
<1> DEFINE t == txn[r]
<1>1. t \in Opening /\ t.phase = "opening" /\ t.revision <= menu.revision
  BY Phases DEF OpenCommit, Inv, MenuInvariant, FitsMenu
<1>2. PICK c \in Carts : cart[c] = None /\ Replace(t, c)
  BY DEF OpenCommit
<1>3. c \notin Rows
  BY <1>2, NoneIsNoRow DEF Rows
<1>4. CartFitsMenu(NewCart(t)) /\ NewCart(t).revision = t.revision
  BY <1>1 DEF NewCart, CartFitsMenu, Offered
<1>5. t.replaced # None => t.replaced \in Rows
  BY <1>1 DEF Inv, HeldCartsExist
<1> HIDE DEF t
<1>6. ASSUME NEW d \in Rows
      PROVE  cart'[d].revision = cart[d].revision /\ cart'[d].lines = cart[d].lines
  BY <1>2, <1>3, <1>6 DEF Replace, Rows, CartRow
<1>7. ASSUME NEW d \in Rows' PROVE CartFitsMenu(cart'[d])
  <2>1. CASE d = c
    BY <1>2, <1>4, <2>1 DEF Replace
  <2>2. CASE d # c
    <3>1. d \in Rows
      BY <1>2, <1>5, <1>7, <2>2 DEF Replace, Rows, Inv, TypeOK
    <3> QED
      BY <1>6, <3>1 DEF MenuInvariant, CartFitsMenu
  <2> QED
    BY <2>1, <2>2
<1> QED
  BY <1>6, <1>7, CartMenuStep DEF OpenCommit, MenuInvariant

LEMMA ChangeMenuStep ==
    ASSUME Inv, MenuInvariant, NEW r \in Requests, ChangeCommit(r)
    PROVE  MenuInvariant'
<1> DEFINE t == txn[r]
           c == t.cart
           lines == IF t.op.kind = "settings" \/ Unwritten(t) THEN cart[c].lines
                    ELSE [cart[c].lines EXCEPT ![t.op.item] = t.write]
<1>1. t \in Checked /\ t.phase = "checked" /\ c \in Rows /\ FitsMenu(t)
  BY Phases DEF ChangeCommit, Inv, HeldCartsExist, MenuInvariant
<1>2. c \in Carts /\ cart[c] \in CartRow /\ CartFitsMenu(cart[c])
  BY <1>1 DEF Rows, MenuInvariant
<1>3. /\ cart'[c].revision = cart[c].revision /\ cart'[c].lines = lines
      /\ \A d \in Carts \ {c} : cart'[d] = cart[d]
  BY <1>2 DEF ChangeCommit, CartRow, Inv, TypeOK
<1>4. cart[c].revision = menu.revision => Offered(lines)
  <2> SUFFICES ASSUME cart[c].revision = menu.revision, NEW i \in Items, lines[i] # None
               PROVE  i \in menu.available /\ lines[i].price = menu.price[i]
    BY DEF Offered
  <2>1. Offered(cart[c].lines)
    BY <1>2 DEF CartFitsMenu
  <2>2. t.write # None => t.op.item \in menu.available /\ t.write.price = menu.price[t.op.item]
    BY <1>1 DEF FitsMenu
  <2>3. cart[c].lines \in Lines
    BY <1>2 DEF CartRow
  <2>4. lines[i] = cart[c].lines[i] \/ (i = t.op.item /\ lines[i] = t.write)
    BY <2>3 DEF Lines
  <2> QED
    BY <2>1, <2>2, <2>4 DEF Offered
<1>5. ASSUME NEW d \in Rows' PROVE CartFitsMenu(cart'[d])
  <2>1. CASE d = c
    BY <1>2, <1>3, <1>4, <2>1 DEF CartFitsMenu
  <2>2. CASE d # c
    <3>1. d \in Rows /\ cart'[d] = cart[d]
      BY <1>3, <1>5, <2>2 DEF Rows
    <3> QED
      BY <3>1 DEF MenuInvariant
  <2> QED
    BY <2>1, <2>2
<1>6. \A d \in Rows : cart'[d].revision = cart[d].revision
  BY <1>3 DEF Rows
<1> QED
  BY <1>5, <1>6, CartMenuStep DEF ChangeCommit

(* The order that is stored shows its menu as the card that was built.      *)
LEMMA AnswerMenuStep ==
    ASSUME Inv, MenuInvariant, NEW r \in Requests, PrepareAgain(r) \/ PrepareCommit(r)
    PROVE  MenuInvariant'
<1>1. Close(r) /\ UNCHANGED <<menu, cart, older, edit, menus, overtaken>>
  BY DEF PrepareAgain, PrepareCommit
<1>2. ASSUME NEW q \in Requests PROVE FitsMenu(txn[q])'
  <2>1. PICK s : s = txn'[q]
    OBVIOUS
  <2>2. FitsMenu(s)
    BY <1>1, <2>1, IdleFits DEF Close, Inv, TypeOK, MenuInvariant
  <2>3. FitsMenu(s)'
    BY <1>1, <2>2 DEF FitsMenu, Offered, Shown
  <2> QED
    BY <2>1, <2>3
<1>3. \A c \in Rows' : CartFitsMenu(cart[c])'
  BY <1>1 DEF MenuInvariant, CartFitsMenu, Offered, Rows
<1>4. ASSUME NEW k \in Keys, orders'[k] # None
      PROVE  Shown(orders[k].result.lines, orders[k].result.revision)'
  <2>1. CASE orders'[k] = orders[k]
    BY <1>1, <1>4, <2>1 DEF MenuInvariant, Shown
  <2>2. CASE orders'[k] # orders[k]
    <3> DEFINE t == txn[r]
    <3>1. PrepareCommit(r)
      BY <2>2 DEF PrepareAgain
    <3>2. t.phase = "built" /\ Shown(t.card.lines, t.card.revision)
      BY <3>1 DEF PrepareCommit, MenuInvariant, FitsMenu
    <3>3. orders'[k].result = t.card
      BY <2>2, <3>1 DEF PrepareCommit, Inv, TypeOK
    <3>4. PICK lines, revision : lines = t.card.lines /\ revision = t.card.revision
      OBVIOUS
    <3>5. Shown(lines, revision)'
      BY <1>1, <3>2, <3>4, ShownGrows
    <3> QED
      BY <3>3, <3>4, <3>5
  <2> QED
    BY <2>1, <2>2
<1> QED
  BY <1>1, <1>2, <1>3, <1>4 DEF MenuInvariant

(* An edit raises the revision above that of every cart.                    *)
LEMMA CommitMenuStep ==
    ASSUME Inv, MenuInvariant, NEW e \in Editors, EditCommit(e), ~overtaken'
    PROVE  MenuInvariant'
<1>1. /\ edit[e] # NoEdit /\ menu' = Edited(edit[e]) /\ menus' = menus \cup {menu'}
      /\ edit' = [edit EXCEPT ![e] = NoEdit]
      /\ UNCHANGED <<cart, older, orders, txn, answers>>
      /\ edit[e].revision = menu.revision
  BY DEF EditCommit
<1>2. menu \in Menu /\ edit[e].revision = menu.revision
  BY <1>1 DEF Inv, TypeOK
<1>3. menu.revision \in Nat /\ menu'.revision = menu.revision + 1
  BY <1>1, <1>2 DEF Edited, NextRevision, Menu
<1>5. ASSUME NEW c \in Rows
      PROVE  cart[c].revision \in Nat /\ cart[c].revision <= menu.revision
  BY <1>5 DEF Rows, CartRow, MenuInvariant, CartFitsMenu
<1>6. \A c \in Rows' : CartFitsMenu(cart[c])'
  BY <1>1, <1>3, <1>5 DEF CartFitsMenu, Rows
<1>7. ASSUME NEW q \in Requests PROVE FitsMenu(txn[q])'
  <2>1. PICK s : s = txn[q]
    OBVIOUS
  <2>2. s \in Txn /\ FitsMenu(s)
    BY <2>1 DEF Inv, TypeOK, MenuInvariant
  <2>3. s.phase \in {"scanned", "opening"} => s.revision \in Nat
    BY <2>1, Phases DEF Scanned, Opening, Inv
  <2>4. s.phase \in {"loaded", "listed", "current", "checked"} => s.cart \in Rows
    BY <2>1, Phases DEF Inv, HeldCartsExist
  <2>5. s.phase \in {"scanned", "opening"} => s.revision <= menu'.revision
    BY <1>3, <2>2, <2>3 DEF FitsMenu
  <2>6. s.phase \in {"loaded", "listed", "current", "checked"} =>
            cart'[s.cart].revision = cart[s.cart].revision
            /\ cart[s.cart].revision # menu'.revision
    BY <1>1, <1>3, <1>5, <2>4
  <2>7. \A lines, revision : Shown(lines, revision) => Shown(lines, revision)'
    BY <1>1, ShownGrows
  <2>8. FitsMenu(s)'
    BY <2>2, <2>5, <2>6, <2>7 DEF FitsMenu
  <2> QED
    BY <1>1, <2>1, <2>8
<1>8. ASSUME NEW k \in Keys, orders'[k] # None
      PROVE  Shown(orders[k].result.lines, orders[k].result.revision)'
  <2>1. PICK lines, revision : lines = orders[k].result.lines
                               /\ revision = orders[k].result.revision
    OBVIOUS
  <2>2. Shown(lines, revision)'
    BY <1>1, <1>8, <2>1, ShownGrows DEF MenuInvariant
  <2> QED
    BY <1>1, <2>1, <2>2
<1> QED
  BY <1>1, <1>6, <1>7, <1>8 DEF MenuInvariant

(* The menu invariant speaks of these variables alone.                      *)
LEMMA MenuKept ==
    ASSUME MenuInvariant, UNCHANGED <<menu, cart, orders, txn, menus>>
    PROVE  MenuInvariant'
  BY DEF MenuInvariant, CartFitsMenu, FitsMenu, Offered, Shown, Rows

(* Reading the menu for an edit, and giving an edit up.                     *)
LEMMA EditMenuStep ==
    ASSUME Inv, MenuInvariant, NEW e \in Editors,
           \/ \E i \in Items : \/ AvailabilityRead(e, i)
                               \/ \E p \in Prices : ImportRead(e, i, p)
           \/ EditAbort(e)
    PROVE  MenuInvariant'
<1>1. UNCHANGED <<menu, cart, older, orders, txn, menus, overtaken, answers>>
  BY DEF AvailabilityRead, ImportRead, EditAbort
<1> QED
  BY <1>1, MenuKept

LEMMA MenuStep ==
    ASSUME Inv, overtaken \/ MenuInvariant, [Next]_vars
    PROVE  overtaken' \/ MenuInvariant'
<1>1. overtaken => overtaken'
  <2>1. ASSUME NEW e \in Editors, EditCommit(e) PROVE overtaken => overtaken'
    BY <2>1 DEF EditCommit
  <2>2. UNCHANGED overtaken \/ \E e \in Editors : EditCommit(e)
    BY DEF Next, vars, ReadRestaurant, OpenRead, OpenCommit, LoadCart, LoadLines, ReadRevision,
       Check, ChangeCommit, PrepareAgain, PrepareBuild, PrepareCommit, Abort, AvailabilityRead,
       ImportRead, EditAbort
  <2> QED
    BY <2>1, <2>2
<1> SUFFICES ASSUME MenuInvariant, ~overtaken' PROVE MenuInvariant'
  BY <1>1
<1>2. CASE UNCHANGED vars
  BY <1>2, MenuKept DEF vars
<1> QED
  BY <1>2, RequestMenuStep, OpenMenuStep, ChangeMenuStep, AnswerMenuStep, CommitMenuStep,
     EditMenuStep DEF Next

LEMMA MenuInitial == Init => MenuInvariant
<1> SUFFICES ASSUME Init PROVE MenuInvariant
  OBVIOUS
<1>1. Rows = {}
  BY NoneIsNoRow DEF Init, Rows
<1> QED
  BY <1>1, IdleFits DEF Init, MenuInvariant

(* For any number of carts, requests, replays and menu edits: an order card  *)
(* shows lines that were on offer at the prices shown on a menu of the       *)
(* revision it names, until an edit commits over a menu that it had not      *)
(* read: it writes a revision twice (owner.py:529), and two menus then share *)
(* a name.                                                                   *)
THEOREM CardsShowTheirMenu == Spec => []CardShowsItsMenu
<1>1. overtaken \/ MenuInvariant => CardShowsItsMenu
  BY DEF MenuInvariant, CardShowsItsMenu, Shown
<1>2. Init => overtaken \/ MenuInvariant
  BY MenuInitial
<1>3. Inv /\ (overtaken \/ MenuInvariant) /\ [Next]_vars => (overtaken \/ MenuInvariant)'
  BY MenuStep
<1> QED
  BY <1>1, <1>2, <1>3, Invariant, PTL DEF Spec
=============================================================================
