-------------------------------- MODULE Cart --------------------------------
(***************************************************************************)
(* The cart of one QR guest at one restaurant, the order cards prepared    *)
(* from it (app/services/cart.py, app/api/cart.py, app/api/qr.py), and the *)
(* menu it is checked against, edited by owners (app/services/owner.py)    *)
(* and catalog imports (scripts/).                                         *)
(*                                                                         *)
(* No statement of a cart request takes a lock: it reads the cart row, its *)
(* lines, the menu revision, the menu items, and writes what it computed   *)
(* by primary key when it commits.  Each is a step.  A line is identified  *)
(* by its item: a line deleted and added again is taken for the same row.  *)
(***************************************************************************)
EXTENDS Integers, FiniteSets

CONSTANTS
    Carts,          \* ids of carts rows
    Items,          \* menu items of the restaurant
    Prices,
    Contents,       \* quantity, notes and request codes of a line
    Tables,         \* table labels of the restaurant's QR codes
    Locales,
    Keys,           \* idempotency keys of the user
    Requests,       \* requests of the user served at the same time
    Editors,        \* owner requests and imports served at the same time
    None,
    ExpectedVersions, ExpectedRevisions,    \* what callers expect, if anything
    MaxVersion,     \* bound of the model: carts.version
    MaxRevision     \* bound of the model: restaurants.menu_revision

Versions == 1 .. MaxVersion
Revisions == 1 .. MaxRevision

ASSUME CartAssumptions ==
    /\ MaxVersion \in Nat \ {0} /\ MaxRevision \in Nat \ {0}
    /\ ExpectedVersions \subseteq Versions \cup {None}
    /\ ExpectedRevisions \subseteq Revisions \cup {None}
    /\ None \notin Carts \cup Versions \cup Revisions \cup Tables

VARIABLES
    menu,       \* restaurants.menu_revision with the menu_items
    cart,       \* carts with cart_items
    older,      \* older[c]: carts whose updated_at is before that of c
    orders,     \* orders, unique per (user_id, idempotency_key)
    txn,        \* per request: the open transaction
    edit,       \* per editor: the open transaction
    menus,      \* history: every menu that was committed
    overtaken,  \* history: an edit committed over a menu that it had not read
    answers     \* history: what prepare_order_card answered

vars == <<menu, cart, older, orders, txn, edit, menus, overtaken, answers>>

Menu == [revision: Revisions, available: SUBSET Items, price: [Items -> Prices]]
Line == [content: Contents, price: Prices]
Lines == [Items -> Line \cup {None}]
CartRow == [status: {"active", "abandoned"}, table: Tables, revision: Revisions,
            version: Versions, lines: Lines]

ASSUME NoneIsNoRow == None \notin CartRow

Card == [cart: Carts, version: Versions, revision: Revisions, lines: Lines]
\* What _order_card_request_fingerprint digests.
Fingerprint == [cart: Carts, version: ExpectedVersions,
                revision: ExpectedRevisions, locale: Locales]
Order == [request: Fingerprint, result: Card]

Change == [kind: {"upsert"}, item: Items, content: Contents]
    \cup [kind: {"delete"}, item: Items]
    \cup [kind: {"settings"}]
Prepare == [kind: {"prepare"}, key: Keys, locale: Locales]
\* The optional expected_version and expected_menu_revision of every request.
Expect == [version: ExpectedVersions, revision: ExpectedRevisions]

Idle == [phase |-> "idle"]
Scanned == [phase: {"scanned"}, table: Tables \cup {None}, revision: Revisions]
Opening == [phase: {"opening"}, table: Tables, revision: Revisions, replaced: Carts \cup {None}]
Loaded == [phase: {"loaded"}, op: Change \cup Prepare, expect: Expect, cart: Carts,
           version: Versions, revision: Revisions]
Listed == [phase: {"listed", "current"}, op: Change \cup Prepare, expect: Expect,
           cart: Carts, version: Versions, revision: Revisions, lines: Lines]
Checked == [phase: {"checked"}, op: Change, expect: Expect, cart: Carts, version: Versions,
            line: Line \cup {None}, write: Line \cup {None}]
Built == [phase: {"built"}, op: Prepare, expect: Expect, card: Card]
Txn == {Idle} \cup Scanned \cup Opening \cup Loaded \cup Listed \cup Checked \cup Built

NoEdit == [phase |-> "idle"]
Toggle == [phase: {"availability"}, revision: Revisions, item: Items, available: BOOLEAN]
Import == [phase: {"import"}, revision: Revisions, item: Items, price: Prices]
Edit == {NoEdit} \cup Toggle \cup Import

TypeOK ==
    /\ menu \in Menu
    /\ cart \in [Carts -> CartRow \cup {None}]
    /\ older \in [Carts -> SUBSET Carts]
    /\ orders \in [Keys -> Order \cup {None}]
    /\ txn \in [Requests -> Txn]
    /\ edit \in [Editors -> Edit]
    /\ menus \subseteq Menu /\ overtaken \in BOOLEAN
    /\ answers \subseteq [key: Keys, request: Fingerprint, result: Card \cup {None}]

-----------------------------------------------------------------------------
Close(r) == txn' = [txn EXCEPT ![r] = Idle]
Active == {c \in Carts : cart[c] # None /\ cart[c].status = "active"}

\* _current_cart_query(...).first(): of the active carts, the last updated.
Current ==
    IF Active = {} THEN None ELSE CHOOSE c \in Active : Active \subseteq older[c] \cup {c}

\* Cart c is the last updated.
Touch(c) == older' = [d \in Carts |-> IF d = c THEN Carts \ {c} ELSE older[d] \ {c}]

\* Fault: the menu revision of the restaurant is not compared.
ExpectationsMetByCart(t) ==
    /\ t.expect.version \in {None, t.version}
    /\ t.expect.revision \in {None, t.revision}

\* _validate_versions, with the cart as it was loaded.
ExpectationsMet(t) ==
    /\ t.expect.version \in {None, t.version}
    /\ t.expect.revision \in {None, t.revision}
    /\ t.revision = menu.revision

-----------------------------------------------------------------------------
(* create_qr_guest_session, and current_session_bootstrap when the menu    *)
(* changed: get_or_create_cart.                                            *)

\* The restaurant is read.  A bootstrap (None) keeps the table of the cart.
ReadRestaurant(r, table) ==
    /\ txn[r] = Idle
    /\ txn' = [txn EXCEPT ![r] =
           [phase |-> "scanned", table |-> table, revision |-> menu.revision]]
    /\ UNCHANGED <<menu, cart, older, orders, edit, menus, overtaken, answers>>

\* The current cart is read.  One of the wanted table and menu revision is
\* kept; a bootstrap that finds no cart is refused.
OpenRead(r) ==
    LET t == txn[r]
        table == IF t.table = None THEN cart[Current].table ELSE t.table
    IN /\ t.phase = "scanned"
       /\ IF Current = None THEN t.table # None
          ELSE <<cart[Current].table, cart[Current].revision>> # <<table, t.revision>>
       /\ txn' = [txn EXCEPT ![r] = [phase |-> "opening", table |-> table,
                                     revision |-> t.revision, replaced |-> Current]]
       /\ UNCHANGED <<menu, cart, older, orders, edit, menus, overtaken, answers>>

\* Fault: a new cart has no version yet.
NewCartUncounted(t) ==
    [status |-> "active", table |-> t.table, revision |-> t.revision,
     version |-> 0, lines |-> [i \in Items |-> None]]

NewCart(t) ==
    [status |-> "active", table |-> t.table, revision |-> t.revision,
     version |-> 1, lines |-> [i \in Items |-> None]]

\* Fault: the replaced cart is abandoned, and no cart takes its place.
AbandonOnly(t, c) ==
    /\ cart' = IF t.replaced = None THEN [cart EXCEPT ![c] = NewCart(t)]
               ELSE [cart EXCEPT ![t.replaced].status = "abandoned"]
    /\ Touch(c)

\* The cart read is abandoned and cart c takes its place, in one transaction.
Replace(t, c) ==
    /\ cart' = [d \in Carts |->
           IF d = c THEN NewCart(t)
           ELSE IF d = t.replaced THEN [cart[d] EXCEPT !.status = "abandoned"]
           ELSE cart[d]]
    /\ Touch(c)

OpenCommit(r) ==
    /\ txn[r].phase = "opening"
    /\ \E c \in Carts : cart[c] = None /\ Replace(txn[r], c)
    /\ Close(r)
    /\ UNCHANGED <<menu, orders, edit, menus, overtaken, answers>>

-----------------------------------------------------------------------------
(* upsert_item, delete_item, update_settings.                              *)

LoadCart(r, op, expect) ==
    /\ txn[r] = Idle
    /\ Current # None
    /\ txn' = [txn EXCEPT ![r] =
           [phase |-> "loaded", op |-> op, expect |-> expect, cart |-> Current,
            version |-> cart[Current].version, revision |-> cart[Current].revision]]
    /\ UNCHANGED <<menu, cart, older, orders, edit, menus, overtaken, answers>>

\* selectinload: the lines, in a statement of their own.
LoadLines(r) ==
    LET t == txn[r] IN
    /\ t.phase = "loaded"
    /\ txn' = [txn EXCEPT ![r] =
           [phase |-> "listed", op |-> t.op, expect |-> t.expect, cart |-> t.cart,
            version |-> t.version, revision |-> t.revision, lines |-> cart[t.cart].lines]]
    /\ UNCHANGED <<menu, cart, older, orders, edit, menus, overtaken, answers>>

\* The menu revision is read and the versions compared.  A request that is
\* refused here or later ends with Abort.
ReadRevision(r) ==
    LET t == txn[r] IN
    /\ t.phase = "listed"
    /\ t.op \in Prepare => orders[t.op.key] = None
    /\ ExpectationsMet(t)
    /\ txn' = [txn EXCEPT ![r].phase = "current"]
    /\ UNCHANGED <<menu, cart, older, orders, edit, menus, overtaken, answers>>

\* What each change asks of the line it found and of the menu item.
Allows(op, line) ==
    \/ op.kind = "settings"
    \/ op.kind = "delete" /\ line # None
    \/ /\ op.kind = "upsert"
       /\ op.item \in menu.available
       /\ line # None => line.price = menu.price[op.item]

Check(r) ==
    LET t == txn[r]
        line == IF t.op.kind = "settings" THEN None ELSE t.lines[t.op.item]
    IN /\ t.phase = "current"
       /\ t.op \in Change
       /\ Allows(t.op, line)
       /\ txn' = [txn EXCEPT ![r] =
              [phase |-> "checked", op |-> t.op, expect |-> t.expect, cart |-> t.cart,
               version |-> t.version, line |-> line,
               write |-> IF t.op.kind # "upsert" THEN None
                         ELSE [content |-> t.op.content, price |-> menu.price[t.op.item]]]]
       /\ UNCHANGED <<menu, cart, older, orders, edit, menus, overtaken, answers>>

\* No UPDATE is sent for a line that keeps its content.
Unwritten(t) == t.line # None /\ t.write # None /\ t.line.content = t.write.content

\* An INSERT fails on the unique key, an UPDATE of a deleted row fails too; a
\* DELETE of a row that is gone does not.
LineWritable(t, there) ==
    \/ t.write = None
    \/ Unwritten(t)
    \/ (t.line = None) = (there = None)

ChangeCommit(r) ==
    LET t == txn[r]
        item == t.op.item
    IN /\ t.phase = "checked"
       /\ t.version < MaxVersion
       /\ t.op.kind # "settings" => LineWritable(t, cart[t.cart].lines[item])
       /\ cart' = [cart EXCEPT
              ![t.cart].version = t.version + 1,
              ![t.cart].lines =
                  IF t.op.kind = "settings" \/ Unwritten(t) THEN @
                  ELSE [@ EXCEPT ![item] = t.write]]
       /\ Touch(t.cart)
       /\ Close(r)
       /\ UNCHANGED <<menu, orders, edit, menus, overtaken, answers>>

-----------------------------------------------------------------------------
(* prepare_order_card.                                                     *)

FingerprintOf(op, expect, c) ==
    [cart |-> c, version |-> expect.version, revision |-> expect.revision,
     locale |-> op.locale]

\* Fault: a replay does not compare the fingerprint.
ReplayedUnchecked(k, f, order) == [key |-> k, request |-> f, result |-> order.result]

\* _replay_order_card: the stored snapshot, or idempotency_key_conflict.
Replayed(k, f, order) ==
    [key |-> k, request |-> f,
     result |-> IF order.request = f THEN order.result ELSE None]

\* Responses may be lost.
Respond(k, f, order) == answers' \in {answers, answers \cup {Replayed(k, f, order)}}

\* The key was used before.
PrepareAgain(r) ==
    LET t == txn[r] IN
    /\ t.phase = "listed"
    /\ t.op \in Prepare
    /\ orders[t.op.key] # None
    /\ Respond(t.op.key, FingerprintOf(t.op, t.expect, t.cart), orders[t.op.key])
    /\ Close(r)
    /\ UNCHANGED <<menu, cart, older, orders, edit, menus, overtaken>>

Offered(lines) ==
    \A i \in Items : lines[i] # None => i \in menu.available /\ lines[i].price = menu.price[i]

\* build_order_card: the cart has a line, and every line is still offered at
\* the price it was added for.
PrepareBuild(r) ==
    LET t == txn[r] IN
    /\ t.phase = "current"
    /\ t.op \in Prepare
    /\ \E i \in Items : t.lines[i] # None
    /\ Offered(t.lines)
    /\ txn' = [txn EXCEPT ![r] =
           [phase |-> "built", op |-> t.op, expect |-> t.expect,
            card |-> [cart |-> t.cart, version |-> t.version,
                      revision |-> t.revision, lines |-> t.lines]]]
    /\ UNCHANGED <<menu, cart, older, orders, edit, menus, overtaken, answers>>

\* The order is inserted; if the key was taken meanwhile, the winner is read
\* and replayed.
PrepareCommit(r) ==
    LET t == txn[r]
        k == t.op.key
        f == FingerprintOf(t.op, t.expect, t.card.cart)
    IN /\ t.phase = "built"
       /\ orders' = IF orders[k] # None THEN orders
                    ELSE [orders EXCEPT ![k] = [request |-> f, result |-> t.card]]
       /\ Respond(k, f, orders'[k])
       /\ Close(r)
       /\ UNCHANGED <<menu, cart, older, edit, menus, overtaken>>

\* A refusal, an error, a lost connection: rollback.
Abort(r) ==
    /\ txn[r] # Idle
    /\ Close(r)
    /\ UNCHANGED <<menu, cart, older, orders, edit, menus, overtaken, answers>>

-----------------------------------------------------------------------------
(* Menu edits: update_menu_availability of an owner, and import_catalog    *)
(* with a new price.  Both read the restaurant, and write its revision and *)
(* the attribute they changed.                                             *)

AvailabilityRead(e, i) ==
    /\ edit[e] = NoEdit
    /\ edit' = [edit EXCEPT ![e] = [phase |-> "availability", revision |-> menu.revision,
                                    item |-> i, available |-> i \notin menu.available]]
    /\ UNCHANGED <<menu, cart, older, orders, txn, menus, overtaken, answers>>

ImportRead(e, i, p) ==
    /\ edit[e] = NoEdit
    /\ p # menu.price[i]
    /\ edit' = [edit EXCEPT ![e] = [phase |-> "import", revision |-> menu.revision,
                                    item |-> i, price |-> p]]
    /\ UNCHANGED <<menu, cart, older, orders, txn, menus, overtaken, answers>>

\* The revision an edit writes: the one it read, plus one.
NextRevision(t) == t.revision + 1

Edited(t) ==
    IF t.phase = "import"
    THEN [menu EXCEPT !.revision = NextRevision(t), !.price[t.item] = t.price]
    ELSE [menu EXCEPT !.revision = NextRevision(t),
                      !.available = IF t.available THEN @ \cup {t.item} ELSE @ \ {t.item}]

EditCommit(e) ==
    /\ edit[e] # NoEdit
    /\ edit[e].revision < MaxRevision
    /\ menu' = Edited(edit[e])
    /\ menus' = menus \cup {menu'}
    /\ overtaken' = (overtaken \/ edit[e].revision # menu.revision)
    /\ edit' = [edit EXCEPT ![e] = NoEdit]
    /\ UNCHANGED <<cart, older, orders, txn, answers>>

EditAbort(e) ==
    /\ edit[e] # NoEdit
    /\ edit' = [edit EXCEPT ![e] = NoEdit]
    /\ UNCHANGED <<menu, cart, older, orders, txn, menus, overtaken, answers>>

-----------------------------------------------------------------------------
Init ==
    /\ \E price \in [Items -> Prices] :
           menu = [revision |-> 1, available |-> Items, price |-> price]
    /\ cart = [c \in Carts |-> None]
    /\ older = [c \in Carts |-> {}]
    /\ orders = [k \in Keys |-> None]
    /\ txn = [r \in Requests |-> Idle]
    /\ edit = [e \in Editors |-> NoEdit]
    /\ menus = {menu} /\ overtaken = FALSE
    /\ answers = {}

Next ==
    \/ \E r \in Requests :
          \/ \E table \in Tables \cup {None} : ReadRestaurant(r, table)
          \/ OpenRead(r)
          \/ OpenCommit(r)
          \/ \E op \in Change \cup Prepare, expect \in Expect : LoadCart(r, op, expect)
          \/ LoadLines(r)
          \/ ReadRevision(r)
          \/ Check(r)
          \/ ChangeCommit(r)
          \/ PrepareAgain(r)
          \/ PrepareBuild(r)
          \/ PrepareCommit(r)
          \/ Abort(r)
    \/ \E e \in Editors :
          \/ \E i \in Items : AvailabilityRead(e, i) \/ \E p \in Prices : ImportRead(e, i, p)
          \/ EditCommit(e)
          \/ EditAbort(e)

Spec == Init /\ [][Next]_vars

-----------------------------------------------------------------------------
(* uq orders (user_id, idempotency_key) and _replay_order_card: a retry of *)
(* a prepare, concurrent or later, creates no second order and returns the *)
(* card that was stored, whatever became of the cart (cart.py:593-738).    *)
Store == INSTANCE IdempotentStore WITH Requests <- Fingerprint, Results <- Card, stored <- orders
PrepareIsIdempotent == Store!Spec

(* A guest that was given a cart always has one: a cart is abandoned only  *)
(* in the transaction that creates its successor (cart.py:83-109), however *)
(* many sessions replace carts at the same time.                           *)
CartIsNeverLost == (\E c \in Carts : cart[c] # None) => Active # {}

(* A prepared card shows lines that were on offer, at the prices shown, on *)
(* a menu of the revision it names: the unlocked reads of the cart, of its *)
(* lines, of the revision and of the items never mix two menus             *)
(* (cart.py:482-560).  It fails only once an edit has committed over a     *)
(* menu that it had not read: two menus then bear one revision, as each    *)
(* edit writes the revision it read plus one.                              *)
CardShowsItsMenu ==
    \A k \in Keys : orders[k] # None =>
        LET card == orders[k].result IN
        \A i \in Items : card.lines[i] # None =>
            \/ overtaken
            \/ \E m \in menus :
                   /\ m.revision = card.revision
                   /\ i \in m.available
                   /\ m.price[i] = card.lines[i].price

(* "The cart changed on another client. Reload it before trying again."    *)
(* (cart.py:119): a change that names a version is applied to the cart of  *)
(* that version, never to a newer one.                                     *)
ChangesApplyToTheirVersion ==
    [][\A r \in Requests :
        ChangeCommit(r) /\ txn[r].expect.version # None =>
            cart[txn[r].cart].version = txn[r].expect.version]_vars
=============================================================================
