--------------------------- MODULE CatalogImport ---------------------------
(***************************************************************************)
(* The two catalog importers: of a crawled region                          *)
(* (scripts/import_jeju_catalog.py, set-based, every column of a row that  *)
(* differs) and of a manifest (scripts/import_catalog.py, by row, the      *)
(* columns that the manifest sets and that differ).  Each is one           *)
(* transaction that reads a row in one statement and writes it in a later  *)
(* one, while owners and moderators write to the same rows.  Batches are   *)
(* of one row; a row of menu_items stands for its translations and links.  *)
(***************************************************************************)
EXTENDS Integers, Sequences, FiniteSets

CONSTANTS
    Crawls,         \* what the region's two databases may hold
    Manifests,      \* manifests that passed load_catalog_manifest
    Kakao, Products,    \* restaurants, and the products of a menu: numbers
    MaxPrice,       \* MAX_MENU_PRICE_AMOUNT
    LastRevision    \* bound on menu_revision, not in the code

VARIABLES
    spots,      \* restaurants: their publication and menu_revision
    menuItems,  \* menu_items, by restaurant and product
    run,        \* the importer at work
    owner,      \* an owner's request that has read its row
    settled     \* the crawl applied last, while nobody has written since

importVars == <<spots, menuItems, run, owner, settled>>

Option(S) == {T \in SUBSET S : \A v, w \in T : v = w}
\* A map with one key set.
With(f, key, v) == [y \in DOMAIN f \cup {key} |-> IF y = key THEN v ELSE f[y]]
Maps(f, D, S) == DOMAIN f \subseteq D /\ f \in [DOMAIN f -> S]

ItemKeys == Kakao \X Products
SpotRow == [published : BOOLEAN, revision : Nat]
ItemRow == [price : Option(Nat), available : BOOLEAN, at : Nat]

\* What a source sets of a row: of a restaurant its publication, of an item the
\* rest; a column is left out as {}.
Columns == [price : Option(Option(Nat)), available : Option(BOOLEAN), at : Option(Nat),
            published : Option(BOOLEAN)]
Unset == [price |-> {}, available |-> {}, at |-> {}, published |-> {}]
Empty == [x \in {} |-> 0]

\* A row to be upserted, and its turn among the others.
Tasks == [what : {"spot", "item"}, p : Kakao, k : Nat \X Nat, to : Columns,
          turn : Nat \X Nat \X Nat]

SourceRow == [product : Nat, price : Int, soldout : BOOLEAN]

ASSUME ImportAssumptions ==
    /\ Kakao \subseteq Nat /\ Products \subseteq Nat \ {0}
    /\ MaxPrice \in Nat /\ LastRevision \in Nat
    /\ \A c \in Crawls : /\ c.places \subseteq Kakao
                         /\ c.lists \in [c.places -> [menus : Seq(SourceRow), yogiyo : Seq(SourceRow)]]
    /\ \A m \in Manifests :
          /\ DOMAIN m.restaurants \subseteq Kakao
          /\ \A p \in DOMAIN m.restaurants : /\ m.restaurants[p].published \in Option(BOOLEAN)
                                           /\ Maps(m.restaurants[p].items, Products, Columns)

NoRun == [at |-> "idle", kind |-> "region", source |-> {}, apply |-> FALSE, todo |-> {},
         seen |-> {}, spots |-> Empty, menus |-> Empty, changed |-> {}, new |-> {},
         base |-> Empty, calm |-> TRUE]

ImportTypes ==
    /\ Maps(spots, Kakao, SpotRow) /\ Maps(menuItems, ItemKeys, ItemRow)
    /\ DOMAIN run = DOMAIN NoRun
    /\ run.at \in {"idle", "read", "write"} /\ run.kind \in {"region", "manifest"}
    /\ run.source \subseteq IF run.kind = "region" THEN Crawls ELSE Manifests
    /\ run.apply \in BOOLEAN /\ run.calm \in BOOLEAN
    /\ run.todo \subseteq Tasks /\ run.seen \in Option(SpotRow \cup ItemRow)
    /\ Maps(run.spots, Kakao, Columns) /\ Maps(run.menus, ItemKeys, Columns)
    /\ run.changed \subseteq Kakao /\ run.new \subseteq Kakao /\ Maps(run.base, Kakao, Nat)
    /\ owner \in Option([k : ItemKeys, row : ItemRow, revision : Nat])
    /\ settled \in Option(Crawls)

ImportInit ==
    /\ spots = Empty /\ menuItems = Empty /\ settled = {}
    /\ run = NoRun
    /\ owner = {}

-----------------------------------------------------------------------------
\* load_region_sources: the chosen source of a place, and what is refused.
Chosen(c, p) == IF c.lists[p].menus # <<>> THEN c.lists[p].menus ELSE c.lists[p].yogiyo

Sound(c) == c.places # {} /\ c.jobs = c.places

\* _normalized_menu_price
NormalPrice(raw) == IF 1 <= raw /\ raw <= MaxPrice THEN {raw} ELSE {}

\* The rows with a product, the first of each.
Selected(list) ==
    {n \in DOMAIN list : /\ list[n].product \in Products
                         /\ \A m \in 1 .. n - 1 : list[m].product # list[n].product}

SpotTask(p, to, turn) == [what |-> "spot", p |-> p, k |-> <<p, 0>>, to |-> to, turn |-> turn]
ItemTask(p, product, to, turn) ==
    [what |-> "item", p |-> p, k |-> <<p, product>>, to |-> to, turn |-> turn]

\* Restaurants, then the items of each, in the order of the cursors.  The
\* category "menu" of each place is left out: nobody else writes it, and its
\* insert, in a restaurant that another source brought, moves the revision too.
RegionTasks(c) ==
    {SpotTask(p, [Unset EXCEPT !.published = {TRUE}], <<0, p, 0>>) : p \in c.places}
    \cup UNION {LET list == Chosen(c, p) IN
                {ItemTask(p, list[n].product,
                          [price |-> {NormalPrice(list[n].price)},
                           available |-> {~list[n].soldout}, at |-> {n}, published |-> {}],
                          <<1, p, n>>) : n \in Selected(list)} : p \in c.places}

\* _upsert_restaurants: a restaurant, its items, and then its revision.
ManifestTasks(m) ==
    LET rows == m.restaurants IN
    {SpotTask(p, [Unset EXCEPT !.published = rows[p].published], <<p, 0, 0>>) : p \in DOMAIN rows}
    \cup UNION {{ItemTask(p, i, rows[p].items[i], <<p, 1, i>>) : i \in DOMAIN rows[p].items} :
                   p \in DOMAIN rows}

Earlier(t, u) ==
    \/ t[1] < u[1]
    \/ t[1] = u[1] /\ t[2] < u[2]
    \/ t[1] = u[1] /\ t[2] = u[2] /\ t[3] < u[3]

\* The row whose turn it is.
OnTurn(task) == \A other \in run.todo \ {task} : Earlier(task.turn, other.turn)

-----------------------------------------------------------------------------
BeginImport(kind, source, tasks, apply) ==
    /\ run.at = "idle"
    /\ run' = [NoRun EXCEPT !.at = "read", !.kind = kind, !.source = {source}, !.todo = tasks,
                           !.apply = apply]
    /\ UNCHANGED <<spots, menuItems, owner, settled>>

\* A dry run does the same and rolls back.  Sources that do not fit together are
\* refused before a row is read.
BeginRegion(c, apply) == Sound(c) /\ BeginImport("region", c, RegionTasks(c), apply)
BeginManifest(m, apply) == BeginImport("manifest", m, ManifestTasks(m), apply)

\* The existing row, in a statement of its own.
ReadRow ==
    /\ run.at = "read"
    /\ \E task \in run.todo :
         /\ OnTurn(task)
         /\ run' = [run EXCEPT
                !.at = "write",
                !.seen = IF task.what = "spot"
                         THEN IF task.p \in DOMAIN spots THEN {spots[task.p]} ELSE {}
                         ELSE IF task.k \in DOMAIN menuItems THEN {menuItems[task.k]} ELSE {},
                !.base = IF task.what = "spot" /\ task.p \in DOMAIN spots
                         THEN With(@, task.p, spots[task.p].revision) ELSE @]
    /\ UNCHANGED <<spots, menuItems, owner, settled>>

\* Fault: an unknown price differs from itself, as NULL does in SQL.
DiffersAsNull(row, to) ==
    \E c \in DOMAIN row \cap DOMAIN to :
        to[c] # {} /\ (to[c] # {row[c]} \/ (c = "price" /\ to[c] = {{}}))

Differs(row, to) ==
    \E c \in DOMAIN row \cap DOMAIN to : to[c] # {} /\ to[c] # {row[c]}

\* The columns of the UPDATE: region imports write all of theirs, the session
\* of a manifest import those that differ from the row it read.
Written(row, to) ==
    IF run.kind = "region" THEN to
    ELSE [c \in DOMAIN to |-> IF c \in DOMAIN row /\ to[c] # {row[c]} THEN to[c] ELSE {}]

Defaults == [price |-> {{}}, available |-> {TRUE}, at |-> {0}, published |-> {FALSE}]
Filled(to) == [c \in DOMAIN to |-> IF to[c] = {} THEN Defaults[c] ELSE to[c]]

\* The row is written with columns w.
Upsert(task, w) ==
    LET spot == task.what = "spot" IN
    [run EXCEPT !.at = "read", !.todo = @ \ {task}, !.seen = {},
                !.spots = IF spot THEN With(@, task.p, w) ELSE @,
                !.menus = IF spot THEN @ ELSE With(@, task.k, w),
                !.new = IF spot /\ run.seen = {} THEN @ \cup {task.p} ELSE @,
                !.changed = IF spot THEN @ ELSE @ \cup {task.p}]

WriteRow ==
    /\ run.at = "write"
    /\ \E task \in run.todo :
         /\ OnTurn(task)
         /\ \/ run.seen = {} /\ run' = Upsert(task, Filled(task.to))
            \/ \E row \in run.seen :
                 /\ Differs(row, task.to)
                 /\ run' = Upsert(task, Written(row, task.to))
            \/ \E row \in run.seen :
                 /\ ~Differs(row, task.to)
                 /\ run' = [run EXCEPT !.at = "read", !.todo = @ \ {task}, !.seen = {}]
    /\ UNCHANGED <<spots, menuItems, owner, settled>>

-----------------------------------------------------------------------------
\* What the transaction has locked: the rows it wrote, and those it inserted.
LockedSpots == DOMAIN run.spots
LockedItems == DOMAIN run.menus

Put(row, w) == [c \in DOMAIN row |-> IF c \in DOMAIN w /\ w[c] # {}
                                     THEN CHOOSE v \in w[c] : TRUE ELSE row[c]]

\* Fault: the revision of a restaurant moves with its own columns alone.
BumpedWithSpot == DOMAIN run.spots \ run.new

\* Restaurants whose menu changed, without those that are new.
Bumped == run.changed \ run.new

\* A region import adds one in SQL, a manifest import to the value it read.
Revision(p) ==
    IF p \in run.new THEN 1
    ELSE IF p \notin Bumped THEN spots[p].revision
    ELSE IF run.kind = "region" THEN spots[p].revision + 1 ELSE run.base[p] + 1

\* The last statements, and the commit: or the rollback of a dry run.
Finish ==
    /\ run.at = "read" /\ run.todo = {}
    /\ run' = NoRun
    /\ IF run.apply
       THEN /\ spots' = [p \in DOMAIN spots \cup run.new |->
                LET old == IF p \in DOMAIN spots THEN spots[p]
                           ELSE [published |-> FALSE, revision |-> 1]
                    row == IF p \in DOMAIN run.spots THEN Put(old, run.spots[p]) ELSE old
                IN [row EXCEPT !.revision = Revision(p)]]
            /\ menuItems' = [k \in DOMAIN menuItems \cup DOMAIN run.menus |->
                LET old == IF k \in DOMAIN menuItems THEN menuItems[k]
                           ELSE [price |-> {}, available |-> TRUE, at |-> 0]
                IN IF k \in DOMAIN run.menus THEN Put(old, run.menus[k]) ELSE old]
            /\ settled' = IF run.kind = "region" /\ run.calm THEN run.source ELSE {}
       ELSE UNCHANGED <<spots, menuItems, settled>>
    /\ \A p \in Bumped : spots[p].revision < LastRevision
    /\ UNCHANGED owner

\* An error of the database, or a killed process: everything is rolled back.
Fail ==
    /\ run.at # "idle"
    /\ run' = NoRun
    /\ UNCHANGED <<spots, menuItems, owner, settled>>

-----------------------------------------------------------------------------
Disturbed == run' = [run EXCEPT !.calm = FALSE]

\* update_menu_availability: the restaurant and the item as they were read.
OwnerRead(k) ==
    /\ owner = {} /\ k \in DOMAIN menuItems
    /\ owner' = {[k |-> k, row |-> menuItems[k], revision |-> spots[k[1]].revision]}
    /\ UNCHANGED <<spots, menuItems, run, settled>>

\* Its UPDATEs wait for the importer's; the session writes what it changed.
OwnerWrite(b) ==
    /\ owner # {}
    /\ \E o \in owner :
       IF o.row.available = b THEN UNCHANGED <<spots, menuItems, run, settled>>
       ELSE /\ o.k \notin LockedItems /\ o.k[1] \notin LockedSpots
            /\ o.revision < LastRevision
            /\ menuItems' = [menuItems EXCEPT ![o.k].available = b]
            /\ spots' = [spots EXCEPT ![o.k[1]].revision = o.revision + 1]
            /\ Disturbed /\ settled' = {}
    /\ owner' = {}

\* update_restaurant_moderation.
Moderate(p) ==
    /\ p \in DOMAIN spots \ LockedSpots
    /\ spots' = [spots EXCEPT ![p].published = ~@]
    /\ Disturbed /\ settled' = {}
    /\ UNCHANGED <<menuItems, owner>>

ImportNext ==
    \/ \E c \in Crawls, apply \in BOOLEAN : BeginRegion(c, apply)
    \/ \E m \in Manifests, apply \in BOOLEAN : BeginManifest(m, apply)
    \/ ReadRow \/ WriteRow \/ Finish \/ Fail
    \/ \E k \in ItemKeys : OwnerRead(k)
    \/ \E b \in BOOLEAN : OwnerWrite(b)
    \/ \E p \in Kakao : Moderate(p)

ImportSpec == ImportInit /\ [][ImportNext]_importVars

-----------------------------------------------------------------------------
\* A crawl that was applied and that nobody has written over since is imported
\* again without a write, so that no revision moves (import_jeju_catalog.py:679).
ReimportIsSilent ==
    run.kind = "region" /\ run.calm /\ run.source = settled /\ settled # {} =>
        run.spots = Empty /\ run.menus = Empty

\* After an import that nobody wrote in, every place of the crawl is published
\* and every product of its chosen source is shown as it is listed first; a
\* price that is not one is unknown (import_jeju_catalog.py:964, :857).
CrawlIsShown ==
    \A c \in settled : \A p \in c.places :
        /\ spots[p].published
        /\ \A n \in DOMAIN Chosen(c, p) :
             LET row == Chosen(c, p)[n]
                 first == \A m \in 1 .. n - 1 : Chosen(c, p)[m].product # row.product IN
             row.product \in Products /\ first =>
                 menuItems[<<p, row.product>>] =
                     [price |-> IF row.price \in 1 .. MaxPrice THEN {row.price} ELSE {},
                      available |-> ~row.soldout, at |-> n]

\* A crawl that was imported is shown, and importing it again changes nothing
\* (import_jeju_catalog.py:679, :964).
CrawlsSettle == ReimportIsSilent /\ CrawlIsShown

\* The import changes an item of the menu of p, or adds one.
ChangesMenu(p) ==
    \E k \in DOMAIN menuItems' :
        k[1] = p /\ (k \notin DOMAIN menuItems \/ menuItems'[k] # menuItems[k])

\* A menu whose items the import changes has its next revision, on which carts
\* depend: in a region whatever owners do meanwhile, from a manifest, which writes
\* back a value that it read, when nobody wrote since it began.
RevisionsMove ==
    run.apply /\ (run.kind = "region" \/ run.calm) =>
        \A p \in DOMAIN spots :
            ChangesMenu(p) => spots'[p].revision = spots[p].revision + 1

Named(k) ==
    \E s \in run.source :
        IF run.kind = "region"
        THEN k[1] \in s.places /\ \E n \in DOMAIN Chosen(s, k[1]) : Chosen(s, k[1])[n].product = k[2]
        ELSE k[1] \in DOMAIN s.restaurants /\ k[2] \in DOMAIN s.restaurants[k[1]].items

\* The items of menus that the source does not list, and the columns of an item
\* that a manifest omits, are as others have left them, whenever they wrote.
OmittedIsKept ==
    \A k \in DOMAIN menuItems :
        /\ ~Named(k) => menuItems'[k] = menuItems[k]
        /\ run.kind = "manifest" /\ Named(k) =>
             \A s \in run.source, c \in {"price", "available", "at"} :
                s.restaurants[k[1]].items[k[2]][c] = {} => menuItems'[k][c] = menuItems[k][c]

\* A region's import counts every menu whose items it changes in that menu's
\* revision, and so does a manifest's in which nobody wrote; both leave the items
\* that the source does not list, and the columns of items that a manifest omits,
\* as owners have them, whatever they wrote meanwhile (import_jeju_catalog.py:901,
\* :1064, import_catalog.py:308, :784).
ImportsCountTheirChanges == [][Finish => RevisionsMove /\ OmittedIsKept]_importVars
=============================================================================
