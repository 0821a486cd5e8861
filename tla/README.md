# FOFU backend: specifications and proofs

TLA+ models of the FOFU backend (FastAPI, SQLAlchemy, PostgreSQL), TLC
configurations that check them on small instances, and TLAPS proofs that hold
for every instance. Paths are relative to the repository root.

The service is a set of stateless API processes over one database. Requests run
in threads, one SQLAlchemy session and one transaction each, under READ
COMMITTED; `autoflush` and `expire_on_commit` are off (`app/database.py:30`), so
an ORM object keeps the values it was loaded with until the commit. Each
process also runs one push worker (`app/main.py:37-46`). All interaction between
components is through rows. What is hard is therefore the order of
statements of different transactions: reads acted on later, row locks, unique
keys, leases, crashes.

## 1. Inventory

| component | state | operations | hard behaviour | what makes it correct |
|---|---|---|---|---|
| **Push outbox** (`services/push.py`) | `push_devices`, `push_deliveries`, dispatch threads | register / unregister a device, enqueue on message, sweep, claim, dispatch, finish, invalidate, purge | leases against slow threads and crashes; ids read then updated; device read without a lock; deadlocks between 410 answers | one lease holder; pushes bounded by attempts; terminal rows final; cap of live bindings; queued rows settle; dead bindings retire |
| **APNs client** (`push.py:490-663`) | cached provider token under a thread lock | send, refresh the token after a rejection | threads rejecting the same token at once; refresh rate limit | at most one refresh per interval; every answer classified |
| **Authentication** (`services/auth.py`, `api/auth.py`, `api/admin.py`, `dependencies.py`, `scripts/create_admin.py`) | `users`, `auth_identities`, `auth_sessions` | anonymous and QR guests, register, password and Google sign-in, guest upgrade, refresh rotation, logout, revoke all, administrators' sign-in, promotion | two upgrades of one guest; requests that read a guest before its upgrade; a refresh retried; sessions issued before a check | who acts as a member showed a proof; one upgrade wins; a refresh token works until its client exchanges it; a revoked session stays revoked; the public web site stops serving whoever is promoted |
| **Messaging** (`services/messaging.py`) | `conversations`, participants, `messages` | create conversation, send (idempotent), list, mark read | lookup then insert; retry racing the first try; read mark moving back | one message per client message id; a replay answers with the original |
| **Cart and order card** (`services/cart.py`, `api/qr.py`, `api/cart.py`) | `carts`, `cart_items`, `orders` | QR session, upsert / delete item, settings, preview, prepare | unlocked version check; duplicate active carts; idempotency key races | no lost update; one order per key; the snapshot is what was prepared |
| **Owner onboarding, moderation** (`services/owner.py`, `services/admin.py`) | applications, memberships, restaurants, hours, menu revision | apply, review, moderate, open flag, opening hours, menu availability | look up then insert; reviews that overlap; hours and revisions read without a lock | an owner was approved, in both tables; a verdict is final; hours are one patch unless patches raced |
| **Profile and passport** (`services/profile.py`) | `food_passports`, saved restaurants | get or create, versioned patch, save / unsave | version compared then written; PUT against PUT and DELETE | the version counts the changes; a PUT answers a row that was there |
| **Media upload** (`api/media.py`) | files, `media_assets` | stream, verify, move, record, clean up | file and row are two stores; crashes | a refused upload leaves nothing, an answered one has file and row |
| **Rate limiter** (`app/rate_limit.py`) | per-key deque under a lock | check | the clock is read before the lock | a window exceeds the limit by the threads that waited, at most |
| **Catalog** (`services/catalog.py`) | read only | open now, nearby, search, facets, compatibility | the same rule coded twice or three times; several statements per request; cursors that are offsets | the codings agree; a quiet walk sees each match once; a page has the rows it announces, with items that fit |
| **Importers, seeds** (`scripts/import_*.py`, `seed.py`) | catalog rows | upsert by natural key | rows read, then written, while owners write | importing again changes nothing; a menu whose items change has a new revision; what the source omits is kept |
| **Shell, deployment, migrations** | - | start and stop, configuration, schema | restart with another configuration | a restart finds the bindings of the old configuration and retires them (`Redeploy`) |

Interactions. Sessions are rows the outbox joins on every read: revocation
(`auth.py:628`, `qr.py:320`) calls `deactivate_session_devices` in its own
transaction. `send_message` calls `enqueue_message_notifications` before its
commit. The worker shares only rows with the requests. The QR endpoint issues a
session, revokes the guest's previous one and creates a cart in one transaction.
The owner's menu revision invalidates carts.

The full list of hazards, each at its line and with the properties that would
catch it, is in `PROJECT.json`.

## 2. Plan

The order in which the modules were written is that of what can go wrong in
them: actors first, data last.

1. `PushOutbox`, with `PushOutboxProofs`: the component with the most actors and
   the only background work.
2. `IdempotentStore`: the abstract promise of an endpoint with an idempotency
   key, with `IdempotentStoreProofs`; `Messaging` and `Cart` implement it, with
   proofs (`MessagingProofs`, `CartProofs`).
3. `AuthSessions`, with `AuthSessionsProofs`: accounts and sessions.
4. `Merchants`, with `MerchantsProofs`, and `OpeningHours`: who owns a
   restaurant, and the hours its members write.
5. `MediaUpload`, `ProviderToken`, `RateLimiter`, `Profile`: small protocols, each
   with its own kind of concurrency. `ServicesProofs` proves these and the hours.
6. `OpenNow`, `CatalogPages`, `MenuSearch`, `MenuEvidence`: what a diner is shown,
   where the code states one rule more than once.
7. `CatalogImport`: the two importers against owners and moderators.
8. `MCServices` and `MCCatalog` put modules that share no variable into one run.
   `ServicesProofs` and `CatalogProofs` prove that a behaviour of the run is one of each
   module; `CatalogProofs` also has the theorems of 6 and 7.

Every invariant and action property of the passing runs is a theorem. What a next step
could take: more of what each module promises (the keys that order the pages of
messages, the deletes of a rebinding); the composition of `AuthSessions` with the
outbox, which here share the session's revocation only through each other's constants.

## 3. The outbox model

### Correspondence

| model | code |
|---|---|
| `session` | `auth_sessions.revoked_at`, `expires_at` |
| `device` | `push_devices`: `is_active`, user, session, installation, token, (topic, environment), `last_registered_at` |
| `delivery` | `push_deliveries`, keyed by (`event_key`, `device_id`): status, recipient, `attempt_count`, `lease_id`; `ripe` stands for `available_at` or `lease_expires_at` being past |
| `posted` | messages committed |
| `config` | the topic and environment the processes run with |
| `txn` | the open transaction of a request: what it has read |
| `sweep`, `threads` | a worker's open claim; its dispatch threads |
| `clock` | the order of `last_registered_at`: the only timestamps the code compares with each other |
| `pushes` | history variable: requests sent to APNs |

`Authenticate`, `RegisterRead`, `RegisterCommit` are `PUT /push/devices`;
`UnregisterDevice` is the DELETE; `RevokeRead`, `RevokeCommit` logout and
revoke-all; `ProvisionAdmin` is `scripts/create_admin.py`; `SendRead`,
`SendCommit` the outbox part of `send_message`; `SweepRead`, `Claim`,
`ClaimFails`, `Purge` the worker's loop; `Check`, `Send`, `Finish`,
`InvalidateRead`, `InvalidateCommit`, `ThreadFails` one dispatch thread.
`PROJECT.json` maps every definition to its lines.

Operators introduced by a comment `Fault:` are not part of the specification:
each is a definition with a plausible bug, kept to see that the properties
notice it.

### Atomicity

A request is cut wherever it reads what it later acts on without a lock that
protects it. Within a step:

* `RegisterRead` goes from the user lock to the cap check. The obsolete and the
  stale bindings are one set, `~Routable`; their selection and their update are
  merged with the locked reads. Their rows, uncommitted, stay in `LockedDevices`
  until the commit.
* `RegisterCommit` decides the target row from what was read, and fails with a
  conflict if the unique keys are taken by then.
* `Claim` merges the sweep's two updates, the exhaustion update and the SELECT
  ... FOR UPDATE SKIP LOCKED. The ids of dead bindings, read first, are a
  separate step (`SweepRead`). Each later statement repeats its own conditions.
* `Finish` holds the row lock from its read to its commit; when it writes the
  device, which it read without a lock, it is two steps.

Row locks are what open transactions wrote or locked: devices of a registration,
deliveries of its stale bindings, the delivery an invalidation works on, the
user row of a registration (`UserLockFree`) and the sender's row under a flushed
message (`Sending`). A statement that would wait is a step that is not enabled.
A deadlock is possible, as in the database, and ends with a victim (`Abort`,
`ThreadFails`).

### Abstractions

Sessions exist from the start (they are never deleted); every user stays active;
one conversation holds all users; the order in which a batch is filled is not
modelled; the lease uuid is the attempt that drew it, which is as fresh; the APNs
answer is one of delivered, retryable, permanent, token invalid since a
time between 0 and now. Locale, wording and payload are left out. The rate
limiter, validation and configuration errors of a request are an `Abort`. SQLite,
which serialises writers, is not modelled.

## 4. Messages, carts and the store they implement

`IdempotentStore` is what a caller relies on: the first request with a key takes
effect once (`Put`), a later one with the same content gets the stored result
(`Replay`), one with another content is refused (`Refuse`), and any answer may
be lost. `Messaging` implements it with the messages that have a
`client_message_id` (`storedMessage`), `Cart` with `orders`.

| `Messaging` | code |
|---|---|
| `conversation` | `conversations` with `conversation_participants` |
| `messages` | committed `messages`; `at` is `created_at`, and identifies a message since each send draws its own tick of `clock` |
| `txn` | a create between its look-up and its commit; a send before its flush, after it, or after its unique key was violated; a read mark before its commit |
| `reader` | a client paging: the offset of its cursor, what was there when it began (`due`), what it was given (`seen`) |
| `CreateRead`, `CreateCommit` | `create_conversation` |
| `SendAgain`, `SendRead`, `Flush`, `SendCommit`, `SendRaced` | `send_message`: replay found by the look-up; message built; `db.flush()`; commit; replay after the `IntegrityError` |
| `MarkRead`, `MarkCommit` | `mark_conversation_read` |
| `FirstPage`, `NextPage` | `list_messages` |

A flushed send holds the rows of its conversation and of its participant
(`ConversationFree`, `ParticipantFree`), so that a second send to the conversation
waits at its flush. Memberships and staff do not change in the model; body, kind and attachment
are one content; the validation of an attachment is an `Abort`. A `last_read_at`
of NULL is time 0.

| `Cart` | code |
|---|---|
| `menu` | `restaurants.menu_revision`, `menu_items.is_available`, `price_amount` |
| `cart` | `carts` with `cart_items` of one QR guest at one restaurant; `older` is the order of `updated_at` |
| `orders` | `orders`, by `idempotency_key`: `request_fingerprint`, `response_snapshot` |
| `txn` | what a request has read: restaurant, cart row, lines, and what it computed |
| `edit` | a menu edit between its read of the restaurant and its commit |
| `menus` | history variable: menus that were committed |
| `ReadRestaurant`, `OpenRead`, `OpenCommit` | `create_qr_guest_session`, `current_session_bootstrap` through `get_or_create_cart` |
| `LoadCart`, `LoadLines`, `ReadRevision`, `Check`, `ChangeCommit` | `upsert_item`, `delete_item`, `update_settings` |
| `LoadCart`, `LoadLines`, `PrepareAgain`, `ReadRevision`, `PrepareBuild`, `PrepareCommit` | `prepare_order_card` |
| `AvailabilityRead`, `ImportRead`, `EditCommit` | `update_menu_availability`, `import_catalog` |

No statement of a cart request locks a row before it writes, so every read is a
step: the cart row, the lines (`selectinload` sends a second statement), the
restaurant, the items. A bootstrap reads the current cart twice; the model merges
the two. A commit writes what was computed, only the columns that changed:
the version that was read plus one, one line, one attribute of an item. An
expected version or revision is optional, as in the API. Left out: the contents
of a line beyond one value, an unknown price (a price like another), publication of
the restaurant, the passport's assessment on the card, and the identity of a
line that is deleted and added again.

## 5. Accounts, services and the catalog

Each of these modules models one file's handlers or a part of them. As in the
outbox, a request is cut where it reads what it later acts on without a lock.

### `AuthSessions`

| model | code |
|---|---|
| `users`, `identities`, `sessions` | `users`, `auth_identities`, `auth_sessions` |
| `surface` | the scope of a session with its `client_type`: guest, app, web, console |
| `rotation`, `known` | the hash of the refresh token, as a bit that every rotation flips; what of the session's tokens its client holds |
| `proof`, `lost`, `upgrades`, `late` | history: what a session's holder showed, whether a client's token was replaced by another, upgrades answered, answers with tokens of the public site to who is an administrator by then |
| `Anonymous` | `create_anonymous_user`, a QR scan without a bearer token |
| `RegisterRead`, `RegisterCommit` | `register_user` |
| `LoginRead`, `LoginCommit`, `RejectCommit` | `login_user` under `login` and `admin_login`: the session is committed, then the role is checked and the session revoked in a second transaction |
| `GoogleStart`, `GoogleReadLinked`, `GoogleSignIn`, `GoogleReadUnlinked`, `GoogleJoin`, `GoogleLink` | `login_google_user`, cut at the fetch of Google's certificates and at its commit |
| `ScanRead`, `ScanCommit` | `create_qr_guest_session` of a caller that is signed in |
| `RefreshRead`, `RefreshCommit` | `refresh`, `admin_refresh` over `rotate_refresh_token`, which holds the session's row lock |
| `Logout`, `LogoutEverywhere` | `logout`, `revoke_sessions` |
| `ProvisionRead`, `ProvisionRevoke`, `ProvisionCommit` | `provision_admin`: the account is read; UPDATE `auth_sessions`, which locks the sessions committed by then; UPDATE `users` and the COMMIT. Sessions that are opened after the second are not revoked |

Passwords and tokens are values that a caller knows or not. Expiry makes a session
refuse, like revocation and later, and is left out. The outbox's side of a
revocation is in `PushOutbox`.

### Services

| module | code | state |
|---|---|---|
| `Merchants` | `create_owner_application` (`FileRead`, `FileCommit`), `review_owner_application` (`ReviewRead`, `ReviewCommit`, `ApproveRead`, `ApproveCommit`), `update_restaurant_moderation` (`Moderate`), `update_open_status` (`SetOpen`) | applications, restaurants, memberships, and what each request has read or locked |
| `OpeningHours` | `update_opening_hours` of one day | the row, what each screen read, whether a patch met another row |
| `MediaUpload` | `upload_media`, from its refusals to the `finally` block, whose `file.close()` may fail before the files are unlinked (`CloseFails`) | per upload: the step, the temporary file, the final file, the row |
| `RateLimiter` | `SlidingWindowLimiter.check` of one key | the clock, the deque, the time each thread has read |
| `ProviderToken` | `_provider_token`, `_refresh_rejected_provider_token` of the APNs client | the times of signing, the token each thread uses |
| `Profile` | `get_passport`, `update_passport`, `save_restaurant`, `unsave_restaurant` | the passport's version, the saved row, what each request has read |

### Catalog

| module | code | state |
|---|---|---|
| `OpenNow` | `restaurant_is_open` and `_sql_open_now_predicate`, with the statement that reads the zones | the rows of hours, the flags, the zones a search has read |
| `CatalogPages` | nearby, filtered and search listings, cursors, featured items | what is published and available, and one client's walk, statement by statement, with what its request read of the clock and of the catalog's size |
| `MenuSearch` | `_sql_item_filter_predicates`, the facets, the matcher in Python | the columns of items, which are eligible, the planner's estimate |
| `MenuEvidence` | the assessments of `catalog.py` and `cart.py`, and the search by a passport | claims, allergen links, ingredients, the passport |
| `CatalogImport` | `import_jeju_catalog.py`, `import_catalog.py` | restaurants, items, the rows the importer has still to write, each with its turn, what it has read, an owner's edit |

In the first, third and fourth the state changes by single writes and the interest is in
the operators: each is a translation of one function, and the properties relate
two or three of them over every state the writes reach. Tables of codes are
taken over for the codes of the instance's items; keys that a table lacks
behave as in the code. `MenuSearch` takes texts as the codes they contain: the ways in
which a word may be spelled are one code.

A request of `CatalogPages` asks for one of four listings (`Asks`), with or without
open-now, and reads the clock and the planner's estimate of the catalog's size
anew (`Reading`): its own set of open restaurants, and its own of two codings of the
filters. Which of the four coded reads answers it is `Path`. `min_rating` and
`category` are not separate queries: they make `Spots` smaller and send a nearby
listing the filtered way. Writes of hours move the set of open restaurants also within a request
(`ChangeHours`).

`CatalogImport` holds what a region's crawl or a manifest lists as a set of tasks,
each with its `turn`: the place of its row in the order of the cursors. The task
whose turn it is (`OnTurn`) reads its row in one step and writes it in another, and
`Finish` bumps the revisions and commits. Its two kinds differ as the
scripts do: the region writes every column that differs and adds one to the revision
in the database, the manifest writes the columns it sets, and the revision it
read plus one. Categories and translations are left out; in the code a new or changed
category alone moves a revision too.

## 6. Runs

The runs named `push_` use `MCPushOutbox`, `messaging_pages` and those named
`cart_` use `MCMessaging` and `MCCart`, `accounts` uses `MCAuthSessions`; `services` and
`catalog` use `MCServices` and `MCCatalog`.

| run | instance | states | checks |
|---|---|---|---|
| `push_delivery` | 1 device, 1 message, 2 workers, 3 attempts, 2 registrations | 124 000 | `TypeOK`, `LeaseIsExclusive`, `PushesWithinAttempts`, `TerminalIsFinal`, `SettledByLeaseHolder` |
| `push_cap` | 2 sessions of one account, 2 devices, 2 configurations, 2 open requests, cap 1 | 525 000 | `ActiveDeviceCap` |
| `push_rebind` | 2 accounts, 2 installations, 2 tokens, 2 devices, 3 registrations | 2 070 000 | `CheckedTokenIsTheRecipients` |
| `push_settles` | 1 message, 2 attempts, 2 registrations, 2 open requests | 42 000 | `QueuedDeliverySettles`, `DeadBindingIsRetired` |
| `push_logout_race` | 2 sessions of one account | - | `RevocationHitsAssociatedBinding` is violated |
| `push_late_invalidation` | 1 device, 2 registrations | - | `InvalidationSparesNewRegistration` is violated |
| `messaging_pages` | 2 requests, 1 reader, pages of 1, 3 drafts | 828 000 | `PagingSkipsNothing` |
| `cart_order` | 2 requests, 1 key, 2 locales, 1 editor, 2 prices, 3 revisions | 837 000 | `PrepareIsIdempotent`, `CardShowsItsMenu` |
| `cart_version` | 2 requests, 3 versions | - | `ChangesApplyToTheirVersion` is violated |
| `accounts` | 2 accounts, 3 sessions, 1 Google account, 1 email, 1 password, 2 requests | 1 015 000 | `TypeOK`, `MembersShowedProof`, `OneUpgradeWins`, `HeldTokensAreCurrent`, `MembersCanReturn`, `LateWebAnswersAreFew`, `RevokedIsFinal` |
| `services` | 2 applicants, 2 restaurants, 2 applications; 2 screens, 3 patches; 2 uploads; 2 callers, limit 1; 2 sender threads; 2 tabs; 2 senders, 1 client id | 191 000 | `ServicesTypes`, `OwnersWereApproved`, `VerdictsAreFinal`, `HoursAreOnePatchUnlessRaced`, `UploadsEndClean`, `LateAdmissionsAreFew`, `UpdatesAreApart`, `VersionCountsChanges`, `SavedAnswersAreRows`, `SendIsIdempotent` |
| `catalog` | a week of 3 days of 3 hours, 3 zones; 2 restaurants of which one closes, 3 items, pages of 1; 2 items of 6 profiles; 2 diets, 1 allergen, 3 relations; 3 crawls, 2 manifests; 2 requests, 2 tables and 3 carts | 506 000 | `CatalogTypes`, `OneOpenNow`, `QuietWalksAreExact`, `AnsweredPagesAreWhole`, `FacetsAnnounceWhatSearchFinds`, `PredicatesKeepWhatMatches`, `ReadingsAgree`, `WarningsNeverClear`, `CrawlsSettle`, `ImportsCountTheirChanges`, `CartIsNeverLost` |

`services` and `catalog` put modules side by side that share no variable. Their
interleavings are a product in which no property can tell the components' order, so
`Alone(c)` lets one component move while the others are as they started: every
behaviour of each component is there, and the states add up instead of
multiplying.

Deadlock is checked but in the runs of `MCAuthSessions` and `MCServices`. There a system may really
stop: every id of an account or session is in use, every upload has ended, or a clock
is at its bound.

Bounds. `MaxRegistrations` is the only bound on behaviour: two registrations are
a binding and its rebinding, three add a displacement. Three attempts give a first
claim, a takeover of a lost lease and a last attempt; two workers and any number
of threads per worker give the races between holders of old and new leases. Two
devices and two accounts are enough for a token to move, since each
property speaks of at most two rows. Symmetry is used in safety runs only, over
rows, workers, slots, installations and tokens, which no definition tells apart,
over two sessions of one account, and over requests, editors, locales and contents.

`MaxTime` bounds the messages that are drafted: three give a list that is longer than two pages
of one, and a late commit among them. `MaxVersion` and `MaxRevision` bound the counters of
a cart and a menu: version 2 is the cart after the one change an order needs;
three revisions let a price change and change back, or a price and the availability
change, between the reads of a request.
Two requests are enough for every pair of steps to race, and each property relates at
most two requests and one edit.
`cart_order` has one editor, which is as much as five minutes allow: that cards are
consistent with any number, until an edit overtakes another, is `CardsShowTheirMenu`.

In `accounts`, two requests give every race of two sign-ins, and three sessions
a caller, what it is answered and what a second request is answered; with one email,
one password and one Google account every request meets the others' rows. The ids of
accounts and sessions are never used again and are what bounds the run.

In `services`, `LastTick` (a window of 2 in a clock of 4), `LastMinute`, `LastVersion` and
`LastRow` bound clocks and counters: the clock of the provider token passes the age at which
it is signed again and the age at which a rejection may, in steps that meet neither
exactly. Ages are scaled down from 45 and 20 minutes to 9 and 4. Two threads are enough
for a rejected token to be another's already replaced one. Two applications
for one number by two applicants meet in two reviews of one restaurant.

In `catalog`, a week of three days has a day before, a day after and a wrap-around,
and three hours a shift within a day, one past midnight and a whole day; the zones are
one, one ahead of it, and one that the library does not know. The first of two
restaurants at one distance opens and closes. Pages of one over three
items give a first, a middle and a last page and a cursor that is refused
(`MaxOffset`). Item profiles lie at both ends of every price bucket, have keys
that fold, and category slugs of which one is part of another. The crawls have a product
that is listed twice, one without a number, a price that is none, and a job that failed;
`LastRevision` bounds the revisions an owner's edits and imports reach.

### Fairness

`Fairness` assumes: a request transaction ends, by commit or rollback (PostgreSQL
detects deadlocks, a connection that is lost rolls back); the worker's loop keeps
polling (`push.py:975`), and a claim that can be made again and again is made once
(strong fairness, since a claim may fail or meet locked rows any number of
times); a dispatch thread is scheduled, and one blocked in a deadlock is
granted its lock or raises (PostgreSQL picks a victim); time passes. Nothing is assumed of
APNs beyond an answer or a timeout (the client has one), nor that a worker does
not crash, a registration succeeds or a message is sent. No other module states
fairness: their properties are safety.

### What the runs show

The lease protocol keeps its promises: an attempt is paid before it is pushed,
only the current lease settles a row, and whatever crashes or races, a queued
row whose device still belongs to its recipient settles. The cap holds because of
the user-row lock. The worker's sweep repairs every revocation that missed a
binding.

Three things the documentation, a test or a refusal says, and the code does not keep, are
runs that end in a violation (`PROJECT.json`, findings). Each is a race between a
read and a write that trusts it:

* `push_logout_race`: a logout can deactivate a row another session has re-registered;
* `push_late_invalidation`: a 410 can deactivate a registration newer than it;
* `cart_version`: two changes that name the same cart version both apply, since the version is
  a counter read and written back plus one;

One behaviour of the outbox is no run but worth knowing: a message whose transaction read
the old binding inserts its delivery after the rebinding cancelled the others. It is
never pushed (`Eligible` compares the recipient), but stays `pending`, which
`QueuedDeliverySettles` therefore excludes.

Of the cart's promises, idempotence of the order card, the persistence of an
active cart and, as long as no menu edit commits over another that it had not read, the
consistency of a card hold without a single lock.

Accounts keep what they promise because of three things the runs show to be needed
(each is a mutant): the session is bound to the guest or the member it was issued to,
the upgrade is an UPDATE that asks for `is_guest`, and a rotation holds its session's row.
The public web site refuses administrators by roles that were read before the answer is
committed, so that a request under way may be answered after the promotion; each request
once, whether it signs in or refreshes, and never a later one (`LateWebAnswersAreFew`). This bound
is all there is: the promotion does not revoke a session that is opened while it runs.

Two small protocols are weaker than they look, by as much as the properties say. The
rate limiter reads its clock before its lock, so a window may hold one admission more for
every thread that waited (`LateAdmissionsAreFew`). Opening hours and the passport are read without a lock, and
what is written is the difference to what was read: two patches that overlap may leave
hours that are neither (`HoursAreOnePatchUnlessRaced`), and a version that counts one of
them (`VersionCountsChanges`).

The catalog's doubled rules agree. Open now is the same in Python and in SQL, up to
the moment at which a search read the zones; the predicates of search keep what the
matcher kept; the facets announce what a search then finds, except for category slugs
within others, keys of a taste that are not folded, and dish groups in a large catalog, which
say so; an item called compatible is found by its passport, and the order card's shorter
tables err on the safe side.

Pages are offsets into a list that each request makes anew. A walk is exact when nothing was
written during it and every page found the same restaurants open and the same
estimate of the catalog's size (`QuietWalksAreExact`). Where open-now is asked, a restaurant
that opens or closes between two pages shifts the others, and rows are skipped or come
again though nothing was written; no document promises otherwise. A page has the rows that its
count leaves for it whatever is written meanwhile, where one statement reads both: a small catalog's
search, and an empty page past the first, count apart, and there a write in between may tell them
apart. A restaurant on a filtered page is shown with an item that fits unless somebody wrote to
that restaurant meanwhile (`AnsweredPagesAreWhole`).

Importing a crawl again writes nothing. A menu whose items a region's import changes has
its next revision, whatever an owner did meanwhile; a manifest, which writes back what it read,
counts on nobody writing. Both keep the items their source does not list, and a manifest the
columns it omits.

## 7. Proofs

`PushOutboxProofs` proves, from `OutboxAssumptions` only (non-empty identity sets,
`Owner` and `Sender` total, the three limits positive):

* `OutboxTypeCorrect`: `Spec => []TypeOK`, with one lemma per group of actions.
* `OneLeaseHolder`: `Spec => []LeaseIsExclusive`.
* `TerminalStaysTerminal`: `Spec => TerminalIsFinal`.
* `OnlyLeaseHolderSettles`: `Spec => SettledByLeaseHolder`.
* `PushesStayWithinAttempts`: `Spec => []PushesWithinAttempts`.
* `CheckedTokensAreTheRecipients`: `Spec => CheckedTokenIsTheRecipients`.
* `DevicesStayWithinCap`: `Spec => []ActiveDeviceCap`.

The three about leases rest on `LeaseInvariant`. `LeaseIsExclusive` alone is not
inductive: it says nothing of two threads that both lost a lease, of a row
created anew under a thread, or of a row locked by an invalidation. The
strengthening is

* `SendsOnce`: a message is inserted by one transaction, and not again;
* `RowsOfPosted`: rows and threads exist only for committed messages;
* `LeasesDrawnOnce`: each attempt of a row was drawn by one thread, and none is
  newer than the row's counter;
* `LockedRowKeepsLease`: the row an invalidation locked keeps its lease until
  that thread commits. This is where the lock guards of the other actions are
  used.

`RowSteps` says once what any step but an insert may do to a delivery row
(keep, cancel, delete, fail, lease, ripen, settle); `AttemptsGrow`, `StatusSteps` and the
action properties follow from it without going through the actions again.

Pushes are counted by `PushesCounted`, which is inductive because it counts the threads that
may still push: a claim adds an attempt and a thread, a send turns a thread into a
push, a crash loses threads (`NoMoreThreads`).

A checked token is its recipient's because of `BindingInvariant`: by the unique keys one row
of a configuration answers for a token (`OneRowPerIdentity`), and while threads run, the rows
of their claims are of the configuration that runs (`ThreadsOfThisConfig`). The property speaks of the threads that
go from `claimed` to `checked` in a step. The lease, drawn once, tells which thread a step moved,
so that the step is `Check` of that thread and of no other.

The cap needs `CapInvariant`: at most `MaxDevices` bindings live in every configuration
(`CapKept`, for a deployment may return to an earlier one), one registration at a time for
a user (`OneRegistrationPerUser`, from the user lock), the rows a registration selected
are still as it read them and no other registration's (`SelectedStay`), and it has room (`RoomFor`): the live rows are below
the cap, or will be without a row it takes. Every action but a registration's shrinks the
live rows.

`CartProofs` proves, from `CartAssumptions` and `NoneIsNoRow`:

* `CartTypeCorrect`: `Spec => []TypeOK`;
* `CartsAreNeverLost`: `Spec => []CartIsNeverLost`;
* `OrdersAreIdempotent`: `Spec => PrepareIsIdempotent`, the refinement of
  `IdempotentStore`.

`TypeOK` alone is not inductive: a request acts on a cart it loaded earlier, and the current cart
is a CHOOSE. `HeldCartsExist` says that no step deletes a cart a request
holds, `Recency` that of any set of carts one was updated last. Each operation has its lemma;
those that only read share `ReadStep`, those that write the cart
`CartWrittenStep`, those that answer `AnswerStep`.

* `CardsShowTheirMenu`: `Spec => []CardShowsItsMenu`, for any carts, requests, items and editors.

Edits may overlap: `menu_revision` is read and written back plus one without a
lock (`owner.py:529`), and once an edit committed over a menu that it had not read
(`overtaken`) two menus may have one name, and a card may show lines of both. So the invariant is
`overtaken \/ MenuInvariant`: an edit that commits without overtaking has read the revision that is there.
`MenuInvariant` says that a cart of the current revision has
lines the menu offers, and for each phase of a request what its lines were seen on (`FitsMenu`): the
menu of that revision, or an older revision, which the commit then refuses.

`MessagingProofs` proves, from `MessagingAssumptions`:

* `MessagingTypeCorrect`: `Spec => []TypeOK`;
* `MessagesAreIdempotent`: `Spec => SendIsIdempotent`, the refinement of
  `IdempotentStore` by the stored messages;
* `PagesSkipNothing`: `Spec => []PagingSkipsNothing`.

The refinement rests on `SendInv`. The unique key is checked by the flush, and what it
checked must hold at the commit: the flush holds the conversation's row, so that one message is
flushed at a time (`OneFlushPerConversation`), none is stored under its key while
it is (`FlushedIsFirst`), and none is stored twice (`OneMessagePerKey`). Paging rests on
`PageInv`: what a reader is still due lies behind its cursor (`DueIsAhead`: as many messages
are newer as the cursor has passed). New messages push it further back, never
in front, since a list is newest first.

`AuthSessionsProofs` proves, from `AuthAssumptions` and `NoneIsNoAccount`,
`AccountsTypeCorrect` and six properties of accounts: `MembersAlwaysShowedProof`, `OneUpgradeAlwaysWins`,
`HeldTokensStayCurrent`, `MembersCanAlwaysReturn`, `LateWebAnswersStayFew` (invariants) and
`RevocationsAreFinal` (an action property). They are corollaries of `AuthInvariant`. None is
inductive: they speak of rows, and the rows are written by requests that read earlier. `AuthInv`
adds

* `LocksHold`: a rotation holds its session alone, as it read it, and no promotion that
  has sent its UPDATE holds it too;
* `LateCounted`: what an administrator was answered late, with the requests that still go by what they
  read of the account before (`Stale`), is at most the requests but one; for the commit of a promotion, which
  makes requests stale, is itself a request that is not, and a late answer uses up
  one that is;
* `Refers`: the accounts and sessions that a request has read are there, and a
  member is still a member;
* `AccountsExist`, `Sound`: a session issued to a member is of a member, and was
  proved;
* `Returning`: guests have no email, members have one that is theirs alone, and
  each Google account has one member;
* `UpgradedAreMembers`: an account that was upgraded is no guest, so that it is
  claimed once.

The steps do the same few things, and each is a lemma: accounts only grow
(`UsersGrow`), sessions are issued or closed but under a lock (`SessionsMove`), late answers are given by stale
requests (`LateCounts`), a request's next state refers to what is there (`RequestsMove`). `MovesKeep` puts them together once;
an action's lemma shows that it does these things. Only the two steps of a rotation are
proved against the invariant directly.

`MerchantsProofs` proves `EveryOwnerWasApproved` and `NoVerdictIsOverturned` for
any members, restaurants and requests at once: the application that a review has read is
undecided and locked by it alone, and so is the restaurant it is about to grant.

`ServicesProofs` proves the small protocols, each from its own module's assumptions:

* `EveryUploadEndsClean`: what is on disk and in the table follows from where the upload
  is (`Traces`); after a crash, or a `file.close()` that failed, a file may stay;
* `TokensAreApart`, for every clock and number of threads;
* `HoursMixOnlyInARace`: a request that has read the row that is there writes one
  whole patch over it;
* `VersionsCountChanges` and `SavedAnswersWereRows`, which are inductive with the
  types: what a request has read is compared with what it then finds;
* `LateAdmissionsStayFew`. That a window holds few admissions is not inductive: the bucket
  forgets those that have left the window of the caller that looks, and a caller may look late.
  `WindowIsCounted(t)` says of every window that is not over yet that its admissions are in the bucket,
  but for those of the callers that read the clock before it: these are at most the
  callers, and each is one no more once it was admitted. The bucket holds `Limit` times at most;
* `ServicesAreTheirComponents`: `ServicesSpec` implies the specification of each of its
  seven modules, so that all of these hold of the run `services`; `ServicesTypeCorrect`
  is the conjunction of their types.

`CatalogProofs` proves, for any tables, the properties of what a diner reads and of the importers:

* `ReadingsAlwaysAgree` and `EvidenceNeverClears`: the diets that an ingredient of the card's
  table excludes are among those of the menu's (`CardTables`), so that what the card
  clears on consistent evidence the menu clears; there is one passport (`OnePassport`).
* `OpenHoursHaveOneMeaning`: arithmetic on the circle of a week. A minute of the week is a
  day and a minute of that day (`DayAndTime`); it lies in the span of a row if and only if the row's two
  comparisons say so, of today or of yesterday (`InSpan`, `SpanOfDay`), whatever the zone (`LocalTime`).
* `FacetsAlwaysAnnounce` and `PredicatesAlwaysMatch`: one lemma for each facet and
  predicate, from the tables that both sides read.
* `PagesAreAnsweredWhole` and `QuietWalksStayExact`. `RequestInvariant` says what the statements of a
  request know of each other, and of the restaurants nobody wrote to since the first of them: the count, the
  rows, the featured items. `WalkInvariant` says that what a quiet walk has seen is the start, as long as its
  cursor, of an order its query may answer in. A request may answer in any such order, so the walk
  is exact because there is one: the keys end in an id that is unique
  (`KeysCompare`), and two orders of one set by a total key are equal (`OneOrder`, by the least place at which they
  would differ).
* `CrawlsAlwaysSettle` and `ImportsAlwaysCount`. `ImportInvariant` relates a run to its source and to
  the database: restaurants come before their items, so that a menu that changes is one
  of a restaurant that is new or whose revision was read (`RestaurantsCome`); the row on
  its turn is as it was seen, if nobody wrote (`RowIsSeen`); what was written is what a task of the source
  sets (`WritesArePlanned`); a row passed over needed no write (`TasksAreDone`); the crawl that settled is in
  the database still (`SettledIsApplied`). Two tasks of a crawl never set one row (`RegionTasksDiffer`).
* `CatalogIsItsComponents` and `CatalogTypeCorrect`, as for the services.

`IdempotentStoreProofs` proves `CallersAgree`: `Spec => []AnswersAgree`, through the
invariant that every answer given is backed by the store. With the refinement it
says what two callers of `POST /cart/order-card` see.

Assumptions. Each module names those of its constants (`OutboxAssumptions`,
`PageAssumptions`, ...), and TLC evaluates them in every run: limits are positive or
natural, identities that are compared by an order are numbers, tables are total on their keys,
rows, items and callers are finitely many (`PageAssumptions`, `SearchAssumptions`,
`LimiterAssumptions`), a slug is part of itself (`SearchAssumptions`), and the sources of an import have the
shape that the loaders check before anything is written (`ImportAssumptions`). Bounds on
counters stay constants of a proof: it holds for every bound.

Model-checked only: liveness (`QueuedDeliverySettles`, `DeadBindingIsRetired`), which is out
of the prover's reach, since fairness involves ENABLED; and the three properties that
are violated.

The proofs corrected the models in two places. Cases that overlapped, of which the code
takes the first, exclude each other now, since a CASE promises no order; and
the importer's tasks, a sequence built by folding, became a set with turns, which says
the same (the run has as many states) and can be reasoned about.

## 8. Not modelled

`components` in `PROJECT.json` has every part with what is left out of it.

* Verification of Google's tokens: cryptography over an external key set.
  `AuthSessions` takes its result.
* `admin_ui.py` and the formatting of answers: markup without state.
* Migrations, deployment scripts and infrastructure templates. What the schema's
  unique keys and cascades do is in the actions that meet them.
* `seed.py`, `seed_qa.py`: sample rows, written once into an empty database.
* Scores of free text, restaurant details, reviews and the explore page: projections
  of single rows, without a rule that another part repeats.
* Read-only listings of members' applications, users, audits and orders, and
  `update_profile`, which sets the columns it is sent.
* The time of a read mark against a message that commits late (`messaging.py:609`) and
  the paging of conversations, whose order changes under the client
  (`messaging.py:413`): the code promises nothing about them.

Seen while modelling, each a race that the model has and that the property named
either bounds or leaves out by a history variable, since the code does not prevent it:

* two menu edits that overlap write one revision (`owner.py:529`), and so does a manifest's
  import next to an owner's edit (`import_catalog.py:785`): a cart that was filled between
  the two passes as current on the menu of the second (`overtaken` in `CardShowsItsMenu`,
  `calm` in `RevisionsMove`), although a change against an old revision is to be refused
  (`docs/ARCHITECTURE.md:61`);
* two valid patches of one day write the columns that differ from what they read, and may
  leave a closed day with times or an open one without (`owner.py:471`; `raced` in
  `HoursAreOnePatchUnlessRaced`);
* two patches that name one version of a passport may both be applied, and the version moves
  once (`profile.py:91`; `lost` in `VersionCountsChanges`);
* a session that a login commits between the UPDATE of `create_admin.py` and its COMMIT stays
  active (`create_admin.py:120`; `LateWebAnswersAreFew` counts what it is answered);
* a restaurant that is found by a filter and loses its last item that passes before its items
  are read is shown with the first item of its menu (`catalog.py:1388`, `:1088`; `touched` in
  `FeaturedItemsFit`);
* an upload whose `file.close()` raises leaves its file (`media.py:249`; `UploadsEndClean`
  says so);
* the current cart is the one updated last: a change in flight brings back a cart that a newer
  QR scan did not see (`cart.py:67`); and two requests may create two conversations of the same
  participants (`messaging.py:270`). Nothing promises otherwise.

Also seen, without a promise that it breaks: a region's import publishes
again what a moderator took down; roles are a list in one column, so that
`create_admin.py` and a review of the same account may overwrite each other's; two
applications with one number may be open at a time, since the look-up is not under a
unique key (`OwnersWereApproved` holds all the same).
