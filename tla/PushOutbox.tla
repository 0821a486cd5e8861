----------------------------- MODULE PushOutbox -----------------------------
(***************************************************************************)
(* The APNs outbox of app/services/push.py: device bindings, one outbox    *)
(* row per message and device, and the lease workers that deliver rows.    *)
(*                                                                         *)
(* A step is a stretch of code no other database client can observe.  A    *)
(* request is cut where it reads rows it later acts on (authentication,    *)
(* the registration's locked reads, the ids a revocation or the worker's   *)
(* sweep will deactivate, the devices a message fans out to).  Row locks   *)
(* are the sets LockedDevices and LockedDeliveries: a statement waiting    *)
(* for a lock is a step that is not enabled.  Time is abstract: `clock'    *)
(* counts registrations (the only order of timestamps the code compares),  *)
(* `ripe' says that available_at or lease_expires_at has passed.           *)
(***************************************************************************)
EXTENDS Integers, FiniteSets

CONSTANTS
    Users, Sessions, Installations, Tokens, Messages,
    Devices,            \* ids of push_devices rows
    Configs,            \* (topic, environment) pairs a deployment may use
    Owner,              \* Owner[s]: auth_sessions.user_id, never reassigned
    Sender,             \* Sender[m]; every other user is a participant
    Slots,              \* request transactions open at the same time
    Workers,            \* run_push_worker tasks, one per API process
    MaxDevices,         \* push_max_active_devices_per_user
    MaxAttempts,        \* push_delivery_max_attempts
    BatchSize,          \* push_worker_batch_size
    MaxRegistrations    \* bound of the model: committed or open registrations

ASSUME OutboxAssumptions ==
    /\ Users # {} /\ Sessions # {} /\ Installations # {} /\ Tokens # {} /\ Configs # {}
    /\ Owner \in [Sessions -> Users]
    /\ Sender \in [Messages -> Users]
    /\ {MaxDevices, MaxAttempts, BatchSize} \subseteq Nat \ {0}
    /\ MaxRegistrations \in Nat

VARIABLES
    session,    \* auth_sessions: live, expired, or revoked
    device,     \* push_devices
    delivery,   \* push_deliveries, unique per (event_key, device_id)
    posted,     \* messages whose send_message transaction committed
    config,     \* the configuration the API processes run with
    clock,      \* registrations so far: the order of last_registered_at
    txn,        \* per slot: the open request transaction
    sweep,      \* per worker: ids read by the sweep of an open claim
    threads,    \* dispatch threads, one per claimed delivery
    pushes      \* history: requests sent to APNs per delivery

vars == <<session, device, delivery, posted, config, clock, txn, sweep, threads, pushes>>

DeliveryIds == Messages \X Devices
Cancelable == {"pending", "processing"}
Terminal == {"sent", "failed", "cancelled"}

Device == [state: {"none", "active", "inactive", "deleted"}, user: Users,
           session: Sessions, installation: Installations, token: Tokens,
           config: Configs, registeredAt: Nat]
Delivery == [status: {"none", "gone"} \cup Cancelable \cup Terminal,
             recipient: Users, attempts: Nat, lease: Nat, ripe: BOOLEAN]

NoTxn == [kind |-> "none"]
Txn == {NoTxn}
    \cup [kind: {"authenticated"}, session: Sessions,
          installation: Installations, token: Tokens]
    \cup [kind: {"register"}, session: Sessions, installation: Installations,
          token: Tokens, now: Nat, stale: SUBSET Devices,
          installed: SUBSET Devices, bearer: SUBSET Devices]
    \cup [kind: {"revoke"}, sessions: SUBSET Sessions, bound: SUBSET Devices]
    \cup [kind: {"send"}, message: Messages, fanout: SUBSET (Devices \X Users)]

\* A dispatch thread: the ClaimedDelivery it was given and how far it got.
\* The lease id is the attempt that drew it: a fresh uuid per claim.
Thread == [worker: Workers, awaited: BOOLEAN, id: DeliveryIds, lease: Nat,
           user: Users, token: Tokens,
           phase: {"claimed", "checked", "sent", "retry", "failed", "invalid",
                   "deactivating", "cancelling"},
           until: Nat]

TypeOK ==
    /\ session \in [Sessions -> {"live", "expired", "revoked"}]
    /\ device \in [Devices -> Device]
    /\ delivery \in [DeliveryIds -> Delivery]
    /\ posted \subseteq Messages
    /\ config \in Configs
    /\ clock \in Nat
    /\ txn \in [Slots -> Txn]
    /\ sweep \in [Workers -> [open: BOOLEAN, ids: SUBSET Devices]]
    /\ threads \subseteq Thread
    /\ pushes \in [DeliveryIds -> Nat]

-----------------------------------------------------------------------------
(* Row predicates and row updates the handlers share.                      *)

Present(d) == device[d].state \in {"active", "inactive"}

\* The join every reader repeats: an active row of a live session of its user.
Bound(d) ==
    /\ device[d].state = "active"
    /\ Owner[device[d].session] = device[d].user
    /\ session[device[d].session] = "live"

Routable(d) == Bound(d) /\ device[d].config = config

\* Fault: the limit is compared with > instead of >=.
OutOfAttemptsLate(row) == row.attempts > MaxAttempts

OutOfAttempts(row) == row.attempts >= MaxAttempts

\* Fault: the UPDATE forgets its status filter.
CancelledAnyStatus(row) == [row EXCEPT !.status = "cancelled", !.lease = 0, !.ripe = FALSE]

Cancelled(row) ==
    IF row.status \in Cancelable
    THEN [row EXCEPT !.status = "cancelled", !.lease = 0, !.ripe = FALSE]
    ELSE row

Failed(row) == [row EXCEPT !.status = "failed", !.lease = 0, !.ripe = FALSE]

CancelOn(ds) ==
    [id \in DeliveryIds |-> IF id[2] \in ds THEN Cancelled(delivery[id]) ELSE delivery[id]]

Deactivated(row) == IF row.state = "active" THEN [row EXCEPT !.state = "inactive"] ELSE row

DeactivateAll(ds) ==
    [d \in Devices |-> IF d \in ds THEN Deactivated(device[d]) ELSE device[d]]

\* Row locks held by open transactions.
Registering == {s \in Slots : txn[s].kind = "register"}
Selected(s) == txn[s].installed \cup txn[s].bearer
LockedDevices == UNION {txn[s].stale \cup Selected(s) : s \in Registering}
Invalidating == {t.id : t \in {x \in threads : x.phase \in {"deactivating", "cancelling"}}}
LockedDeliveries ==
    Invalidating \cup {id \in DeliveryIds : \E s \in Registering : id[2] \in txn[s].stale}

\* The deactivate-and-cancel statements on the devices ds would not wait.
Writable(ds) ==
    /\ ds \cap LockedDevices = {}
    /\ \A id \in LockedDeliveries : id[2] \notin ds

Close(s) == txn' = [txn EXCEPT ![s] = NoTxn]

-----------------------------------------------------------------------------
Init ==
    /\ session = [s \in Sessions |-> "live"]
    /\ device = [d \in Devices |->
            [state |-> "none", user |-> CHOOSE u \in Users : TRUE,
             session |-> CHOOSE s \in Sessions : TRUE,
             installation |-> CHOOSE i \in Installations : TRUE,
             token |-> CHOOSE k \in Tokens : TRUE,
             config |-> CHOOSE c \in Configs : TRUE, registeredAt |-> 0]]
    /\ delivery = [id \in DeliveryIds |->
            [status |-> "none", recipient |-> CHOOSE u \in Users : TRUE,
             attempts |-> 0, lease |-> 0, ripe |-> FALSE]]
    /\ posted = {}
    /\ config \in Configs
    /\ clock = 0
    /\ txn = [s \in Slots |-> NoTxn]
    /\ sweep = [w \in Workers |-> [open |-> FALSE, ids |-> {}]]
    /\ threads = {}
    /\ pushes = [id \in DeliveryIds |-> 0]

-----------------------------------------------------------------------------
(* PUT /push/devices/{installation_id}.                                    *)

\* The dependency authenticates the full session before the handler runs.
Authenticate(s) ==
    /\ txn[s].kind = "none"
    /\ clock < MaxRegistrations
    /\ \E x \in Sessions, i \in Installations, k \in Tokens :
        /\ session[x] = "live"
        /\ txn' = [txn EXCEPT ![s] = [kind |-> "authenticated", session |-> x,
                                      installation |-> i, token |-> k]]
    /\ UNCHANGED <<session, device, delivery, posted, config, clock, sweep, threads, pushes>>

\* Fault: the user row is read without FOR UPDATE.
UserLockNotTaken(u) == TRUE

\* The SELECT ... FOR UPDATE on the user row.
UserLockFree(u) == \A s \in Registering : Owner[txn[s].session] # u

\* It waits for the key-share lock a flushed message holds on its sender's row.
Sending(u) == \E s \in Slots : txn[s].kind = "send" /\ Sender[txn[s].message] = u

\* Obsolete (other configuration) and stale (dead session) bindings of u.
StaleDevices(u) ==
    {d \in Devices : /\ device[d].state = "active" /\ device[d].user = u
                     /\ ~Routable(d)}

\* From the user lock to the cap check: stale bindings are deactivated and
\* their deliveries cancelled (uncommitted), the rows of the installation and
\* of the token are locked, the remaining live bindings counted.  Over the
\* cap the request answers 409 and rolls back.
RegisterRead(s) ==
    LET r == txn[s]
        u == Owner[r.session]
        stale == StaleDevices(u)
        installed == {d \in Devices : /\ Present(d) /\ device[d].config = config
                                      /\ device[d].installation = r.installation}
        bearer == {d \in Devices : /\ Present(d) /\ device[d].config = config
                                   /\ device[d].token = r.token}
        live == {d \in Devices : device[d].user = u /\ Routable(d)}
        replacesActive == \E d \in (installed \cup bearer) \ stale :
                              device[d].user = u /\ device[d].state = "active"
    IN  /\ r.kind = "authenticated"
        /\ clock < MaxRegistrations
        /\ UserLockFree(u) /\ ~Sending(u)
        /\ Writable(stale)
        /\ (installed \cup bearer) \cap LockedDevices = {}
        /\ \/ /\ ~replacesActive /\ Cardinality(live) >= MaxDevices
              /\ Close(s)
              /\ UNCHANGED clock
           \/ /\ replacesActive \/ Cardinality(live) < MaxDevices
              /\ clock' = clock + 1
              /\ txn' = [txn EXCEPT ![s] =
                    [kind |-> "register", session |-> r.session,
                     installation |-> r.installation, token |-> r.token,
                     now |-> clock + 1, stale |-> stale,
                     installed |-> installed, bearer |-> bearer]]
        /\ UNCHANGED <<session, device, delivery, posted, config, sweep, threads, pushes>>

\* The row that answers for the token wins; else the installation's; else a new one.
Targets(r) ==
    IF r.bearer # {} THEN r.bearer
    ELSE IF r.installed # {} THEN r.installed
    ELSE {d \in Devices : device[d].state = "none"}

\* Another committed row owns the installation or the token: IntegrityError.
UniqueConflict(r, d, displaced) ==
    \E e \in Devices \ (displaced \cup {d}) :
        /\ Present(e) /\ device[e].config = config
        /\ device[e].installation = r.installation \/ device[e].token = r.token

Binding(r) ==
    [state |-> "active", user |-> Owner[r.session], session |-> r.session,
     installation |-> r.installation, token |-> r.token, config |-> config,
     registeredAt |-> r.now]

\* Deleting a push_devices row cascades to its deliveries.
Deleted(row) ==
    IF row.status = "none" THEN row
    ELSE [row EXCEPT !.status = "gone", !.lease = 0, !.ripe = FALSE]

\* Both identities matched different rows: the token's row stays, the other goes.
Displaced(r) == IF r.bearer = {} THEN {} ELSE r.installed \ r.bearer

Rebound(r, d) ==
    Present(d) /\ (device[d].user # Owner[r.session] \/ device[d].session # r.session)

\* Rows whose queued deliveries the registration of r on row d cancels.
CancelledBy(r, d) == r.stale \cup {e \in {d} : Rebound(r, e)}

Registered(r, d) ==
    [e \in Devices |->
        IF e = d THEN Binding(r)
        ELSE IF e \in Displaced(r) THEN [device[e] EXCEPT !.state = "deleted"]
        ELSE IF e \in r.stale THEN Deactivated(device[e])
        ELSE device[e]]

RegisterCommit(s) ==
    LET r == txn[s]
    IN  /\ r.kind = "register"
        /\ \E d \in Targets(r) :
            /\ \A id \in Invalidating : id[2] \notin Displaced(r) \cup CancelledBy(r, d)
            /\ \/ /\ UniqueConflict(r, d, Displaced(r))
                  /\ UNCHANGED <<device, delivery>>
               \/ /\ ~UniqueConflict(r, d, Displaced(r))
                  /\ device' = Registered(r, d)
                  /\ delivery' = [id \in DeliveryIds |->
                        IF id[2] \in Displaced(r) THEN Deleted(delivery[id])
                        ELSE CancelOn(CancelledBy(r, d))[id]]
        /\ Close(s)
        /\ UNCHANGED <<session, posted, config, clock, sweep, threads, pushes>>

\* DELETE /push/devices/{installation_id}: locks the rows and commits at once.
UnregisterDevice ==
    \E u \in Users, i \in Installations :
        LET mine == {d \in Devices : /\ device[d].state = "active" /\ device[d].user = u
                                     /\ device[d].installation = i}
        IN  /\ \E x \in Sessions : Owner[x] = u /\ session[x] = "live"
            /\ mine # {}
            /\ Writable(mine)
            /\ device' = DeactivateAll(mine)
            /\ delivery' = CancelOn(mine)
            /\ UNCHANGED <<session, posted, config, clock, txn, sweep, threads, pushes>>

-----------------------------------------------------------------------------
(* Session revocation (services/auth.py) and its device statements.        *)

\* Logout of one session, or of all of a user's sessions: the ids of the
\* active bindings are selected, then updated by id in the same transaction.
\* (A row's user is its session's owner, so both filters are one.)
RevokeRead(s) ==
    /\ txn[s].kind = "none"
    /\ \E sessions \in {{x} : x \in Sessions}
                  \cup {{x \in Sessions : Owner[x] = u} : u \in Users} :
        LET bound == {d \in Devices : /\ device[d].state = "active"
                                      /\ device[d].session \in sessions}
        IN  /\ bound # {} \/ \E x \in sessions : session[x] # "revoked"
            /\ txn' = [txn EXCEPT ![s] = [kind |-> "revoke", sessions |-> sessions,
                                          bound |-> bound]]
    /\ UNCHANGED <<session, device, delivery, posted, config, clock, sweep, threads, pushes>>

Revoked(xs) == [x \in Sessions |-> IF x \in xs THEN "revoked" ELSE session[x]]

RevokeCommit(s) ==
    /\ txn[s].kind = "revoke"
    /\ Writable(txn[s].bound)
    /\ session' = Revoked(txn[s].sessions)
    /\ device' = DeactivateAll(txn[s].bound)
    /\ delivery' = CancelOn(txn[s].bound)
    /\ Close(s)
    /\ UNCHANGED <<posted, config, clock, sweep, threads, pushes>>

\* create_admin.py revokes every session of an account and leaves its devices.
ProvisionAdmin ==
    \E u \in Users :
        LET sessions == {x \in Sessions : Owner[x] = u /\ session[x] # "revoked"}
        IN  /\ sessions # {}
            /\ session' = Revoked(sessions)
    /\ UNCHANGED <<device, delivery, posted, config, clock, txn, sweep, threads, pushes>>

SessionExpires ==
    \E x \in Sessions :
        /\ session[x] = "live"
        /\ session' = [session EXCEPT ![x] = "expired"]
    /\ UNCHANGED <<device, delivery, posted, config, clock, txn, sweep, threads, pushes>>

-----------------------------------------------------------------------------
(* The outbox insert of send_message.                                      *)

SendRead(s) ==
    /\ txn[s].kind = "none"
    /\ \E m \in Messages \ posted :
        /\ \A o \in Slots : txn[o].kind = "send" => txn[o].message # m
        /\ UserLockFree(Sender[m])
        /\ txn' = [txn EXCEPT ![s] = [kind |-> "send", message |-> m,
              fanout |-> {<<d, device[d].user>> : d \in
                             {e \in Devices : Routable(e) /\ device[e].user # Sender[m]}}]]
    /\ UNCHANGED <<session, device, delivery, posted, config, clock, sweep, threads, pushes>>

\* Message and rows are inserted by one commit.  The foreign key checks wait for
\* a registration's row locks and fail if the device row was deleted.
SendCommit(s) ==
    LET fanout == txn[s].fanout
        targets == {p[1] : p \in fanout}
        row(d) == [status |-> "pending", attempts |-> 0, lease |-> 0, ripe |-> TRUE,
                   recipient |-> (CHOOSE p \in fanout : p[1] = d)[2]]
    IN  /\ txn[s].kind = "send"
        /\ \A o \in Registering : targets \cap Selected(o) = {}
        /\ \A p \in fanout : UserLockFree(p[2])
        /\ \A d \in targets : device[d].state # "deleted"
        /\ delivery' = [id \in DeliveryIds |->
              IF id[1] = txn[s].message /\ id[2] \in targets THEN row(id[2]) ELSE delivery[id]]
        /\ posted' = posted \cup {txn[s].message}
        /\ Close(s)
        /\ UNCHANGED <<session, device, config, clock, sweep, threads, pushes>>

\* A request fails before its commit: a constraint, a lost connection, the
\* victim of a deadlock, a stopped process.  Its transaction rolls back.
Abort(s) ==
    /\ txn[s].kind # "none"
    /\ Close(s)
    /\ UNCHANGED <<session, device, delivery, posted, config, clock, sweep, threads, pushes>>

-----------------------------------------------------------------------------
(* run_push_worker: claim_push_deliveries.                                 *)

\* Fault: the sweep looks at expires_at only.
ExpiredBindings ==
    {d \in Devices : device[d].state = "active" /\ session[device[d].session] = "expired"}

\* Active bindings whose session is revoked or expired.
DeadBindings == {d \in Devices : device[d].state = "active" /\ ~Bound(d)}

\* gather returns when the threads it awaits have; then the loop polls again.
\* The sweep first selects the active bindings whose session is dead.
SweepRead(w) ==
    /\ ~sweep[w].open
    /\ \A t \in threads : t.worker = w => ~t.awaited
    /\ sweep' = [sweep EXCEPT ![w] = [open |-> TRUE, ids |-> DeadBindings]]
    /\ UNCHANGED <<session, device, delivery, posted, config, clock, txn, threads, pushes>>

\* Fault: attempts are exhausted for pending rows only.
SweptPendingOnly(id, ids) ==
    LET row == delivery[id]
    IN  IF row.status \in Cancelable /\ (id[2] \in ids \/ ~Bound(id[2]))
        THEN Cancelled(row)
        ELSE IF row.status = "pending" /\ OutOfAttempts(row) THEN Failed(row)
             ELSE row

\* What the sweep's UPDATEs leave of a delivery: cancelled on a device that is
\* not bound (any more), failed when its attempts are used up.
Swept(id, ids) ==
    LET row == delivery[id]
    IN  IF row.status \in Cancelable /\ (id[2] \in ids \/ ~Bound(id[2]))
        THEN Cancelled(row)
        ELSE IF /\ row.status \in Cancelable /\ OutOfAttempts(row)
                /\ row.status = "processing" => row.ripe
             THEN Failed(row)
             ELSE row

\* Fault: rows whose lease ran out are not taken up again.
EligiblePendingOnly(ids) ==
    {id \in DeliveryIds \ LockedDeliveries :
        LET row == Swept(id, ids)
        IN  /\ row.status = "pending" /\ row.ripe
            /\ row.recipient = device[id[2]].user
            /\ ~OutOfAttempts(row)
            /\ Routable(id[2]) /\ id[2] \notin ids}

\* Due, or its lease ran out; still its recipient's device; not locked.
Eligible(ids) ==
    {id \in DeliveryIds \ LockedDeliveries :
        LET row == Swept(id, ids)
        IN  /\ row.status \in Cancelable /\ row.ripe
            /\ row.recipient = device[id[2]].user
            /\ ~OutOfAttempts(row)
            /\ Routable(id[2]) /\ id[2] \notin ids}

\* Fault: attempts are counted down, or not at all.
LeasedCountingDown(row) ==
    [row EXCEPT !.status = "processing", !.attempts = @ - 1,
                !.lease = row.attempts + 1, !.ripe = FALSE]
LeasedUncounted(row) ==
    [row EXCEPT !.status = "processing", !.lease = row.attempts + 1, !.ripe = FALSE]

Leased(row) ==
    [row EXCEPT !.status = "processing", !.attempts = @ + 1,
                !.lease = row.attempts + 1, !.ripe = FALSE]

Claim(w) ==
    LET ids == sweep[w].ids
        eligible == Eligible(ids)
    IN  /\ sweep[w].open
        /\ ids \cap LockedDevices = {}
        /\ \A id \in LockedDeliveries : Swept(id, ids) = delivery[id]
        /\ \E batch \in SUBSET eligible :
            /\ \/ Cardinality(batch) = BatchSize
               \/ batch = eligible /\ Cardinality(batch) < BatchSize
            /\ delivery' = [id \in DeliveryIds |->
                  IF id \in batch THEN Leased(delivery[id]) ELSE Swept(id, ids)]
            /\ threads' = threads \cup
                  {[worker |-> w, awaited |-> TRUE, id |-> id,
                    lease |-> delivery[id].attempts + 1,
                    user |-> delivery[id].recipient, token |-> device[id[2]].token,
                    phase |-> "claimed", until |-> 0] : id \in batch}
        /\ device' = DeactivateAll(ids)
        /\ sweep' = [sweep EXCEPT ![w] = [open |-> FALSE, ids |-> {}]]
        /\ UNCHANGED <<session, posted, config, clock, txn, pushes>>

\* The claim raises: rolled back, logged, polled again later.
ClaimFails(w) ==
    /\ sweep[w].open
    /\ sweep' = [sweep EXCEPT ![w] = [open |-> FALSE, ids |-> {}]]
    /\ UNCHANGED <<session, device, delivery, posted, config, clock, txn, threads, pushes>>

\* purge_terminal_push_deliveries: any terminal rows may be past retention.
Purge ==
    \E ids \in SUBSET {id \in DeliveryIds : delivery[id].status \in Terminal} \ {{}} :
        /\ delivery' = [id \in DeliveryIds |->
              IF id \in ids THEN Deleted(delivery[id]) ELSE delivery[id]]
        /\ UNCHANGED <<session, device, posted, config, clock, txn, sweep, threads, pushes>>

-----------------------------------------------------------------------------
(* dispatch_claimed_delivery, one thread per claimed row.                  *)

Advance(t, phase, until) ==
    (threads \ {t}) \cup {[t EXCEPT !.phase = phase, !.until = until]}

\* Fault: the token of the claim is not compared with the row's.
ClaimIsCurrentAnyToken(t) ==
    LET row == delivery[t.id]
        dev == device[t.id[2]]
    IN  /\ row.status = "processing" /\ row.lease = t.lease
        /\ row.recipient = dev.user /\ dev.user = t.user
        /\ Bound(t.id[2])

\* _claim_is_current: does not look at the lease's expiry or the configuration.
ClaimIsCurrent(t) ==
    LET row == delivery[t.id]
        dev == device[t.id[2]]
    IN  /\ row.status = "processing" /\ row.lease = t.lease
        /\ row.recipient = dev.user /\ dev.user = t.user
        /\ dev.token = t.token
        /\ Bound(t.id[2])

\* A claim that is not current is finished as a failure, "device_binding_changed".
Check(t) ==
    /\ t.phase = "claimed"
    /\ threads' = Advance(t, IF ClaimIsCurrent(t) THEN "checked" ELSE "failed", 0)
    /\ UNCHANGED <<session, device, delivery, posted, config, clock, txn, sweep, pushes>>

\* APNsSender.send: delivered; retryable (429, 5xx, network); permanent; or the
\* token is no longer valid since `until'.  Without a timestamp in the answer the
\* code takes the registration time the claim saw, one of the same values.
Send(t) ==
    /\ t.phase = "checked"
    /\ pushes' = [pushes EXCEPT ![t.id] = @ + 1]
    /\ \/ \E phase \in {"sent", "retry", "failed"} : threads' = Advance(t, phase, 0)
       \/ \E until \in 0..clock : threads' = Advance(t, "invalid", until)
    /\ UNCHANGED <<session, device, delivery, posted, config, clock, txn, sweep>>

\* Fault: the answer is applied to whatever lease the row has.
HoldsAnyLease(t) == delivery[t.id].status = "processing"

\* The row is still processing under the lease this thread was given.
HoldsLease(t) ==
    delivery[t.id].status = "processing" /\ delivery[t.id].lease = t.lease

\* The 410 speaks of the binding as it is now, not of a newer registration.
InvalidationCovers(t) ==
    LET dev == device[t.id[2]]
    IN  /\ Present(t.id[2])
        /\ dev.token = t.token /\ dev.user = t.user
        /\ dev.registeredAt <= t.until

Settled(row, phase) ==
    IF phase = "sent" THEN [Failed(row) EXCEPT !.status = "sent"]
    ELSE IF phase = "retry" /\ ~OutOfAttempts(row) THEN [Failed(row) EXCEPT !.status = "pending"]
    ELSE Failed(row)

\* _finish_delivery when no device is written: one locked read and one commit.
Finish(t) ==
    /\ \/ t.phase \in {"sent", "retry", "failed"}
       \/ t.phase = "invalid" /\ ~(HoldsLease(t) /\ InvalidationCovers(t))
    /\ t.id \notin LockedDeliveries
    /\ delivery' = IF HoldsLease(t)
                   THEN [delivery EXCEPT ![t.id] = Settled(@, t.phase)]
                   ELSE delivery
    /\ threads' = threads \ {t}
    /\ UNCHANGED <<session, device, posted, config, clock, txn, sweep, pushes>>

\* _finish_delivery of an invalid token: the delivery is locked, the device is
\* read without a lock, and is_active is written only if it was read as true.
InvalidateRead(t) ==
    /\ t.phase = "invalid"
    /\ t.id \notin LockedDeliveries
    /\ HoldsLease(t) /\ InvalidationCovers(t)
    /\ threads' = Advance(t, IF device[t.id[2]].state = "active"
                             THEN "deactivating" ELSE "cancelling", t.until)
    /\ UNCHANGED <<session, device, delivery, posted, config, clock, txn, sweep, pushes>>

\* The device's other deliveries are cancelled, then everything is committed.
InvalidateCommit(t) ==
    /\ t.phase \in {"deactivating", "cancelling"}
    /\ t.id[2] \notin LockedDevices
    /\ \A id \in LockedDeliveries \ {t.id} : id[2] # t.id[2]
    /\ delivery' = [CancelOn({t.id[2]}) EXCEPT ![t.id] = Failed(delivery[t.id])]
    /\ device' = IF t.phase = "deactivating" THEN DeactivateAll({t.id[2]}) ELSE device
    /\ threads' = threads \ {t}
    /\ UNCHANGED <<session, posted, config, clock, txn, sweep, pushes>>

\* A thread raises.  If gather awaits it, the loop logs and polls again while
\* the other threads run on unawaited.
ThreadFails(t) ==
    /\ threads' = {[x EXCEPT !.awaited = @ /\ ~(t.awaited /\ x.worker = t.worker)] :
                      x \in threads \ {t}}
    /\ UNCHANGED <<session, device, delivery, posted, config, clock, txn, sweep, pushes>>

DispatchStep(t) ==
    Check(t) \/ Send(t) \/ Finish(t) \/ InvalidateRead(t) \/ InvalidateCommit(t)

-----------------------------------------------------------------------------
(* The environment.                                                        *)

\* available_at of a pending row, or lease_expires_at of a processing one, passes.
TimePasses(id) ==
    /\ delivery[id].status \in Cancelable /\ ~delivery[id].ripe
    /\ delivery' = [delivery EXCEPT ![id].ripe = TRUE]
    /\ UNCHANGED <<session, device, posted, config, clock, txn, sweep, threads, pushes>>

\* The API process of w dies; its leases stay in the database.
WorkerCrash(w) ==
    /\ sweep[w].open \/ \E t \in threads : t.worker = w
    /\ sweep' = [sweep EXCEPT ![w] = [open |-> FALSE, ids |-> {}]]
    /\ threads' = {t \in threads : t.worker # w}
    /\ UNCHANGED <<session, device, delivery, posted, config, clock, txn, pushes>>

\* All API processes are restarted with another topic or APNs environment.
Redeploy ==
    /\ \E c \in Configs \ {config} : config' = c
    /\ txn' = [s \in Slots |-> NoTxn]
    /\ sweep' = [w \in Workers |-> [open |-> FALSE, ids |-> {}]]
    /\ threads' = {}
    /\ UNCHANGED <<session, device, delivery, posted, clock, pushes>>

-----------------------------------------------------------------------------
TxnStep(s) == RegisterRead(s) \/ RegisterCommit(s) \/ RevokeCommit(s) \/ SendCommit(s)

Next ==
    \/ \E s \in Slots : Authenticate(s) \/ RevokeRead(s) \/ SendRead(s) \/ TxnStep(s) \/ Abort(s)
    \/ UnregisterDevice \/ ProvisionAdmin \/ SessionExpires \/ Redeploy
    \/ \E w \in Workers : SweepRead(w) \/ Claim(w) \/ ClaimFails(w) \/ WorkerCrash(w)
    \/ \E t \in threads : DispatchStep(t) \/ ThreadFails(t)
    \/ \E id \in DeliveryIds : TimePasses(id)
    \/ Purge

Spec == Init /\ [][Next]_vars

\* A transaction ends, by commit or by rollback (a statement waiting in a
\* deadlock is made a victim); a running worker polls, and gets through a
\* claim if it can try for ever; a thread is scheduled; time passes.
Fairness ==
    /\ \A s \in Slots : WF_vars(TxnStep(s) \/ Abort(s))
    /\ \A w \in Workers : WF_vars(SweepRead(w)) /\ SF_vars(Claim(w))
    /\ \A id \in DeliveryIds :
        /\ WF_vars(TimePasses(id))
        /\ WF_vars(\E t \in threads : t.id = id /\ DispatchStep(t))
        /\ WF_vars(\E t \in threads : /\ t.id = id /\ t.phase \in {"deactivating", "cancelling"}
                                      /\ InvalidateCommit(t) \/ ThreadFails(t))

FairSpec == Spec /\ Fairness

-----------------------------------------------------------------------------
(* Safety.                                                                 *)

\* However registrations of one account race with each other, with logouts and
\* with redeployments, the account never has more live bindings under the
\* running configuration than the cap allows (the user-row lock of
\* register_device is what serialises the count with the insert).
ActiveDeviceCap ==
    \A u \in Users : Cardinality({d \in Devices : device[d].user = u /\ Routable(d)}) <= MaxDevices

\* The pushes made for a delivery, and those its threads may still make, never
\* outnumber the attempts counted in its row, nor the configured maximum: a
\* crash, a lease that runs out under a slow thread, or a retry costs an attempt
\* before it costs a push.
MayPush(id) == {t \in threads : t.id = id /\ t.phase \in {"claimed", "checked"}}

PushesWithinAttempts ==
    \A id \in DeliveryIds :
        /\ pushes[id] + Cardinality(MayPush(id)) <= delivery[id].attempts
        /\ delivery[id].attempts <= MaxAttempts

\* However often a row is claimed again, at most one thread holds its lease, and
\* no lease is newer than the row's attempt counter.
LeaseIsExclusive ==
    /\ \A t, x \in threads : t.id = x.id /\ HoldsLease(t) /\ HoldsLease(x) => t = x
    /\ \A t \in threads : t.lease <= delivery[t.id].attempts

\* A sent, failed or cancelled delivery stays what it is until it is purged or
\* its device is deleted: no late answer, sweep or rebinding revives or relabels it.
TerminalIsFinal ==
    [][\A id \in DeliveryIds :
          delivery[id].status \in Terminal =>
              delivery'[id].status \in {delivery[id].status, "gone"}]_vars

\* A row is marked sent, or returned to the queue, only on the answer to the
\* attempt that holds its lease; the answer to an attempt that lost it is dropped.
SettledByLeaseHolder ==
    [][\A id \in DeliveryIds :
          /\ delivery[id].status = "processing"
          /\ delivery'[id].status \in {"sent", "pending"}
          => \E t \in threads \ threads' :
                /\ t.id = id /\ t.lease = delivery[id].lease
                /\ t.phase = IF delivery'[id].status = "sent" THEN "sent" ELSE "retry"]_vars

\* When a push passes its last check, no live binding of another account answers
\* for that token, even if the token moved to another row since the claim.
CheckedTokenIsTheRecipients ==
    [][\A t \in threads :
          t.phase = "claimed" /\ [t EXCEPT !.phase = "checked"] \in threads' =>
              \A d \in Devices : Routable(d) /\ device[d].token = t.token
                                    => device[d].user = t.user]_vars

-----------------------------------------------------------------------------
(* Liveness, under Fairness.                                               *)

\* An active binding whose session was revoked or expired, even one whose
\* registration committed after the logout or that create_admin.py left behind,
\* is eventually deactivated by a worker's sweep.
DeadBindingIsRetired ==
    \A d \in Devices :
        LET dead == device[d].state = "active" /\ session[device[d].session] # "live"
        IN  dead ~> ~dead

\* A queued delivery whose recipient still owns the device row is eventually
\* sent, failed, cancelled or deleted, through crashes, lost leases and retries.
QueuedDeliverySettles ==
    \A id \in DeliveryIds :
        LET current == /\ delivery[id].status \in Cancelable
                       /\ delivery[id].recipient = device[id[2]].user
                       /\ device[id[2]].config = config
        IN  current ~> ~current

-----------------------------------------------------------------------------
(* What the documentation says and the code does not do: each is violated. *)

\* docs/ARCHITECTURE.md:99: "Logout/session revocation deactivates the associated
\* binding."  deactivate_session_devices updates by ids it read earlier.
RevocationHitsAssociatedBinding ==
    [][\A s \in Slots, d \in Devices :
          /\ txn[s].kind = "revoke" /\ txn'[s].kind = "none"
          /\ device[d].state = "active" /\ device'[d].state = "inactive"
          => device[d].session \in txn[s].sessions]_vars

\* README.md:181: an expired token is deactivated "after checking the new
\* registration time".  The check and the write are not one step.
InvalidationSparesNewRegistration ==
    [][\A t \in threads \ threads' :
          /\ device[t.id[2]].state = "active" /\ device'[t.id[2]].state = "inactive"
          => device[t.id[2]].registeredAt <= t.until]_vars
=============================================================================
