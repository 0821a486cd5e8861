-------------------------- MODULE PushOutboxProofs --------------------------
(* Invariants of PushOutbox for every number of users, devices, messages,  *)
(* workers and open transactions.                                          *)
EXTENDS PushOutbox, FiniteSetTheorems, FunctionTheorems, TLAPS

-----------------------------------------------------------------------------
(* What the row updates preserve.                                          *)

\* Every update of a delivery row keeps the table's columns and its counter.
LEMMA DeliveryUpdates ==
    ASSUME NEW row \in Delivery
    PROVE  /\ Cancelled(row) \in Delivery /\ Cancelled(row).attempts = row.attempts
           /\ Deleted(row) \in Delivery /\ Deleted(row).attempts = row.attempts
           /\ Failed(row) \in Delivery /\ Failed(row).attempts = row.attempts
           /\ Leased(row) \in Delivery /\ Leased(row).attempts = row.attempts + 1
           /\ \A phase : /\ Settled(row, phase) \in Delivery
                         /\ Settled(row, phase).attempts = row.attempts
<1>1. Cancelled(row) \in Delivery /\ Cancelled(row).attempts = row.attempts
    BY DEF Delivery, Cancelled, Cancelable, Terminal
<1>2. Deleted(row) \in Delivery /\ Deleted(row).attempts = row.attempts
    BY DEF Delivery, Deleted, Cancelable, Terminal
<1>3. Failed(row) \in Delivery /\ Failed(row).attempts = row.attempts
    BY DEF Delivery, Failed, Cancelable, Terminal
<1>4. Leased(row) \in Delivery /\ Leased(row).attempts = row.attempts + 1
  <2>1. row.attempts \in Nat /\ row.attempts + 1 \in Nat
    BY DEF Delivery
  <2>2. "processing" \in {"none", "gone"} \cup Cancelable \cup Terminal
    BY DEF Cancelable
  <2> QED
    BY <2>1, <2>2 DEF Delivery, Leased
<1>5. ASSUME NEW phase
      PROVE  /\ Settled(row, phase) \in Delivery
             /\ Settled(row, phase).attempts = row.attempts
    BY <1>3 DEF Delivery, Settled, Cancelable, Terminal
<1> QED
    BY <1>1, <1>2, <1>3, <1>4, <1>5

LEMMA CancelOnType ==
    ASSUME TypeOK, NEW ds
    PROVE  CancelOn(ds) \in [DeliveryIds -> Delivery]
    BY DeliveryUpdates DEF TypeOK, CancelOn

LEMMA DeactivateAllType ==
    ASSUME TypeOK, NEW ds
    PROVE  DeactivateAll(ds) \in [Devices -> Device]
    BY DEF TypeOK, DeactivateAll, Deactivated, Device

LEMMA SweptCases ==
    ASSUME NEW ids, NEW id
    PROVE  \/ Swept(id, ids) = Cancelled(delivery[id])
           \/ delivery[id].status \in Cancelable /\ Swept(id, ids) = Failed(delivery[id])
           \/ Swept(id, ids) = delivery[id]
    BY Zenon DEF Swept

LEMMA SweptType ==
    ASSUME TypeOK, NEW ids, NEW id \in DeliveryIds
    PROVE  /\ Swept(id, ids) \in Delivery
           /\ Swept(id, ids).attempts = delivery[id].attempts
    BY SweptCases, DeliveryUpdates DEF TypeOK

LEMMA AdvanceType ==
    ASSUME TypeOK, NEW t \in threads, NEW until \in Nat,
           NEW phase \in {"claimed", "checked", "sent", "retry", "failed", "invalid",
                          "deactivating", "cancelling"}
    PROVE  Advance(t, phase, until) \subseteq Thread
    BY DEF TypeOK, Advance, Thread

LEMMA CloseType ==
    ASSUME TypeOK, NEW s \in Slots, Close(s)
    PROVE  txn' \in [Slots -> Txn]
    BY DEF TypeOK, Close, Txn

-----------------------------------------------------------------------------
(* Type correctness: one lemma per group of actions.                       *)

LEMMA InitType == Init => TypeOK
<1> SUFFICES ASSUME Init PROVE TypeOK
    OBVIOUS
<1>1. /\ (CHOOSE u \in Users : TRUE) \in Users
      /\ (CHOOSE s \in Sessions : TRUE) \in Sessions
      /\ (CHOOSE i \in Installations : TRUE) \in Installations
      /\ (CHOOSE k \in Tokens : TRUE) \in Tokens
      /\ (CHOOSE c \in Configs : TRUE) \in Configs
    BY OutboxAssumptions
<1>2. device \in [Devices -> Device]
    BY <1>1 DEF Init, Device
<1>3. delivery \in [DeliveryIds -> Delivery]
    BY <1>1 DEF Init, Delivery
<1>4. txn \in [Slots -> Txn]
    BY DEF Init, Txn
<1> QED
    BY <1>2, <1>3, <1>4 DEF Init, TypeOK

LEMMA RegistrationType ==
    ASSUME TypeOK, NEW s \in Slots,
           Authenticate(s) \/ RegisterRead(s) \/ RegisterCommit(s)
    PROVE  TypeOK'
<1>1. CASE Authenticate(s)
  <2>1. txn' \in [Slots -> Txn]
      BY <1>1 DEF TypeOK, Authenticate, Txn
  <2> QED
      BY <1>1, <2>1 DEF TypeOK, Authenticate
<1>2. CASE RegisterRead(s)
  <2>1. txn[s].kind = "authenticated"
      BY <1>2 DEF RegisterRead
  <2>2. txn[s] \in [kind: {"authenticated"}, session: Sessions,
                    installation: Installations, token: Tokens]
      BY <2>1 DEF TypeOK, Txn, NoTxn
  <2>3. clock' \in Nat /\ txn' \in [Slots -> Txn]
    <3>1. CASE Close(s) /\ UNCHANGED clock
        BY <3>1, CloseType DEF TypeOK
    <3>2. CASE ~(Close(s) /\ UNCHANGED clock)
      <4> DEFINE opened(stale, installed, bearer) ==
                     [kind |-> "register", session |-> txn[s].session,
                      installation |-> txn[s].installation, token |-> txn[s].token,
                      now |-> clock + 1, stale |-> stale,
                      installed |-> installed, bearer |-> bearer]
      <4>1. PICK stale \in SUBSET Devices, installed \in SUBSET Devices,
                 bearer \in SUBSET Devices :
                /\ clock' = clock + 1
                /\ txn' = [txn EXCEPT ![s] = opened(stale, installed, bearer)]
          BY <1>2, <3>2 DEF RegisterRead, StaleDevices
      <4>2. clock + 1 \in Nat
          BY DEF TypeOK
      <4>3. opened(stale, installed, bearer) \in Txn
          BY <2>2, <4>2 DEF Txn
      <4> HIDE DEF opened
      <4> QED
          BY <4>1, <4>2, <4>3 DEF TypeOK
    <3> QED
        BY <3>1, <3>2
  <2> QED
      BY <1>2, <2>3 DEF TypeOK, RegisterRead
<1>3. CASE RegisterCommit(s)
  <2>1. txn[s].kind = "register"
      BY <1>3 DEF RegisterCommit
  <2>2. txn[s] \in [kind: {"register"}, session: Sessions, installation: Installations,
                    token: Tokens, now: Nat, stale: SUBSET Devices,
                    installed: SUBSET Devices, bearer: SUBSET Devices]
      BY <2>1 DEF TypeOK, Txn, NoTxn
  <2>3. Binding(txn[s]) \in Device
      BY <2>2, OutboxAssumptions DEF Binding, Device, TypeOK
  <2>4. \A e \in Devices : /\ [device[e] EXCEPT !.state = "deleted"] \in Device
                           /\ Deactivated(device[e]) \in Device
      BY DEF TypeOK, Device, Deactivated
  <2>5. device' \in [Devices -> Device]
    <3>1. ASSUME NEW d
          PROVE  Registered(txn[s], d) \in [Devices -> Device]
        BY <2>3, <2>4 DEF Registered, TypeOK
    <3> QED
        BY <1>3, <3>1 DEF RegisterCommit, TypeOK
  <2>6. delivery' \in [DeliveryIds -> Delivery]
      BY <1>3, DeliveryUpdates, CancelOnType DEF RegisterCommit, TypeOK
  <2>7. txn' \in [Slots -> Txn]
      BY <1>3, CloseType DEF RegisterCommit
  <2> QED
      BY <1>3, <2>5, <2>6, <2>7 DEF RegisterCommit, TypeOK
<1> QED
    BY <1>1, <1>2, <1>3

LEMMA RequestType ==
    ASSUME TypeOK, NEW s \in Slots,
           RevokeRead(s) \/ RevokeCommit(s) \/ SendRead(s) \/ SendCommit(s) \/ Abort(s)
    PROVE  TypeOK'
<1>1. CASE RevokeRead(s)
  <2>1. txn' \in [Slots -> Txn]
      BY <1>1 DEF TypeOK, RevokeRead, Txn
  <2> QED
      BY <1>1, <2>1 DEF TypeOK, RevokeRead
<1>2. CASE RevokeCommit(s)
    BY <1>2, CancelOnType, DeactivateAllType, CloseType DEF RevokeCommit, Revoked, TypeOK
<1>3. CASE SendRead(s)
  <2>1. \A d \in Devices : device[d].user \in Users
      BY DEF TypeOK, Device
  <2>2. txn' \in [Slots -> Txn]
      BY <1>3, <2>1 DEF TypeOK, SendRead, Txn
  <2> QED
      BY <1>3, <2>2 DEF TypeOK, SendRead
<1>4. CASE SendCommit(s)
  <2>1. txn[s] \in [kind: {"send"}, message: Messages, fanout: SUBSET (Devices \X Users)]
      BY <1>4 DEF TypeOK, SendCommit, Txn, NoTxn
  <2> DEFINE fanout == txn[s].fanout
             row(d) == [status |-> "pending", attempts |-> 0, lease |-> 0, ripe |-> TRUE,
                        recipient |-> (CHOOSE p \in fanout : p[1] = d)[2]]
  <2>2. ASSUME NEW d \in {p[1] : p \in fanout}
        PROVE  row(d) \in Delivery
    <3>1. (CHOOSE p \in fanout : p[1] = d) \in fanout
        BY <2>2
    <3>2. (CHOOSE p \in fanout : p[1] = d)[2] \in Users
        BY <2>1, <3>1
    <3> QED
        BY <3>2 DEF Delivery, Cancelable
  <2>3. delivery' \in [DeliveryIds -> Delivery]
      BY <1>4, <2>2 DEF SendCommit, TypeOK
  <2>4. posted' \subseteq Messages
      BY <1>4, <2>1 DEF SendCommit, TypeOK
  <2> QED
      BY <1>4, <2>3, <2>4, CloseType DEF SendCommit, TypeOK
<1>5. CASE Abort(s)
    BY <1>5, CloseType DEF Abort, TypeOK
<1> QED
    BY <1>1, <1>2, <1>3, <1>4, <1>5

LEMMA OneStatementType ==
    ASSUME TypeOK, UnregisterDevice \/ ProvisionAdmin \/ SessionExpires \/ Redeploy \/ Purge
    PROVE  TypeOK'
<1>1. CASE UnregisterDevice
    BY <1>1, CancelOnType, DeactivateAllType DEF UnregisterDevice, TypeOK
<1>2. CASE ProvisionAdmin
    BY <1>2 DEF ProvisionAdmin, Revoked, TypeOK
<1>3. CASE SessionExpires
    BY <1>3 DEF SessionExpires, TypeOK
<1>4. CASE Redeploy
    BY <1>4 DEF Redeploy, TypeOK, Txn
<1>5. CASE Purge
    BY <1>5, DeliveryUpdates DEF Purge, TypeOK
<1> QED
    BY <1>1, <1>2, <1>3, <1>4, <1>5

LEMMA WorkerType ==
    ASSUME TypeOK, NEW w \in Workers,
           SweepRead(w) \/ Claim(w) \/ ClaimFails(w) \/ WorkerCrash(w)
    PROVE  TypeOK'
<1>1. CASE SweepRead(w)
    BY <1>1 DEF SweepRead, DeadBindings, TypeOK
<1>2. CASE Claim(w)
  <2> DEFINE ids == sweep[w].ids
             thread(id) == [worker |-> w, awaited |-> TRUE, id |-> id,
                            lease |-> delivery[id].attempts + 1,
                            user |-> delivery[id].recipient, token |-> device[id[2]].token,
                            phase |-> "claimed", until |-> 0]
  <2>1. PICK batch \in SUBSET Eligible(ids) :
            /\ delivery' = [id \in DeliveryIds |->
                  IF id \in batch THEN Leased(delivery[id]) ELSE Swept(id, ids)]
            /\ threads' = threads \cup {thread(id) : id \in batch}
      BY <1>2 DEF Claim
  <2>2. delivery' \in [DeliveryIds -> Delivery]
      BY <2>1, DeliveryUpdates, SweptType DEF TypeOK
  <2>3. ASSUME NEW id \in batch
        PROVE  thread(id) \in Thread
    <3>1. id \in DeliveryIds /\ id[2] \in Devices
        BY DEF Eligible, DeliveryIds
    <3>2. delivery[id].attempts + 1 \in Nat /\ delivery[id].recipient \in Users
        BY <3>1 DEF TypeOK, Delivery
    <3>3. device[id[2]].token \in Tokens
        BY <3>1 DEF TypeOK, Device
    <3> QED
        BY <3>1, <3>2, <3>3 DEF Thread
  <2>4. threads' \subseteq Thread
      BY <2>1, <2>3 DEF TypeOK
  <2> QED
      BY <1>2, <2>2, <2>4, DeactivateAllType DEF Claim, TypeOK
<1>3. CASE ClaimFails(w)
    BY <1>3 DEF ClaimFails, TypeOK
<1>4. CASE WorkerCrash(w)
    BY <1>4 DEF WorkerCrash, TypeOK
<1> QED
    BY <1>1, <1>2, <1>3, <1>4

LEMMA DispatchType ==
    ASSUME TypeOK, NEW t \in threads, DispatchStep(t) \/ ThreadFails(t)
    PROVE  TypeOK'
<1>1. CASE Check(t)
    BY <1>1, AdvanceType DEF Check, TypeOK
<1>2. CASE Send(t)
  <2>1. threads' \subseteq Thread
      BY <1>2, AdvanceType DEF Send, TypeOK
  <2>2. t.id \in DeliveryIds
      BY DEF TypeOK, Thread
  <2> QED
      BY <1>2, <2>1, <2>2 DEF Send, TypeOK
<1>3. CASE Finish(t)
  <2>1. delivery' \in [DeliveryIds -> Delivery]
      BY <1>3, DeliveryUpdates DEF Finish, TypeOK
  <2> QED
      BY <1>3, <2>1 DEF Finish, TypeOK
<1>4. CASE InvalidateRead(t)
    BY <1>4, AdvanceType DEF InvalidateRead, TypeOK, Thread
<1>5. CASE InvalidateCommit(t)
  <2>1. t.id \in DeliveryIds
      BY DEF TypeOK, Thread
  <2>2. delivery' \in [DeliveryIds -> Delivery]
      BY <1>5, <2>1, DeliveryUpdates, CancelOnType DEF InvalidateCommit, TypeOK
  <2> QED
      BY <1>5, <2>2, DeactivateAllType DEF InvalidateCommit, TypeOK
<1>6. CASE ThreadFails(t)
  <2>1. ASSUME NEW x \in threads, NEW b \in BOOLEAN
        PROVE  [x EXCEPT !.awaited = b] \in Thread
      BY DEF TypeOK, Thread
  <2>2. ASSUME NEW x \in threads
        PROVE  [x EXCEPT !.awaited = @ /\ ~(t.awaited /\ x.worker = t.worker)] \in Thread
    <3>1. (x.awaited /\ ~(t.awaited /\ x.worker = t.worker)) \in BOOLEAN
        OBVIOUS
    <3> QED
        BY <2>1, <3>1, Zenon
  <2>3. threads' \subseteq Thread
      BY <1>6, <2>2, Zenon DEF ThreadFails
  <2> QED
      BY <1>6, <2>3 DEF ThreadFails, TypeOK
<1> QED
    BY <1>1, <1>2, <1>3, <1>4, <1>5, <1>6 DEF DispatchStep

LEMMA TimeType ==
    ASSUME TypeOK, NEW id \in DeliveryIds, TimePasses(id)
    PROVE  TypeOK'
<1>1. [delivery[id] EXCEPT !.ripe = TRUE] \in Delivery
    BY DEF TypeOK, Delivery
<1> QED
    BY <1>1 DEF TimePasses, TypeOK

LEMMA NextType == TypeOK /\ [Next]_vars => TypeOK'
<1> SUFFICES ASSUME TypeOK, [Next]_vars PROVE TypeOK'
    OBVIOUS
<1>1. CASE UNCHANGED vars
    BY <1>1 DEF vars, TypeOK
<1>2. CASE Next
    BY <1>2, RegistrationType, RequestType, OneStatementType, WorkerType, DispatchType,
       TimeType
    DEF Next, TxnStep
<1> QED
    BY <1>1, <1>2

\* Every reachable state has the declared shape, whatever the sizes of the tables.
THEOREM OutboxTypeCorrect == Spec => []TypeOK
    BY InitType, NextType, PTL DEF Spec

-----------------------------------------------------------------------------
(* The inductive invariant behind the lease properties.  LeaseIsExclusive  *)
(* alone is not inductive: a claim must find no thread with the attempt it *)
(* draws, an insert must not reset a row some thread still works for, and  *)
(* the row an invalidation has locked must not change under it.            *)

\* A message is inserted once: by one open transaction, and not after another.
SendsOnce ==
    /\ \A s \in Slots : txn[s].kind = "send" => txn[s].message \notin posted
    /\ \A s, o \in Slots :
          txn[s].kind = "send" /\ txn[o].kind = "send" /\ txn[s].message = txn[o].message
              => s = o

\* Rows and threads exist only for messages whose transaction committed.
RowsOfPosted ==
    /\ \A id \in DeliveryIds : id[1] \notin posted => delivery[id].status = "none"
    /\ \A t \in threads : t.id[1] \in posted

\* Each attempt of a row is drawn by one thread.
LeasesDrawnOnce ==
    /\ \A t \in threads : t.lease <= delivery[t.id].attempts
    /\ \A t, x \in threads : t.id = x.id /\ t.lease = x.lease => t = x

\* A locked row keeps the lease its thread saw when it took the lock.
LockedRowKeepsLease ==
    \A t \in threads : t.phase \in {"deactivating", "cancelling"} => HoldsLease(t)

LeaseInvariant == SendsOnce /\ RowsOfPosted /\ LeasesDrawnOnce /\ LockedRowKeepsLease

LEMMA LeaseInit == Init => LeaseInvariant
    BY DEF Init, LeaseInvariant, SendsOnce, RowsOfPosted, LeasesDrawnOnce,
           LockedRowKeepsLease, NoTxn, DeliveryIds

Ripened(row) == [row EXCEPT !.ripe = TRUE]

\* What a step other than an insert may do to a delivery row.
RowStep(id) ==
    LET row == delivery[id]
    IN  \/ delivery'[id] \in {row, Cancelled(row), Deleted(row)}
        \/ row.status \in Cancelable /\ delivery'[id] = Failed(row)
        \/ row.status \in Cancelable /\ delivery'[id] = Ripened(row)
        \/ /\ row.status \in Cancelable /\ delivery'[id] = Leased(row)
           /\ \E w \in Workers : Claim(w)
        \/ \E t \in threads :
              /\ t.id = id
              /\ \/ Finish(t) /\ HoldsLease(t) /\ delivery'[id] = Settled(row, t.phase)
                 \/ InvalidateCommit(t) /\ delivery'[id] = Failed(row)

LEMMA RowSteps ==
    ASSUME TypeOK, [Next]_vars, \A s \in Slots : ~SendCommit(s), NEW id \in DeliveryIds
    PROVE  RowStep(id)
<1> DEFINE row == delivery[id]
<1>1. ASSUME NEW ds
      PROVE  CancelOn(ds)[id] \in {row, Cancelled(row)}
    BY DEF CancelOn
<1>2. CASE delivery' = delivery
    BY <1>2 DEF RowStep
<1>3. ASSUME NEW s \in Slots, RegisterCommit(s)
      PROVE  delivery'[id] \in {row, Cancelled(row), Deleted(row)}
    BY <1>1, <1>3 DEF RegisterCommit
<1>4. ASSUME NEW s \in Slots, RevokeCommit(s)
      PROVE  delivery'[id] \in {row, Cancelled(row)}
    BY <1>1, <1>4 DEF RevokeCommit
<1>5. ASSUME UnregisterDevice
      PROVE  delivery'[id] \in {row, Cancelled(row)}
    BY <1>1, <1>5 DEF UnregisterDevice
<1>6. ASSUME NEW w \in Workers, Claim(w)
      PROVE  RowStep(id)
  <2> DEFINE ids == sweep[w].ids
  <2>1. PICK batch \in SUBSET Eligible(ids) :
            delivery'[id] = IF id \in batch THEN Leased(row) ELSE Swept(id, ids)
      BY <1>6 DEF Claim
  <2>2. id \in batch => row.status \in Cancelable
    <3>1. id \in batch => Swept(id, ids).status \in Cancelable
        BY DEF Eligible
    <3>2. row.status \notin Cancelable => Swept(id, ids) = row
        BY SweptCases DEF Cancelled
    <3> QED
        BY <3>1, <3>2
  <2> QED
      BY <1>6, <2>1, <2>2, SweptCases DEF RowStep
<1>7. ASSUME Purge
      PROVE  delivery'[id] \in {row, Deleted(row)}
    BY <1>7 DEF Purge
<1>8. ASSUME NEW t \in threads, Finish(t)
      PROVE  RowStep(id)
    BY <1>8 DEF Finish, TypeOK, RowStep
<1>9. ASSUME NEW t \in threads, InvalidateCommit(t)
      PROVE  RowStep(id)
  <2>1. delivery' = [CancelOn({t.id[2]}) EXCEPT ![t.id] = Failed(delivery[t.id])]
      BY <1>9 DEF InvalidateCommit
  <2>2. CancelOn({t.id[2]}) \in [DeliveryIds -> Delivery]
      BY CancelOnType
  <2>3. CASE id = t.id
      BY <1>9, <2>1, <2>2, <2>3 DEF RowStep
  <2>4. CASE id # t.id
      BY <1>1, <2>1, <2>2, <2>4 DEF RowStep
  <2> QED
      BY <2>3, <2>4
<1>10. ASSUME NEW i \in DeliveryIds, TimePasses(i)
      PROVE  RowStep(id)
    BY <1>10 DEF TimePasses, TypeOK, RowStep, Ripened
<1> QED
    BY <1>2, <1>3, <1>4, <1>5, <1>6, <1>7, <1>8, <1>9, <1>10
    DEF Next, vars, TxnStep, DispatchStep, Authenticate, RegisterRead, RevokeRead, SendRead,
        Abort, ProvisionAdmin, SessionExpires, Redeploy, SweepRead, ClaimFails, WorkerCrash,
        Check, Send, InvalidateRead, ThreadFails, RowStep

\* Updates of rows other than the insert never lower a counter.
LEMMA AttemptsGrow ==
    ASSUME TypeOK, [Next]_vars, \A s \in Slots : ~SendCommit(s), NEW id \in DeliveryIds
    PROVE  delivery'[id].attempts >= delivery[id].attempts
<1>1. delivery[id] \in Delivery /\ delivery[id].attempts \in Nat
    BY DEF TypeOK, Delivery
<1>2. Ripened(delivery[id]).attempts = delivery[id].attempts
    BY <1>1 DEF Delivery, Ripened
<1>3. /\ Cancelled(delivery[id]).attempts = delivery[id].attempts
      /\ Deleted(delivery[id]).attempts = delivery[id].attempts
      /\ Failed(delivery[id]).attempts = delivery[id].attempts
      /\ Leased(delivery[id]).attempts = delivery[id].attempts + 1
      /\ \A phase : Settled(delivery[id], phase).attempts = delivery[id].attempts
    BY <1>1, DeliveryUpdates
<1>4. RowStep(id)
    BY RowSteps
<1> QED
    BY <1>1, <1>2, <1>3, <1>4 DEF RowStep

\* Only the insert changes `posted', and only SendRead opens an insert.
LEMMA SendsStep == TypeOK /\ SendsOnce /\ [Next]_vars => SendsOnce'
<1> SUFFICES ASSUME TypeOK, SendsOnce, [Next]_vars PROVE SendsOnce'
    OBVIOUS
<1>1. CASE UNCHANGED <<txn, posted>>
    BY <1>1 DEF SendsOnce
<1>2. ASSUME NEW s \in Slots, Authenticate(s) \/ RegisterRead(s) \/ RevokeRead(s)
      PROVE  SendsOnce'
  <2>1. /\ posted' = posted /\ \A o \in Slots \ {s} : txn'[o] = txn[o]
        /\ txn'[s].kind # "send"
      BY <1>2 DEF TypeOK, Authenticate, RegisterRead, RevokeRead, Close, NoTxn
  <2> QED
      BY <2>1 DEF SendsOnce
<1>3. ASSUME NEW s \in Slots, Close(s), posted' = posted
      PROVE  SendsOnce'
  <2>1. \A o \in Slots : txn'[o].kind = "send" => o # s /\ txn'[o] = txn[o]
      BY <1>3 DEF TypeOK, Close, NoTxn
  <2> QED
      BY <1>3, <2>1 DEF SendsOnce
<1>4. ASSUME NEW s \in Slots, SendCommit(s)
      PROVE  SendsOnce'
  <2>1. \A o \in Slots : txn'[o].kind = "send" => o # s /\ txn'[o] = txn[o]
      BY <1>4 DEF TypeOK, SendCommit, Close, NoTxn
  <2>2. txn[s].kind = "send" /\ posted' = posted \cup {txn[s].message}
      BY <1>4 DEF SendCommit
  <2> QED
      BY <2>1, <2>2 DEF SendsOnce
<1>5. ASSUME NEW s \in Slots, SendRead(s)
      PROVE  SendsOnce'
  <2>1. PICK m \in Messages \ posted :
            /\ \A o \in Slots : txn[o].kind = "send" => txn[o].message # m
            /\ txn'[s].kind = "send" /\ txn'[s].message = m
            /\ \A o \in Slots \ {s} : txn'[o] = txn[o]
      BY <1>5 DEF TypeOK, SendRead
  <2>2. posted' = posted
      BY <1>5 DEF SendRead
  <2> QED
      BY <2>1, <2>2 DEF SendsOnce
<1>6. CASE Redeploy
    BY <1>6 DEF Redeploy, SendsOnce, NoTxn
<1> QED
    BY <1>1, <1>2, <1>3, <1>4, <1>5, <1>6
    DEF Next, vars, TxnStep, DispatchStep, Abort, RegisterCommit, RevokeCommit,
        UnregisterDevice, ProvisionAdmin, SessionExpires, SweepRead, Claim, ClaimFails,
        WorkerCrash, Check, Send, Finish, InvalidateRead, InvalidateCommit, ThreadFails,
        TimePasses, Purge

\* What a step does to the threads, besides a claim: each remaining thread is
\* an earlier one, with its row and lease.
Continues(x, t) == x.id = t.id /\ x.lease = t.lease

LEMMA ThreadsContinue ==
    ASSUME TypeOK, [Next]_vars, \A w \in Workers : ~Claim(w)
    PROVE  /\ \A x \in threads' : \E t \in threads : Continues(x, t)
           /\ LeasesDrawnOnce => \A x, y \in threads' : Continues(x, y) => x = y
<1>1. CASE threads' \subseteq threads
    BY <1>1 DEF Continues, LeasesDrawnOnce
<1>2. ASSUME NEW t \in threads, NEW phase, NEW until, threads' = Advance(t, phase, until)
      PROVE  /\ \A x \in threads' : \E y \in threads : Continues(x, y)
             /\ LeasesDrawnOnce => \A x, y \in threads' : Continues(x, y) => x = y
  <2> DEFINE u == [t EXCEPT !.phase = phase, !.until = until]
  <2>1. Continues(u, t)
      BY DEF Continues, TypeOK, Thread
  <2>2. threads' = (threads \ {t}) \cup {u}
      BY <1>2 DEF Advance
  <2>3. \A x \in threads' : x = u \/ (x \in threads /\ x # t)
      BY <2>2
  <2> HIDE DEF u
  <2>4. \A x \in threads' : \E y \in threads : Continues(x, y)
      BY <2>1, <2>3 DEF Continues
  <2>5. ASSUME LeasesDrawnOnce, NEW x \in threads', NEW y \in threads', Continues(x, y)
        PROVE  x = y
    <3>1. CASE x = u /\ y # u
        BY <2>1, <2>3, <2>5, <3>1 DEF Continues, LeasesDrawnOnce
    <3>2. CASE x # u /\ y = u
        BY <2>1, <2>3, <2>5, <3>2 DEF Continues, LeasesDrawnOnce
    <3>3. CASE x # u /\ y # u
        BY <2>3, <2>5, <3>3 DEF Continues, LeasesDrawnOnce
    <3> QED
        BY <3>1, <3>2, <3>3
  <2> QED
      BY <2>4, <2>5
<1>3. ASSUME NEW t \in threads, ThreadFails(t)
      PROVE  /\ \A x \in threads' : \E y \in threads : Continues(x, y)
             /\ LeasesDrawnOnce => \A x, y \in threads' : Continues(x, y) => x = y
  <2> DEFINE after(x) == [x EXCEPT !.awaited = @ /\ ~(t.awaited /\ x.worker = t.worker)]
  <2>1. \A x \in threads : Continues(after(x), x)
      BY DEF Continues, TypeOK, Thread
  <2>2. threads' = {after(x) : x \in threads \ {t}}
      BY <1>3 DEF ThreadFails
  <2>3. \A x \in threads' : \E y \in threads : x = after(y) /\ Continues(x, y)
      BY <2>1, <2>2
  <2>4. ASSUME LeasesDrawnOnce, NEW x \in threads', NEW y \in threads', Continues(x, y)
        PROVE  x = y
    <3>1. PICK a \in threads : x = after(a) /\ Continues(x, a)
        BY <2>3
    <3>2. PICK b \in threads : y = after(b) /\ Continues(y, b)
        BY <2>3
    <3> HIDE DEF after
    <3>3. Continues(a, b)
        BY <2>4, <3>1, <3>2 DEF Continues
    <3>4. a = b
        BY <2>4, <3>3 DEF Continues, LeasesDrawnOnce
    <3> QED
        BY <3>1, <3>2, <3>4
  <2> QED
      BY <2>3, <2>4
<1>4. CASE \E t \in threads : Check(t) \/ Send(t) \/ InvalidateRead(t)
    BY <1>2, <1>4 DEF Check, Send, InvalidateRead
<1> QED
    BY <1>1, <1>3, <1>4
    DEF Next, vars, TxnStep, DispatchStep, Authenticate, RegisterRead, RegisterCommit,
        RevokeRead, RevokeCommit, SendRead, SendCommit, Abort, UnregisterDevice,
        ProvisionAdmin, SessionExpires, Redeploy, SweepRead, ClaimFails, WorkerCrash,
        Finish, InvalidateCommit, TimePasses, Purge

\* The insert: rows of one message that was not posted before.
LEMMA InsertedRows ==
    ASSUME TypeOK, NEW s \in Slots, SendCommit(s)
    PROVE  /\ posted' = posted \cup {txn[s].message} /\ threads' = threads
           /\ txn[s].kind = "send"
           /\ \A id \in DeliveryIds : id[1] # txn[s].message => delivery'[id] = delivery[id]
    BY DEF SendCommit

\* What a claim adds to the threads.
LEMMA ClaimedThreads ==
    ASSUME TypeOK, NEW w \in Workers, Claim(w)
    PROVE  /\ \A t \in threads' : \/ t \in threads
                                  \/ /\ t.id \in DeliveryIds
                                     /\ delivery[t.id].status \in Cancelable
                                     /\ t.lease = delivery[t.id].attempts + 1
                                     /\ delivery'[t.id] = Leased(delivery[t.id])
                                     /\ t.id \notin LockedDeliveries
                                     /\ t.phase = "claimed"
           /\ \A t, x \in threads' \ threads : t.id = x.id => t = x
           /\ posted' = posted /\ txn' = txn
<1> DEFINE ids == sweep[w].ids
           thread(id) == [worker |-> w, awaited |-> TRUE, id |-> id,
                          lease |-> delivery[id].attempts + 1,
                          user |-> delivery[id].recipient, token |-> device[id[2]].token,
                          phase |-> "claimed", until |-> 0]
<1>1. PICK batch \in SUBSET Eligible(ids) :
          /\ delivery' = [id \in DeliveryIds |->
                IF id \in batch THEN Leased(delivery[id]) ELSE Swept(id, ids)]
          /\ threads' = threads \cup {thread(id) : id \in batch}
    BY DEF Claim
<1>2. ASSUME NEW id \in batch
      PROVE  /\ id \in DeliveryIds \ LockedDeliveries /\ delivery[id].status \in Cancelable
             /\ delivery'[id] = Leased(delivery[id])
  <2>1. id \in DeliveryIds \ LockedDeliveries /\ Swept(id, ids).status \in Cancelable
      BY DEF Eligible
  <2>2. delivery[id].status \notin Cancelable => Swept(id, ids) = delivery[id]
      BY SweptCases DEF Cancelled
  <2> QED
      BY <1>1, <2>1, <2>2
<1>3. \A t \in threads' \ threads : \E id \in batch : t = thread(id)
    BY <1>1
<1>4. \A id : /\ thread(id).id = id /\ thread(id).phase = "claimed"
              /\ thread(id).lease = delivery[id].attempts + 1
    OBVIOUS
<1>5. posted' = posted /\ txn' = txn
    BY DEF Claim
<1> HIDE DEF thread
<1> QED
    BY <1>2, <1>3, <1>4, <1>5

LEMMA RowsOfPostedStep ==
    TypeOK /\ SendsOnce /\ RowsOfPosted /\ [Next]_vars => RowsOfPosted'
<1> SUFFICES ASSUME TypeOK, SendsOnce, RowsOfPosted, [Next]_vars PROVE RowsOfPosted'
    OBVIOUS
<1>1. ASSUME NEW s \in Slots, SendCommit(s)
      PROVE  RowsOfPosted'
    BY <1>1, InsertedRows DEF RowsOfPosted
<1>2. ASSUME \A s \in Slots : ~SendCommit(s)
      PROVE  RowsOfPosted'
  <2>1. posted' = posted
      BY <1>2 DEF Next, vars, TxnStep, DispatchStep, Authenticate, RegisterRead, RegisterCommit,
        RevokeRead, RevokeCommit, SendRead, Abort, UnregisterDevice,
        ProvisionAdmin, SessionExpires, Redeploy, SweepRead, Claim, ClaimFails, WorkerCrash,
        Check, Send, Finish, InvalidateRead, InvalidateCommit, ThreadFails, TimePasses, Purge
  <2>2. ASSUME NEW id \in DeliveryIds, id[1] \notin posted
        PROVE  delivery'[id].status = "none"
    <3>1. delivery[id].status = "none" /\ \A t \in threads : t.id # id
        BY <2>2 DEF RowsOfPosted
    <3>2. "none" \notin Cancelable
        BY DEF Cancelable
    <3>3. RowStep(id)
        BY <1>2, RowSteps
    <3>4. delivery'[id] \in {delivery[id], Cancelled(delivery[id]), Deleted(delivery[id])}
        BY <3>1, <3>2, <3>3 DEF RowStep
    <3> QED
        BY <3>1, <3>2, <3>4 DEF Cancelled, Deleted
  <2>3. ASSUME NEW t \in threads'
        PROVE  t.id[1] \in posted
    <3>1. ASSUME NEW w \in Workers, Claim(w)
          PROVE  t.id[1] \in posted
      <4>1. t \in threads \/ (t.id \in DeliveryIds /\ delivery[t.id].status \in Cancelable)
          BY <3>1, ClaimedThreads
      <4> QED
          BY <4>1 DEF RowsOfPosted, Cancelable
    <3>2. ASSUME \A w \in Workers : ~Claim(w)
          PROVE  t.id[1] \in posted
      <4>1. PICK x \in threads : Continues(t, x)
          BY <3>2, ThreadsContinue
      <4> QED
          BY <4>1 DEF RowsOfPosted, Continues
    <3> QED
        BY <3>1, <3>2
  <2> QED
      BY <2>1, <2>2, <2>3 DEF RowsOfPosted
<1> QED
    BY <1>1, <1>2

LEMMA LeasesDrawnOnceStep ==
    TypeOK /\ SendsOnce /\ RowsOfPosted /\ LeasesDrawnOnce /\ [Next]_vars => LeasesDrawnOnce'
<1> SUFFICES ASSUME TypeOK, SendsOnce, RowsOfPosted, LeasesDrawnOnce, [Next]_vars
             PROVE  LeasesDrawnOnce'
    OBVIOUS
<1>0. \A t \in threads : /\ t.id \in DeliveryIds /\ t.lease \in Nat
                         /\ delivery[t.id].attempts \in Nat
    BY DEF TypeOK, Thread, Delivery
<1>1. ASSUME NEW s \in Slots, SendCommit(s)
      PROVE  LeasesDrawnOnce'
  <2>1. \A t \in threads : t.id[1] # txn[s].message
      BY <1>1, InsertedRows DEF RowsOfPosted, SendsOnce
  <2> QED
      BY <1>0, <1>1, <2>1, InsertedRows DEF LeasesDrawnOnce
<1>2. ASSUME \A s \in Slots : ~SendCommit(s)
      PROVE  \A id \in DeliveryIds : delivery'[id].attempts >= delivery[id].attempts
    BY <1>2, AttemptsGrow
<1>3. ASSUME NEW w \in Workers, Claim(w), \A s \in Slots : ~SendCommit(s)
      PROVE  LeasesDrawnOnce'
  <2>1. ASSUME NEW t \in threads' \ threads
        PROVE  /\ t.id \in DeliveryIds /\ t.lease = delivery[t.id].attempts + 1
               /\ delivery'[t.id].attempts = delivery[t.id].attempts + 1
    <3>1. /\ t.id \in DeliveryIds /\ t.lease = delivery[t.id].attempts + 1
          /\ delivery'[t.id] = Leased(delivery[t.id])
        BY <1>3, ClaimedThreads
    <3>2. delivery[t.id] \in Delivery
        BY <3>1 DEF TypeOK
    <3> QED
        BY <3>1, <3>2, DeliveryUpdates
  <2>2. \A id \in DeliveryIds : /\ delivery[id].attempts \in Nat
                                /\ delivery'[id].attempts \in Nat
      BY NextType DEF TypeOK, Delivery
  <2>3. ASSUME NEW t \in threads'
        PROVE  t.lease <= delivery'[t.id].attempts
    <3>1. CASE t \in threads
        BY <1>0, <1>2, <1>3, <2>2, <3>1 DEF LeasesDrawnOnce
    <3>2. CASE t \notin threads
        BY <2>1, <2>2, <3>2
    <3> QED
        BY <3>1, <3>2
  <2>4. ASSUME NEW t \in threads', NEW x \in threads', t.id = x.id, t.lease = x.lease
        PROVE  t = x
    <3>1. CASE t \in threads /\ x \in threads
        BY <2>4, <3>1 DEF LeasesDrawnOnce
    <3>2. CASE t \notin threads /\ x \notin threads
        BY <1>3, <2>4, <3>2, ClaimedThreads
    <3>3. ASSUME NEW a \in threads, NEW b \in threads' \ threads, a.id = b.id
          PROVE  a.lease # b.lease
        BY <1>0, <2>1, <3>3 DEF LeasesDrawnOnce
    <3> QED
        BY <2>4, <3>1, <3>2, <3>3
  <2> QED
      BY <2>3, <2>4 DEF LeasesDrawnOnce
<1>4. ASSUME \A w \in Workers : ~Claim(w), \A s \in Slots : ~SendCommit(s)
      PROVE  LeasesDrawnOnce'
  <2>1. ASSUME NEW x \in threads'
        PROVE  x.lease <= delivery'[x.id].attempts
    <3>1. PICK t \in threads : Continues(x, t)
        BY <1>4, ThreadsContinue
    <3>2. delivery'[t.id].attempts \in Nat
        BY <1>0, NextType DEF TypeOK, Delivery
    <3> QED
        BY <1>0, <1>2, <1>4, <3>1, <3>2 DEF Continues, LeasesDrawnOnce
  <2>2. \A x, y \in threads' : Continues(x, y) => x = y
      BY <1>4, ThreadsContinue
  <2> QED
      BY <2>1, <2>2 DEF LeasesDrawnOnce, Continues
<1> QED
    BY <1>1, <1>3, <1>4

\* No step changes a row an invalidation has locked: each statement that would
\* write it waits for the lock.
LEMMA LockedRowStays ==
    ASSUME TypeOK, LeaseInvariant, [Next]_vars, NEW t \in threads,
           t.phase \in {"deactivating", "cancelling"}, ~InvalidateCommit(t)
    PROVE  /\ delivery'[t.id].status = delivery[t.id].status
           /\ delivery'[t.id].lease = delivery[t.id].lease
<1> DEFINE row == delivery[t.id]
<1>1. /\ t.id \in DeliveryIds /\ t.id \in Invalidating /\ t.id \in LockedDeliveries
      /\ row \in Delivery /\ row.status = "processing" /\ row.lease = t.lease
      /\ t.id[1] \in posted
    BY DEF TypeOK, Thread, Invalidating, LockedDeliveries, LeaseInvariant,
           LockedRowKeepsLease, HoldsLease, RowsOfPosted
<1>2. ASSUME NEW ds, t.id[2] \notin ds
      PROVE  CancelOn(ds)[t.id] = row
    BY <1>1, <1>2 DEF CancelOn
<1>3. ASSUME NEW ds, Writable(ds)
      PROVE  CancelOn(ds)[t.id] = row
    BY <1>1, <1>2, <1>3 DEF Writable
<1>4. ASSUME NEW s \in Slots, RegisterCommit(s)
      PROVE  delivery'[t.id] = row
    BY <1>1, <1>2, <1>4 DEF RegisterCommit
<1>5. ASSUME NEW s \in Slots, RevokeCommit(s)
      PROVE  delivery'[t.id] = row
    BY <1>3, <1>5 DEF RevokeCommit
<1>6. ASSUME NEW s \in Slots, SendCommit(s)
      PROVE  delivery'[t.id] = row
    BY <1>1, <1>6, InsertedRows DEF LeaseInvariant, SendsOnce
<1>7. CASE UnregisterDevice
    BY <1>3, <1>7 DEF UnregisterDevice
<1>8. ASSUME NEW w \in Workers, Claim(w)
      PROVE  delivery'[t.id] = row
  <2>1. t.id \notin Eligible(sweep[w].ids) /\ Swept(t.id, sweep[w].ids) = row
      BY <1>1, <1>8 DEF Claim, Eligible
  <2> QED
      BY <1>1, <1>8, <2>1 DEF Claim
<1>9. CASE Purge
    BY <1>1, <1>9 DEF Purge, Terminal
<1>10. ASSUME NEW x \in threads, Finish(x)
      PROVE  delivery'[t.id] = row
    BY <1>1, <1>10 DEF Finish, TypeOK
<1>11. ASSUME NEW x \in threads, InvalidateCommit(x)
      PROVE  delivery'[t.id] = row
  <2>1. x # t
      BY <1>11
  <2>2. x.id # t.id
      BY <1>1, <1>11, <2>1
      DEF InvalidateCommit, LeaseInvariant, LockedRowKeepsLease, HoldsLease, LeasesDrawnOnce
  <2>3. t.id[2] # x.id[2]
      BY <1>1, <1>11, <2>2 DEF InvalidateCommit
  <2>4. CancelOn({x.id[2]})[t.id] = row
      BY <1>2, <2>3
  <2>5. CancelOn({x.id[2]}) \in [DeliveryIds -> Delivery]
      BY CancelOnType
  <2> QED
      BY <1>1, <1>11, <2>2, <2>4, <2>5 DEF InvalidateCommit
<1>12. ASSUME NEW i \in DeliveryIds, TimePasses(i)
      PROVE  delivery'[t.id].status = row.status /\ delivery'[t.id].lease = row.lease
    BY <1>1, <1>12 DEF TimePasses, TypeOK, Delivery
<1>13. CASE delivery' = delivery
    BY <1>13
<1> QED
    BY <1>4, <1>5, <1>6, <1>7, <1>8, <1>9, <1>10, <1>11, <1>12, <1>13
    DEF Next, vars, TxnStep, DispatchStep, Authenticate, RegisterRead, RevokeRead, SendRead,
        Abort, ProvisionAdmin, SessionExpires, Redeploy, SweepRead, ClaimFails, WorkerCrash,
        Check, Send, InvalidateRead, ThreadFails

LEMMA LockedRowKeepsLeaseStep ==
    TypeOK /\ LeaseInvariant /\ [Next]_vars => LockedRowKeepsLease'
<1> DEFINE locked == {"deactivating", "cancelling"}
<1> SUFFICES ASSUME TypeOK, LeaseInvariant, [Next]_vars,
                    NEW t \in threads', t.phase \in locked
             PROVE  delivery'[t.id].status = "processing" /\ delivery'[t.id].lease = t.lease
    BY DEF LockedRowKeepsLease, HoldsLease
<1>1. ASSUME NEW x \in threads, x.phase \in locked, ~InvalidateCommit(x), Continues(t, x)
      PROVE  delivery'[t.id].status = "processing" /\ delivery'[t.id].lease = t.lease
    BY <1>1, LockedRowStays DEF Continues, LeaseInvariant, LockedRowKeepsLease, HoldsLease
<1>2. CASE t \in threads
  <2>1. ~InvalidateCommit(t)
      BY DEF InvalidateCommit
  <2> QED
      BY <1>1, <1>2, <2>1 DEF Continues
<1>3. ASSUME NEW w \in Workers, Claim(w)
      PROVE  t \in threads
    BY <1>3, ClaimedThreads
<1>4. ASSUME NEW x \in threads, NEW phase, NEW until, threads' = Advance(x, phase, until)
      PROVE  t \in threads \/ (t.phase = phase /\ Continues(t, x))
    BY <1>4 DEF Advance, Continues, TypeOK, Thread
<1>5. ASSUME NEW x \in threads, Check(x) \/ Send(x)
      PROVE  t \in threads
  <2>1. PICK phase, until : phase \notin locked /\ threads' = Advance(x, phase, until)
    <3>1. CASE Check(x)
      <4>1. PICK phase : phase \notin locked /\ threads' = Advance(x, phase, 0)
          BY <3>1 DEF Check
      <4> QED
          BY <4>1
    <3>2. CASE Send(x)
        BY <3>2 DEF Send
    <3> QED
        BY <1>5, <3>1, <3>2
  <2> QED
      BY <1>4, <2>1
<1>6. ASSUME NEW x \in threads, InvalidateRead(x), t \notin threads
      PROVE  delivery'[t.id].status = "processing" /\ delivery'[t.id].lease = t.lease
  <2>1. PICK phase, until : threads' = Advance(x, phase, until)
      BY <1>6 DEF InvalidateRead
  <2>2. Continues(t, x)
      BY <1>4, <1>6, <2>1
  <2> QED
      BY <1>6, <2>2 DEF InvalidateRead, Continues, HoldsLease
<1>7. ASSUME NEW x \in threads, ThreadFails(x)
      PROVE  delivery'[t.id].status = "processing" /\ delivery'[t.id].lease = t.lease
  <2> DEFINE after(y) == [y EXCEPT !.awaited = @ /\ ~(x.awaited /\ y.worker = x.worker)]
  <2>1. PICK y \in threads : t = after(y)
      BY <1>7 DEF ThreadFails
  <2>2. Continues(t, y) /\ y.phase = t.phase
      BY <2>1 DEF Continues, TypeOK, Thread
  <2>3. delivery' = delivery
      BY <1>7 DEF ThreadFails
  <2> QED
      BY <2>2, <2>3 DEF Continues, LeaseInvariant, LockedRowKeepsLease, HoldsLease
<1>8. CASE threads' \subseteq threads
    BY <1>2, <1>8
<1> QED
    BY <1>2, <1>3, <1>5, <1>6, <1>7, <1>8
    DEF Next, vars, TxnStep, DispatchStep, Authenticate, RegisterRead, RegisterCommit,
        RevokeRead, RevokeCommit, SendRead, SendCommit, Abort, UnregisterDevice,
        ProvisionAdmin, SessionExpires, Redeploy, SweepRead, ClaimFails, WorkerCrash,
        Finish, InvalidateCommit, TimePasses, Purge

LEMMA LeaseStep == TypeOK /\ LeaseInvariant /\ [Next]_vars => LeaseInvariant'
    BY SendsStep, RowsOfPostedStep, LeasesDrawnOnceStep, LockedRowKeepsLeaseStep
    DEF LeaseInvariant

LEMMA LeaseInvariantHolds == Spec => []LeaseInvariant
    BY OutboxTypeCorrect, LeaseInit, LeaseStep, PTL DEF Spec

\* However many workers claim and however often leases run out, at most one
\* thread holds the lease of a delivery (claim_push_deliveries draws a new one
\* with each claim, and the row counts the draws).
THEOREM OneLeaseHolder == Spec => []LeaseIsExclusive
<1>1. LeaseInvariant => LeaseIsExclusive
    BY DEF LeaseInvariant, LeasesDrawnOnce, LeaseIsExclusive, HoldsLease
<1> QED
    BY <1>1, LeaseInvariantHolds, PTL

-----------------------------------------------------------------------------
(* Action properties of the delivery rows.                                 *)

\* The status a row step can give a row.
LEMMA StatusSteps ==
    ASSUME TypeOK, LeaseInvariant, NEW id \in DeliveryIds, RowStep(id)
    PROVE  \/ delivery'[id].status \in {delivery[id].status, "gone"}
           \/ /\ delivery[id].status \in Cancelable
              /\ delivery'[id].status \in {"processing", "cancelled", "failed"}
           \/ \E t \in threads :
                 /\ t.id = id /\ Finish(t) /\ HoldsLease(t)
                 /\ \/ delivery'[id].status = "failed"
                    \/ delivery'[id].status = "sent" /\ t.phase = "sent"
                    \/ delivery'[id].status = "pending" /\ t.phase = "retry"
<1> DEFINE row == delivery[id]
<1>0. row \in Delivery
    BY DEF TypeOK
<1>1. /\ Cancelled(row).status \in {row.status, "cancelled"}
      /\ Cancelled(row).status # row.status => row.status \in Cancelable
    BY <1>0 DEF Cancelled, Delivery
<1>2. Deleted(row).status \in {row.status, "gone"}
    BY <1>0 DEF Deleted, Delivery
<1>3. /\ Failed(row).status = "failed" /\ Ripened(row).status = row.status
      /\ Leased(row).status = "processing"
    BY <1>0 DEF Failed, Ripened, Leased, Delivery
<1>4. \A phase :
                \/ Settled(row, phase).status = "failed"
                \/ Settled(row, phase).status = "sent" /\ phase = "sent"
                \/ Settled(row, phase).status = "pending" /\ phase = "retry"
    BY <1>0 DEF Settled, Failed, Delivery
<1>5. ASSUME NEW t \in threads, t.id = id, InvalidateCommit(t)
      PROVE  row.status \in Cancelable
    BY <1>5 DEF InvalidateCommit, LeaseInvariant, LockedRowKeepsLease, HoldsLease, Cancelable
<1>6. ASSUME delivery'[id] \in {row, Cancelled(row), Deleted(row)}
      PROVE  \/ delivery'[id].status \in {row.status, "gone"}
             \/ row.status \in Cancelable /\ delivery'[id].status = "cancelled"
    BY <1>1, <1>2, <1>6
<1>7. ASSUME NEW t \in threads, t.id = id, Finish(t), HoldsLease(t),
             delivery'[id] = Settled(row, t.phase)
      PROVE  \E x \in threads :
                 /\ x.id = id /\ Finish(x) /\ HoldsLease(x)
                 /\ \/ delivery'[id].status = "failed"
                    \/ delivery'[id].status = "sent" /\ x.phase = "sent"
                    \/ delivery'[id].status = "pending" /\ x.phase = "retry"
    BY <1>4, <1>7
<1> QED
    BY <1>3, <1>5, <1>6, <1>7 DEF RowStep

LEMMA InsertSteps ==
    ASSUME TypeOK, LeaseInvariant, NEW s \in Slots, SendCommit(s), NEW id \in DeliveryIds
    PROVE  delivery'[id] = delivery[id] \/ delivery[id].status = "none"
    BY InsertedRows DEF LeaseInvariant, SendsOnce, RowsOfPosted

\* What is sent, failed or cancelled stays so: the answer to an attempt that lost
\* its lease, a sweep, a rebinding or a second claim leaves the row alone.
THEOREM TerminalStaysTerminal == Spec => TerminalIsFinal
<1>1. ASSUME TypeOK, LeaseInvariant, [Next]_vars, NEW id \in DeliveryIds,
             delivery[id].status \in Terminal
      PROVE  delivery'[id].status \in {delivery[id].status, "gone"}
  <2>1. delivery[id].status \notin Cancelable \cup {"none"}
      BY <1>1 DEF Terminal, Cancelable
  <2>2. ASSUME NEW s \in Slots, SendCommit(s)
        PROVE  delivery'[id] = delivery[id]
      BY <1>1, <2>1, <2>2, InsertSteps
  <2>3. ASSUME \A s \in Slots : ~SendCommit(s)
        PROVE  delivery'[id].status \in {delivery[id].status, "gone"}
    <3>1. RowStep(id)
        BY <1>1, <2>3, RowSteps
    <3>2. \A t \in threads : t.id = id => ~HoldsLease(t)
        BY <1>1 DEF HoldsLease, Terminal
    <3> QED
        BY <1>1, <2>1, <3>1, <3>2, StatusSteps
  <2> QED
      BY <2>2, <2>3
<1>2. TypeOK /\ LeaseInvariant /\ [Next]_vars =>
          [\A id \in DeliveryIds :
              delivery[id].status \in Terminal =>
                  delivery'[id].status \in {delivery[id].status, "gone"}]_vars
    BY <1>1
<1> QED
    BY <1>2, OutboxTypeCorrect, LeaseInvariantHolds, PTL DEF Spec, TerminalIsFinal

\* A row leaves "processing" for "sent" or "pending" only by the answer to the
\* attempt holding its lease: _finish_delivery's check of status and lease id.
THEOREM OnlyLeaseHolderSettles == Spec => SettledByLeaseHolder
<1> DEFINE settled(id) ==
        /\ delivery[id].status = "processing"
        /\ delivery'[id].status \in {"sent", "pending"}
        => \E t \in threads \ threads' :
              /\ t.id = id /\ t.lease = delivery[id].lease
              /\ t.phase = IF delivery'[id].status = "sent" THEN "sent" ELSE "retry"
<1>1. ASSUME TypeOK, LeaseInvariant, [Next]_vars, NEW id \in DeliveryIds,
             delivery[id].status = "processing",
             delivery'[id].status \in {"sent", "pending"}
      PROVE  settled(id)
  <2>1. \A s \in Slots : ~SendCommit(s)
      BY <1>1, InsertSteps
  <2>2. RowStep(id)
      BY <1>1, <2>1, RowSteps
  <2>3. PICK t \in threads :
            /\ t.id = id /\ Finish(t) /\ HoldsLease(t)
            /\ \/ delivery'[id].status = "sent" /\ t.phase = "sent"
               \/ delivery'[id].status = "pending" /\ t.phase = "retry"
      BY <1>1, <2>2, StatusSteps
  <2>4. t \notin threads'
      BY <2>3 DEF Finish
  <2> QED
      BY <2>3, <2>4 DEF HoldsLease
<1>2. TypeOK /\ LeaseInvariant /\ [Next]_vars => [\A id \in DeliveryIds : settled(id)]_vars
    BY <1>1
<1> QED
    BY <1>2, OutboxTypeCorrect, LeaseInvariantHolds, PTL DEF Spec, SettledByLeaseHolder

-----------------------------------------------------------------------------
(* Attempts bound pushes.  A claim counts an attempt for the thread that it *)
(* starts; the thread gives it up, or spends it on one push.                *)

PushesCounted ==
    \A id \in DeliveryIds :
        /\ IsFiniteSet(MayPush(id))
        /\ pushes[id] + Cardinality(MayPush(id)) <= delivery[id].attempts
        /\ delivery[id].attempts <= MaxAttempts
        /\ id[1] \notin posted => pushes[id] = 0

LEMMA PushesInit == Init => PushesCounted
  BY OutboxAssumptions, FS_EmptySet DEF Init, PushesCounted, MayPush

\* A set of threads that lost some and kept the others, changed, has no more.
LEMMA NoMoreThreads ==
    ASSUME NEW S, IsFiniteSet(S), NEW T, NEW f \in [S -> T], \A x \in T : \E y \in S : x = f[y]
    PROVE  IsFiniteSet(T) /\ Cardinality(T) <= Cardinality(S)
<1>1. f \in Surjection(S, T)
    BY Fun_IsSurj
<1> QED
    BY <1>1, FS_Surjection

LEMMA FewerThreads ==
    ASSUME NEW S, IsFiniteSet(S), NEW T, T \subseteq S
    PROVE  /\ IsFiniteSet(T) /\ Cardinality(T) \in Nat /\ Cardinality(S) \in Nat
           /\ Cardinality(T) <= Cardinality(S)
           /\ \A t \in S \ T : Cardinality(T) + 1 <= Cardinality(S)
<1>1. /\ IsFiniteSet(T) /\ Cardinality(T) <= Cardinality(S)
      /\ Cardinality(T) \in Nat /\ Cardinality(S) \in Nat
    BY FS_Subset, FS_CardinalityType
<1>2. Cardinality(S) # Cardinality(T) \/ S = T
    BY FS_Subset
<1> QED
    BY <1>1, <1>2

\* Besides a claim, a step takes the push it makes from those still to be made.
LEMMA MayPushStep ==
    ASSUME TypeOK, [Next]_vars, \A w \in Workers : ~Claim(w), NEW id \in DeliveryIds,
           IsFiniteSet(MayPush(id))
    PROVE  /\ IsFiniteSet(MayPush(id)')
           /\ pushes'[id] + Cardinality(MayPush(id)') <= pushes[id] + Cardinality(MayPush(id))
<1>0. pushes[id] \in Nat /\ \A t \in threads : t.id \in DeliveryIds
    BY DEF TypeOK, Thread
<1>1. ASSUME MayPush(id)' \subseteq MayPush(id), pushes'[id] = pushes[id]
      PROVE  /\ IsFiniteSet(MayPush(id)')
             /\ pushes'[id] + Cardinality(MayPush(id)') <= pushes[id] + Cardinality(MayPush(id))
    BY <1>0, <1>1, FewerThreads
<1>2. CASE threads' \subseteq threads /\ pushes' = pushes
    BY <1>1, <1>2 DEF MayPush
<1>3. ASSUME NEW t \in threads, Check(t)
      PROVE  /\ IsFiniteSet(MayPush(id)')
             /\ pushes'[id] + Cardinality(MayPush(id)') <= pushes[id] + Cardinality(MayPush(id))
  <2>1. PICK phase : threads' = Advance(t, phase, 0)
      BY <1>3 DEF Check
  <2> DEFINE u == [t EXCEPT !.phase = phase, !.until = 0]
  <2>2. threads' = (threads \ {t}) \cup {u} /\ u.id = t.id /\ pushes' = pushes
      BY <1>3, <2>1 DEF Advance, Check, TypeOK, Thread
  <2> HIDE DEF u
  <2>3. CASE id # t.id
    <3>1. MayPush(id)' \subseteq MayPush(id)
        BY <2>2, <2>3 DEF MayPush
    <3> QED
        BY <1>1, <2>2, <3>1
  <2>4. CASE id = t.id
    <3>1. t \in MayPush(id)
        BY <1>3, <2>4 DEF Check, MayPush
    <3> DEFINE rest == MayPush(id) \ {t}
    <3>2. IsFiniteSet(rest) /\ Cardinality(rest) = Cardinality(MayPush(id)) - 1
        BY <3>1, FS_RemoveElement
    <3>3. IsFiniteSet(rest \cup {u}) /\ Cardinality(rest \cup {u}) <= Cardinality(rest) + 1
      <4>1. Cardinality(rest) \in Nat
          BY <3>2, FS_CardinalityType
      <4>2. /\ IsFiniteSet(rest \cup {u})
            /\ Cardinality(rest \cup {u}) = IF u \in rest THEN Cardinality(rest)
                                                        ELSE Cardinality(rest) + 1
          BY <3>2, FS_AddElement, Zenon
      <4> QED
          BY <4>1, <4>2
    <3>4. MayPush(id)' \subseteq rest \cup {u}
        BY <2>2 DEF MayPush
    <3> HIDE DEF rest
    <3>5. /\ IsFiniteSet(MayPush(id)') /\ Cardinality(MayPush(id)') \in Nat
          /\ Cardinality(MayPush(id)') <= Cardinality(rest \cup {u})
          /\ Cardinality(rest \cup {u}) \in Nat /\ Cardinality(rest) \in Nat
          /\ Cardinality(MayPush(id)) \in Nat
        BY <3>2, <3>3, <3>4, FS_Subset, FS_CardinalityType
    <3> QED
        BY <1>0, <2>2, <3>2, <3>3, <3>5
  <2> QED
      BY <2>3, <2>4
<1>4. ASSUME NEW t \in threads, InvalidateRead(t)
      PROVE  MayPush(id)' \subseteq MayPush(id) /\ pushes' = pushes
    BY <1>4 DEF InvalidateRead, Advance, MayPush, TypeOK, Thread
<1>5. ASSUME NEW t \in threads, Send(t)
      PROVE  /\ IsFiniteSet(MayPush(id)')
             /\ pushes'[id] + Cardinality(MayPush(id)') <= pushes[id] + Cardinality(MayPush(id))
  <2>0. PICK phase \in {"sent", "retry", "failed", "invalid"} :
            \E until : threads' = Advance(t, phase, until)
      BY <1>5 DEF Send
  <2>1. PICK until : threads' = Advance(t, phase, until)
      BY <2>0
  <2>2. MayPush(id)' \subseteq MayPush(id) \ {t}
      BY <2>0, <2>1 DEF Advance, MayPush, TypeOK, Thread
  <2>3. CASE id # t.id
    <3>1. pushes'[id] = pushes[id]
        BY <1>5, <2>3 DEF Send, TypeOK
    <3> QED
        BY <1>1, <2>2, <3>1
  <2>4. CASE id = t.id
    <3>1. pushes'[id] = pushes[id] + 1
        BY <1>5, <2>4 DEF Send, TypeOK
    <3>2. t \in MayPush(id)
        BY <1>5, <2>4 DEF Send, MayPush
    <3> QED
        BY <1>0, <2>2, <3>1, <3>2, FewerThreads
  <2> QED
      BY <2>3, <2>4
<1>6. ASSUME NEW t \in threads, ThreadFails(t)
      PROVE  /\ IsFiniteSet(MayPush(id)')
             /\ pushes'[id] + Cardinality(MayPush(id)') <= pushes[id] + Cardinality(MayPush(id))
  <2> DEFINE after(x) == [x EXCEPT !.awaited = @ /\ ~(t.awaited /\ x.worker = t.worker)]
             kept == MayPush(id) \ {t}
             f == [x \in kept |-> after(x)]
  <2>1. \A x \in threads : after(x).id = x.id /\ after(x).phase = x.phase
      BY DEF TypeOK, Thread
  <2>2. threads' = {after(x) : x \in threads \ {t}} /\ pushes' = pushes
      BY <1>6 DEF ThreadFails
  <2> HIDE DEF after
  <2>3. f \in [kept -> MayPush(id)'] /\ \A x \in MayPush(id)' : \E y \in kept : x = f[y]
      BY <2>1, <2>2 DEF MayPush
  <2>4. IsFiniteSet(kept) /\ Cardinality(kept) <= Cardinality(MayPush(id))
      BY FS_Subset
  <2> HIDE DEF f, kept
  <2>5. IsFiniteSet(MayPush(id)') /\ Cardinality(MayPush(id)') <= Cardinality(kept)
      BY <2>3, <2>4, NoMoreThreads
  <2>6. /\ Cardinality(MayPush(id)') \in Nat /\ Cardinality(kept) \in Nat
        /\ Cardinality(MayPush(id)) \in Nat
      BY <2>4, <2>5, FS_CardinalityType
  <2> QED
      BY <1>0, <2>2, <2>4, <2>5, <2>6
<1> QED
    BY <1>1, <1>2, <1>3, <1>4, <1>5, <1>6
    DEF Next, vars, TxnStep, DispatchStep, Authenticate, RegisterRead, RegisterCommit,
        RevokeRead, RevokeCommit, SendRead, SendCommit, Abort, UnregisterDevice,
        ProvisionAdmin, SessionExpires, Redeploy, SweepRead, ClaimFails, WorkerCrash,
        Finish, InvalidateCommit, TimePasses, Purge

\* A claim draws attempts that are left, one for each thread that it starts.
LEMMA ClaimCounts ==
    ASSUME TypeOK, PushesCounted, NEW w \in Workers, Claim(w), NEW id \in DeliveryIds
    PROVE  /\ IsFiniteSet(MayPush(id)')
           /\ pushes'[id] + Cardinality(MayPush(id)') <= delivery'[id].attempts
           /\ delivery'[id].attempts <= MaxAttempts
<1> DEFINE ids == sweep[w].ids
           thread(i) == [worker |-> w, awaited |-> TRUE, id |-> i,
                         lease |-> delivery[i].attempts + 1,
                         user |-> delivery[i].recipient, token |-> device[i[2]].token,
                         phase |-> "claimed", until |-> 0]
<1>1. PICK batch \in SUBSET Eligible(ids) :
          /\ delivery' = [i \in DeliveryIds |->
                IF i \in batch THEN Leased(delivery[i]) ELSE Swept(i, ids)]
          /\ threads' = threads \cup {thread(i) : i \in batch}
    BY DEF Claim
<1>2. \A i : thread(i).id = i
    OBVIOUS
<1> HIDE DEF thread
<1>3. pushes' = pushes
    BY DEF Claim
<1>4. /\ delivery[id] \in Delivery /\ delivery[id].attempts \in Nat /\ pushes[id] \in Nat
      /\ MaxAttempts \in Nat
    BY OutboxAssumptions DEF TypeOK, Delivery
<1>5. /\ IsFiniteSet(MayPush(id)) /\ Cardinality(MayPush(id)) \in Nat
      /\ pushes[id] + Cardinality(MayPush(id)) <= delivery[id].attempts
      /\ delivery[id].attempts <= MaxAttempts
    BY FS_CardinalityType DEF PushesCounted
<1>6. CASE id \in batch
  <2>1. delivery'[id].attempts = delivery[id].attempts + 1
      BY <1>1, <1>4, <1>6, DeliveryUpdates
  <2>2. delivery[id].attempts < MaxAttempts
    <3>1. ~OutOfAttempts(Swept(id, ids))
        BY <1>6 DEF Eligible
    <3> QED
        BY <1>4, <3>1, SweptType DEF OutOfAttempts
  <2>3. MayPush(id)' \subseteq MayPush(id) \cup {thread(id)}
      BY <1>1, <1>2 DEF MayPush
  <2>4. IsFiniteSet(MayPush(id) \cup {thread(id)})
        /\ Cardinality(MayPush(id) \cup {thread(id)}) \in
               {Cardinality(MayPush(id)), Cardinality(MayPush(id)) + 1}
    <3>1. /\ IsFiniteSet(MayPush(id) \cup {thread(id)})
          /\ Cardinality(MayPush(id) \cup {thread(id)}) =
               IF thread(id) \in MayPush(id) THEN Cardinality(MayPush(id))
                                             ELSE Cardinality(MayPush(id)) + 1
        BY <1>5, FS_AddElement, Zenon
    <3> QED
        BY <3>1
  <2>5. /\ IsFiniteSet(MayPush(id)') /\ Cardinality(MayPush(id)') \in Nat
        /\ Cardinality(MayPush(id)') <= Cardinality(MayPush(id)) + 1
      BY <1>5, <2>3, <2>4, FewerThreads
  <2> QED
      BY <1>3, <1>4, <1>5, <2>1, <2>2, <2>5
<1>7. CASE id \notin batch
  <2>1. delivery'[id].attempts = delivery[id].attempts
      BY <1>1, <1>7, SweptType
  <2>2. MayPush(id)' \subseteq MayPush(id)
      BY <1>1, <1>2, <1>7 DEF MayPush
  <2> QED
      BY <1>3, <1>4, <1>5, <2>1, <2>2, FewerThreads
<1> QED
    BY <1>6, <1>7

\* Updates of rows besides claim and insert leave the counter.
LEMMA AttemptsStay ==
    ASSUME TypeOK, [Next]_vars, \A s \in Slots : ~SendCommit(s), \A w \in Workers : ~Claim(w),
           NEW id \in DeliveryIds
    PROVE  delivery'[id].attempts = delivery[id].attempts
<1>1. delivery[id] \in Delivery
    BY DEF TypeOK
<1>2. Ripened(delivery[id]).attempts = delivery[id].attempts
    BY <1>1 DEF Delivery, Ripened
<1>3. RowStep(id)
    BY RowSteps
<1> QED
    BY <1>1, <1>2, <1>3, DeliveryUpdates DEF RowStep

LEMMA PushesStep == TypeOK /\ LeaseInvariant /\ PushesCounted /\ [Next]_vars => PushesCounted'
<1> SUFFICES ASSUME TypeOK, LeaseInvariant, PushesCounted, [Next]_vars,
                    NEW id \in DeliveryIds
             PROVE  /\ IsFiniteSet(MayPush(id)')
                    /\ pushes'[id] + Cardinality(MayPush(id)') <= delivery'[id].attempts
                    /\ delivery'[id].attempts <= MaxAttempts
                    /\ id[1] \notin posted' => pushes'[id] = 0
    BY DEF PushesCounted
<1>0. /\ pushes[id] \in Nat /\ delivery[id].attempts \in Nat /\ pushes'[id] \in Nat
      /\ IsFiniteSet(MayPush(id)) /\ Cardinality(MayPush(id)) \in Nat
      /\ pushes[id] + Cardinality(MayPush(id)) <= delivery[id].attempts
      /\ delivery[id].attempts <= MaxAttempts /\ MaxAttempts \in Nat
    BY OutboxAssumptions, NextType, FS_CardinalityType DEF PushesCounted, TypeOK, Delivery
<1>1. id[1] \notin posted' => pushes'[id] = 0
  <2>1. posted \subseteq posted'
      BY DEF Next, vars, TxnStep, DispatchStep, Authenticate, RegisterRead, RegisterCommit,
        RevokeRead, RevokeCommit, SendRead, SendCommit, Abort, UnregisterDevice,
        ProvisionAdmin, SessionExpires, Redeploy, SweepRead, Claim, ClaimFails, WorkerCrash,
        Check, Send, Finish, InvalidateRead, InvalidateCommit, ThreadFails, TimePasses, Purge
  <2>2. pushes'[id] = pushes[id] \/ \E t \in threads : t.id = id
      BY DEF Next, vars, TxnStep, DispatchStep, Authenticate, RegisterRead, RegisterCommit,
        RevokeRead, RevokeCommit, SendRead, SendCommit, Abort, UnregisterDevice,
        ProvisionAdmin, SessionExpires, Redeploy, SweepRead, Claim, ClaimFails, WorkerCrash,
        Check, Send, Finish, InvalidateRead, InvalidateCommit, ThreadFails, TimePasses, Purge,
        TypeOK
  <2> QED
      BY <2>1, <2>2 DEF PushesCounted, LeaseInvariant, RowsOfPosted
<1>2. ASSUME NEW w \in Workers, Claim(w)
      PROVE  /\ IsFiniteSet(MayPush(id)')
             /\ pushes'[id] + Cardinality(MayPush(id)') <= delivery'[id].attempts
             /\ delivery'[id].attempts <= MaxAttempts
    BY <1>2, ClaimCounts
<1>3. ASSUME NEW s \in Slots, SendCommit(s), delivery'[id] # delivery[id]
      PROVE  /\ IsFiniteSet(MayPush(id)')
             /\ pushes'[id] + Cardinality(MayPush(id)') <= delivery'[id].attempts
             /\ delivery'[id].attempts <= MaxAttempts
  <2>1. id[1] \notin posted /\ delivery'[id].attempts = 0
    <3>1. id[1] = txn[s].message /\ txn[s].kind = "send"
        BY <1>3, InsertedRows
    <3>2. delivery'[id].attempts = 0
        BY <1>3 DEF SendCommit
    <3> QED
        BY <3>1, <3>2 DEF LeaseInvariant, SendsOnce
  <2>2. threads' = threads /\ pushes' = pushes
      BY <1>3 DEF SendCommit
  <2>3. MayPush(id)' = {} /\ pushes'[id] = 0
      BY <2>1, <2>2 DEF MayPush, LeaseInvariant, RowsOfPosted, PushesCounted
  <2> QED
      BY <1>0, <2>1, <2>3, FS_EmptySet
<1>4. ASSUME \A w \in Workers : ~Claim(w), delivery'[id].attempts = delivery[id].attempts
      PROVE  /\ IsFiniteSet(MayPush(id)')
             /\ pushes'[id] + Cardinality(MayPush(id)') <= delivery'[id].attempts
             /\ delivery'[id].attempts <= MaxAttempts
  <2>1. /\ IsFiniteSet(MayPush(id)')
        /\ pushes'[id] + Cardinality(MayPush(id)') <= pushes[id] + Cardinality(MayPush(id))
      BY <1>0, <1>4, MayPushStep
  <2>2. Cardinality(MayPush(id)') \in Nat
      BY <2>1, FS_CardinalityType
  <2> QED
      BY <1>0, <1>4, <2>1, <2>2
<1>5. ASSUME \A w \in Workers : ~Claim(w), \A s \in Slots : ~SendCommit(s)
      PROVE  delivery'[id].attempts = delivery[id].attempts
    BY <1>5, AttemptsStay
<1> QED
    BY <1>1, <1>2, <1>3, <1>4, <1>5

\* However workers crash, leases run out under slow threads, and answers are
\* lost: no delivery is pushed more often than its row counts attempts, and no
\* row counts more than push_delivery_max_attempts (push.py:778, :801).
THEOREM PushesStayWithinAttempts == Spec => []PushesWithinAttempts
<1>1. PushesCounted => PushesWithinAttempts
    BY DEF PushesCounted, PushesWithinAttempts
<1> QED
    BY <1>1, OutboxTypeCorrect, LeaseInvariantHolds, PushesInit, PushesStep, PTL DEF Spec

-----------------------------------------------------------------------------
(* Device rows.  A registration that commits binds one row and deletes the  *)
(* row it displaces; every other step leaves a row, or deactivates it.      *)

RegistersOn(s, d) ==
    /\ RegisterCommit(s) /\ txn[s].kind = "register" /\ d \in Targets(txn[s])
    /\ ~UniqueConflict(txn[s], d, Displaced(txn[s]))
    /\ device' = Registered(txn[s], d)

LEMMA DeviceSteps ==
    ASSUME TypeOK, [Next]_vars
    PROVE  \/ \A e \in Devices : device'[e] \in {device[e], Deactivated(device[e])}
           \/ \E s \in Slots : \E d : RegistersOn(s, d)
<1>1. CASE device' = device
    BY <1>1
<1>2. ASSUME NEW ds, device' = DeactivateAll(ds)
      PROVE  \A e \in Devices : device'[e] \in {device[e], Deactivated(device[e])}
    BY <1>2 DEF DeactivateAll
<1>3. ASSUME NEW s \in Slots, RegisterCommit(s), device' # device
      PROVE  \E d : RegistersOn(s, d)
    BY <1>3 DEF RegisterCommit, RegistersOn
<1> QED
    BY <1>1, <1>2, <1>3
    DEF Next, vars, TxnStep, DispatchStep, Authenticate, RegisterRead, RevokeRead,
        RevokeCommit, SendRead, SendCommit, Abort, UnregisterDevice, ProvisionAdmin,
        SessionExpires, Redeploy, SweepRead, Claim, ClaimFails, WorkerCrash, Check, Send,
        Finish, InvalidateRead, InvalidateCommit, ThreadFails, TimePasses, Purge

\* The open registration, and what its commit leaves of every row.
LEMMA OpenRegistration ==
    ASSUME TypeOK, NEW s \in Slots, txn[s].kind = "register"
    PROVE  txn[s] \in [kind: {"register"}, session: Sessions, installation: Installations,
                       token: Tokens, now: Nat, stale: SUBSET Devices,
                       installed: SUBSET Devices, bearer: SUBSET Devices]
    BY DEF TypeOK, Txn, NoTxn

LEMMA RegisteredRows ==
    ASSUME TypeOK, NEW s \in Slots, NEW d, RegistersOn(s, d)
    PROVE  /\ d \in Devices
           /\ d \in Selected(s) \/ device[d].state = "none"
           /\ device'[d] = Binding(txn[s])
           /\ \A e \in Devices \ {d} :
                 \/ e \in Displaced(txn[s]) /\ ~Present(e)'
                 \/ device'[e] \in {device[e], Deactivated(device[e])}
           /\ \A e \in Displaced(txn[s]) \ {d} : ~Present(e)'
           /\ Displaced(txn[s]) \subseteq Selected(s)
           /\ d \notin Displaced(txn[s])
<1>1. txn[s].installed \subseteq Devices /\ txn[s].bearer \subseteq Devices
    BY OpenRegistration DEF RegistersOn
<1>2. d \in Devices /\ (d \in Selected(s) \/ device[d].state = "none")
    BY <1>1 DEF RegistersOn, Targets, Selected
<1>3. Displaced(txn[s]) \subseteq Selected(s) /\ d \notin Displaced(txn[s])
    BY <1>1 DEF RegistersOn, Targets, Displaced, Selected
<1>4. device'[d] = Binding(txn[s])
    BY <1>2 DEF RegistersOn, Registered
<1>5. ASSUME NEW e \in Devices \ {d}
      PROVE  IF e \in Displaced(txn[s]) THEN ~Present(e)'
             ELSE device'[e] \in {device[e], Deactivated(device[e])}
  <2>1. [device[e] EXCEPT !.state = "deleted"].state = "deleted"
      BY DEF TypeOK, Device
  <2> QED
      BY <2>1 DEF RegistersOn, Registered, Present
<1>6. Displaced(txn[s]) \subseteq Devices
    BY <1>1 DEF Displaced
<1> QED
    BY <1>2, <1>3, <1>4, <1>5, <1>6

\* A deactivated row is the row of the same token, user and installation.
LEMMA DeactivatedRow ==
    ASSUME TypeOK, NEW e \in Devices, device'[e] \in {device[e], Deactivated(device[e])}
    PROVE  /\ device'[e].user = device[e].user /\ device'[e].session = device[e].session
           /\ device'[e].installation = device[e].installation
           /\ device'[e].token = device[e].token /\ device'[e].config = device[e].config
           /\ Present(e)' <=> Present(e)
           /\ device'[e].state = "active" => device[e].state = "active"
    BY DEF TypeOK, Device, Deactivated, Present

\* At most one row of a configuration answers for a token, and for an installation.
OneRowPerIdentity ==
    \A d, e \in Devices :
        /\ Present(d) /\ Present(e) /\ device[d].config = device[e].config
        /\ device[d].token = device[e].token \/ device[d].installation = device[e].installation
        => d = e

LEMMA IdentityStep == TypeOK /\ OneRowPerIdentity /\ [Next]_vars => OneRowPerIdentity'
<1> SUFFICES ASSUME TypeOK, OneRowPerIdentity, [Next]_vars PROVE OneRowPerIdentity'
    OBVIOUS
<1>1. CASE \A e \in Devices : device'[e] \in {device[e], Deactivated(device[e])}
    BY <1>1, DeactivatedRow DEF OneRowPerIdentity
<1>2. ASSUME NEW s \in Slots, NEW d, RegistersOn(s, d)
      PROVE  OneRowPerIdentity'
  <2>1. /\ device'[d].token = txn[s].token /\ device'[d].installation = txn[s].installation
        /\ device'[d].config = config
    <3>1. device'[d] = Binding(txn[s])
        BY <1>2, RegisteredRows
    <3> QED
        BY <3>1 DEF Binding
  <2>2. ASSUME NEW e \in Devices \ {d}, Present(e)'
        PROVE  /\ e \notin Displaced(txn[s]) /\ Present(e)
               /\ device'[e].installation = device[e].installation
               /\ device'[e].token = device[e].token /\ device'[e].config = device[e].config
      BY <1>2, <2>2, RegisteredRows, DeactivatedRow
  <2>3. ASSUME NEW e \in Devices \ {d}, Present(e)', device'[e].config = config
        PROVE  device'[e].token # txn[s].token /\ device'[e].installation # txn[s].installation
      BY <1>2, <2>2, <2>3 DEF RegistersOn, UniqueConflict
  <2> QED
      BY <2>1, <2>2, <2>3 DEF OneRowPerIdentity
<1> QED
    BY <1>1, <1>2, DeviceSteps

\* While threads run their claims' configuration is the running one.
ThreadsOfThisConfig == \A t \in threads : device[t.id[2]].config = config

LEMMA ClaimedConfig ==
    ASSUME TypeOK, NEW w \in Workers, Claim(w), NEW t \in threads' \ threads
    PROVE  device[t.id[2]].config = config
<1> DEFINE thread(id) == [worker |-> w, awaited |-> TRUE, id |-> id,
                          lease |-> delivery[id].attempts + 1,
                          user |-> delivery[id].recipient, token |-> device[id[2]].token,
                          phase |-> "claimed", until |-> 0]
<1>1. PICK id \in Eligible(sweep[w].ids) : t = thread(id)
    BY DEF Claim
<1>2. thread(id).id = id
    OBVIOUS
<1> QED
    BY <1>1, <1>2 DEF Eligible, Routable

LEMMA ConfigStep ==
    TypeOK /\ ThreadsOfThisConfig /\ [Next]_vars => ThreadsOfThisConfig'
<1> SUFFICES ASSUME TypeOK, ThreadsOfThisConfig, [Next]_vars, NEW t \in threads'
             PROVE  device'[t.id[2]].config = config'
    BY DEF ThreadsOfThisConfig
<1>1. ~Redeploy /\ config' = config
    BY DEF Next, vars, TxnStep, DispatchStep, Authenticate, RegisterRead, RegisterCommit,
        RevokeRead, RevokeCommit, SendRead, SendCommit, Abort, UnregisterDevice,
        ProvisionAdmin, SessionExpires, Redeploy, SweepRead, Claim, ClaimFails, WorkerCrash,
        Check, Send, Finish, InvalidateRead, InvalidateCommit, ThreadFails, TimePasses, Purge
<1>2. t.id[2] \in Devices /\ device[t.id[2]].config = config
  <2>1. t.id \in DeliveryIds
      BY NextType DEF TypeOK, Thread
  <2>2. ASSUME NEW w \in Workers, Claim(w)
        PROVE  device[t.id[2]].config = config
      BY <2>2, ClaimedConfig DEF ThreadsOfThisConfig
  <2>3. ASSUME \A w \in Workers : ~Claim(w)
        PROVE  device[t.id[2]].config = config
      BY <2>3, ThreadsContinue DEF ThreadsOfThisConfig, Continues
  <2> QED
      BY <2>1, <2>2, <2>3 DEF DeliveryIds
<1>3. ASSUME NEW e \in Devices, device[e].config = config
      PROVE  device'[e].config = config
  <2>1. CASE device'[e] \in {device[e], Deactivated(device[e])}
      BY <1>3, <2>1, DeactivatedRow
  <2>2. ASSUME NEW s \in Slots, NEW d, RegistersOn(s, d)
        PROVE  device'[e].config = config
      BY <1>3, <2>2 DEF RegistersOn, Registered, Binding, Deactivated, TypeOK, Device
  <2> QED
      BY <2>1, <2>2, DeviceSteps
<1> QED
    BY <1>1, <1>2, <1>3

BindingInvariant == OneRowPerIdentity /\ ThreadsOfThisConfig

LEMMA BindingInit == Init => BindingInvariant
    BY DEF Init, BindingInvariant, OneRowPerIdentity, ThreadsOfThisConfig, Present

LEMMA BindingInvariantHolds == Spec => []BindingInvariant
<1>1. TypeOK /\ BindingInvariant /\ [Next]_vars => BindingInvariant'
    BY IdentityStep, ConfigStep DEF BindingInvariant
<1> QED
    BY <1>1, OutboxTypeCorrect, BindingInit, PTL DEF Spec

\* When a claim passes its check no live binding of another account holds the
\* token, wherever registrations moved it since the claim (push.py:926): one row
\* of the running configuration answers for it, and it is the claim's.
THEOREM CheckedTokensAreTheRecipients == Spec => CheckedTokenIsTheRecipients
<1> DEFINE own(t) ==
        t.phase = "claimed" /\ [t EXCEPT !.phase = "checked"] \in threads' =>
            \A d \in Devices : Routable(d) /\ device[d].token = t.token
                                  => device[d].user = t.user
<1>1. ASSUME TypeOK, LeaseInvariant, BindingInvariant, [Next]_vars, NEW t \in threads,
             t.phase = "claimed", [t EXCEPT !.phase = "checked"] \in threads'
      PROVE  Check(t) /\ ClaimIsCurrent(t)
  <2> DEFINE u == [t EXCEPT !.phase = "checked"]
  <2>1. u.phase = "checked" /\ u.id = t.id /\ u.lease = t.lease
      BY <1>1 DEF TypeOK, Thread
  <2>2. ASSUME NEW x \in threads, x.id = t.id, x.lease = t.lease
        PROVE  x = t
      BY <1>1, <2>2 DEF LeaseInvariant, LeasesDrawnOnce
  <2>3. u \notin threads
      BY <1>1, <2>1, <2>2
  <2> HIDE DEF u
  <2>4. \A w \in Workers : ~Claim(w)
      BY <1>1, <2>1, <2>3, ClaimedThreads DEF u
  <2>5. ASSUME NEW x \in threads, NEW phase, NEW until, threads' = Advance(x, phase, until)
        PROVE  phase = "checked" /\ x = t
    <3>1. u = [x EXCEPT !.phase = phase, !.until = until]
        BY <1>1, <2>3, <2>5 DEF Advance, u
    <3>2. u.id = x.id /\ u.lease = x.lease /\ u.phase = phase
        BY <1>1, <3>1 DEF TypeOK, Thread
    <3> QED
        BY <2>1, <2>2, <3>2
  <2>6. ASSUME NEW x \in threads, ThreadFails(x)
        PROVE  FALSE
    <3> DEFINE after(y) == [y EXCEPT !.awaited = @ /\ ~(x.awaited /\ y.worker = x.worker)]
    <3>1. PICK y \in threads : u = after(y)
        BY <1>1, <2>6 DEF ThreadFails, u
    <3>2. u.id = y.id /\ u.lease = y.lease /\ u.phase = y.phase
        BY <1>1, <3>1 DEF TypeOK, Thread
    <3> QED
        BY <1>1, <2>1, <2>2, <3>2
  <2>7. ~(threads' \subseteq threads)
      BY <1>1, <2>3 DEF u
  <2>8. ASSUME NEW x \in threads, Send(x) \/ InvalidateRead(x)
        PROVE  FALSE
      BY <2>5, <2>8 DEF Send, InvalidateRead
  <2>9. PICK x \in threads : Check(x)
      BY <1>1, <2>4, <2>6, <2>7, <2>8
      DEF Next, vars, TxnStep, DispatchStep, Authenticate, RegisterRead, RegisterCommit,
          RevokeRead, RevokeCommit, SendRead, SendCommit, Abort, UnregisterDevice,
          ProvisionAdmin, SessionExpires, Redeploy, SweepRead, ClaimFails, WorkerCrash,
          Finish, InvalidateCommit, TimePasses, Purge
  <2>10. threads' = Advance(x, IF ClaimIsCurrent(x) THEN "checked" ELSE "failed", 0)
      BY <2>9 DEF Check
  <2>11. (IF ClaimIsCurrent(x) THEN "checked" ELSE "failed") = "checked" /\ x = t
      BY <2>5, <2>10
  <2> QED
      BY <2>9, <2>11
<1>2. ASSUME TypeOK, LeaseInvariant, BindingInvariant, [Next]_vars, NEW t \in threads
      PROVE  own(t)
  <2> SUFFICES ASSUME t.phase = "claimed", [t EXCEPT !.phase = "checked"] \in threads',
                      NEW d \in Devices, Routable(d), device[d].token = t.token
               PROVE  device[d].user = t.user
      OBVIOUS
  <2>1. ClaimIsCurrent(t) /\ t.id[2] \in Devices /\ device[t.id[2]].config = config
      BY <1>1, <1>2 DEF BindingInvariant, ThreadsOfThisConfig, TypeOK, Thread, DeliveryIds
  <2>2. d = t.id[2]
      BY <1>2, <2>1
      DEF BindingInvariant, OneRowPerIdentity, Present, Routable, Bound, ClaimIsCurrent
  <2> QED
      BY <2>1, <2>2 DEF ClaimIsCurrent
<1>3. TypeOK /\ LeaseInvariant /\ BindingInvariant /\ [Next]_vars =>
          [\A t \in threads : own(t)]_vars
    BY <1>2
<1> QED
    BY <1>3, OutboxTypeCorrect, LeaseInvariantHolds, BindingInvariantHolds, PTL
    DEF Spec, CheckedTokenIsTheRecipients

-----------------------------------------------------------------------------
(* The cap on devices.  It is kept for every configuration, since the one   *)
(* that runs may change; an open registration holds the user row, and room  *)
(* was left for it by a count below the cap or by a binding that it takes.  *)

Live(u, c) == {d \in Devices : device[d].user = u /\ device[d].config = c /\ Bound(d)}

\* One row more would not be over the cap.
LeavesRoom(ds) == Cardinality(ds) < MaxDevices

CapKept ==
    \A u \in Users, c \in Configs :
        IsFiniteSet(Live(u, c)) /\ Cardinality(Live(u, c)) <= MaxDevices

OneRegistrationPerUser ==
    \A s, o \in Registering : Owner[txn[s].session] = Owner[txn[o].session] => s = o

\* The rows a registration selected stay as it selected them, and are its own.
SelectedStay ==
    /\ \A s \in Registering : \A e \in Selected(s) :
          /\ Present(e) /\ device[e].config = config
          /\ e \in txn[s].installed => device[e].installation = txn[s].installation
          /\ e \in txn[s].bearer => device[e].token = txn[s].token
    /\ \A s, o \in Registering : s # o => Selected(s) \cap Selected(o) = {}

RoomFor(s) ==
    LET live == Live(Owner[txn[s].session], config) IN
    LeavesRoom(live) \/ \E e \in Selected(s) \cap Devices : LeavesRoom(live \ {e})

CapInvariant ==
    /\ CapKept /\ OneRegistrationPerUser /\ SelectedStay
    /\ \A s \in Registering : RoomFor(s)

LEMMA CapInit == Init => CapInvariant
<1> SUFFICES ASSUME Init PROVE CapInvariant
    OBVIOUS
<1>1. Registering = {}
    BY DEF Init, Registering, NoTxn
<1>2. \A u \in Users, c \in Configs : Live(u, c) = {}
    BY DEF Init, Live, Bound
<1> QED
    BY <1>1, <1>2, FS_EmptySet, OutboxAssumptions
    DEF CapInvariant, CapKept, OneRegistrationPerUser, SelectedStay

\* A registration is open since before the step, or was opened by it.
LEMMA RegistrationSteps ==
    ASSUME TypeOK, [Next]_vars, NEW s \in Registering'
    PROVE  /\ config' = config /\ s \in Slots
           /\ \/ s \in Registering /\ txn'[s] = txn[s] /\ ~RegisterCommit(s)
              \/ RegisterRead(s) /\ \A o \in Registering' \ {s} : o \in Registering /\ txn'[o] = txn[o]
<1>0. s \in Slots /\ txn'[s].kind = "register"
    BY DEF Registering
<1>1. ASSUME NEW o \in Slots, Close(o)
      PROVE  s # o /\ txn'[s] = txn[s] /\ s \in Registering
    BY <1>0, <1>1 DEF Close, TypeOK, NoTxn, Registering
<1>2. ASSUME NEW o \in Slots, Authenticate(o) \/ RevokeRead(o) \/ SendRead(o)
      PROVE  s # o /\ txn'[s] = txn[s] /\ s \in Registering
    BY <1>0, <1>2 DEF Authenticate, RevokeRead, SendRead, TypeOK, Registering
<1>3. ASSUME NEW o \in Slots, RegisterRead(o), ~Close(o)
      PROVE  /\ \A x \in Slots \ {o} : txn'[x] = txn[x]
             /\ \A x \in Registering' \ {o} : x \in Registering /\ txn'[x] = txn[x]
    BY <1>3 DEF RegisterRead, TypeOK, Registering
<1>4. ~Redeploy
    BY <1>0 DEF Redeploy, NoTxn
<1>5. config' = config
    BY <1>4
    DEF Next, vars, TxnStep, DispatchStep, Authenticate, RegisterRead, RegisterCommit,
        RevokeRead, RevokeCommit, SendRead, SendCommit, Abort, UnregisterDevice,
        ProvisionAdmin, SessionExpires, SweepRead, Claim, ClaimFails, WorkerCrash,
        Check, Send, Finish, InvalidateRead, InvalidateCommit, ThreadFails, TimePasses, Purge
<1>6. CASE txn' = txn
  <2>1. ~RegisterCommit(s)
      BY <1>0, <1>1, <1>6 DEF RegisterCommit
  <2> QED
      BY <1>0, <1>5, <1>6, <2>1 DEF Registering
<1>7. ASSUME NEW o \in Slots, Close(o)
      PROVE  s \in Registering /\ txn'[s] = txn[s] /\ ~RegisterCommit(s)
  <2>1. ~Close(s)
      BY <1>0, <1>1
  <2> QED
      BY <1>1, <1>7, <2>1 DEF RegisterCommit
<1>8. ASSUME NEW o \in Slots, Authenticate(o) \/ RevokeRead(o) \/ SendRead(o)
      PROVE  s \in Registering /\ txn'[s] = txn[s] /\ ~RegisterCommit(s)
  <2>1. ~Close(s)
      BY <1>0, <1>1
  <2> QED
      BY <1>2, <1>8, <2>1 DEF RegisterCommit
<1>9. ASSUME NEW o \in Slots, RegisterRead(o), ~Close(o)
      PROVE  \/ s \in Registering /\ txn'[s] = txn[s] /\ ~RegisterCommit(s)
             \/ RegisterRead(s) /\ \A x \in Registering' \ {s} : x \in Registering /\ txn'[x] = txn[x]
  <2>1. ~Close(s)
      BY <1>0, <1>1
  <2> QED
      BY <1>0, <1>3, <1>9, <2>1 DEF RegisterCommit
<1>10. \/ txn' = txn
       \/ \E o \in Slots : \/ Close(o) \/ Authenticate(o) \/ RevokeRead(o) \/ SendRead(o)
                           \/ RegisterRead(o) /\ ~Close(o)
    BY <1>4
    DEF Next, vars, TxnStep, DispatchStep, RegisterCommit,
        RevokeCommit, SendCommit, Abort, UnregisterDevice,
        ProvisionAdmin, SessionExpires, SweepRead, Claim, ClaimFails, WorkerCrash,
        Check, Send, Finish, InvalidateRead, InvalidateCommit, ThreadFails, TimePasses, Purge
<1> QED
    BY <1>0, <1>5, <1>6, <1>7, <1>8, <1>9, <1>10

\* A session that is live now was live before.
LEMMA SessionsDie ==
    ASSUME TypeOK, [Next]_vars, NEW x \in Sessions, session'[x] = "live"
    PROVE  session[x] = "live"
<1>1. ASSUME NEW xs, session' = Revoked(xs)
      PROVE  session[x] = "live"
    BY <1>1 DEF Revoked
<1>2. ASSUME SessionExpires
      PROVE  session[x] = "live"
    BY <1>2 DEF SessionExpires, TypeOK
<1> QED
    BY <1>1, <1>2
    DEF Next, vars, TxnStep, DispatchStep, Authenticate, RegisterRead, RegisterCommit,
        RevokeRead, RevokeCommit, SendRead, SendCommit, Abort, UnregisterDevice,
        ProvisionAdmin, Redeploy, SweepRead, Claim, ClaimFails, WorkerCrash,
        Check, Send, Finish, InvalidateRead, InvalidateCommit, ThreadFails, TimePasses, Purge

\* Bindings become live only by a registration, of its user, one row at a time.
LEMMA LiveSteps ==
    ASSUME TypeOK, [Next]_vars, NEW u \in Users, NEW c \in Configs
    PROVE  \/ Live(u, c)' \subseteq Live(u, c)
           \/ \E s \in Slots : \E d :
                 /\ RegistersOn(s, d) /\ u = Owner[txn[s].session] /\ c = config
                 /\ Live(u, c)' \subseteq (Live(u, c) \ Displaced(txn[s])) \cup {d}
<1>1. ASSUME NEW e \in Devices, device'[e] \in {device[e], Deactivated(device[e])},
             e \in Live(u, c)'
      PROVE  e \in Live(u, c)
  <2>1. device[e].session \in Sessions
      BY DEF TypeOK, Device
  <2> QED
      BY <1>1, <2>1, DeactivatedRow, SessionsDie DEF Live, Bound
<1>2. CASE \A e \in Devices : device'[e] \in {device[e], Deactivated(device[e])}
  <2>1. Live(u, c)' \subseteq Devices
      BY DEF Live
  <2> QED
      BY <1>1, <1>2, <2>1
<1>3. ASSUME NEW s \in Slots, NEW d, RegistersOn(s, d)
      PROVE  /\ Live(u, c)' \subseteq (Live(u, c) \ Displaced(txn[s])) \cup {d}
             /\ d \in Live(u, c)' => u = Owner[txn[s].session] /\ c = config
  <2>1. Live(u, c)' \subseteq Devices /\ \A e \in Live(u, c)' : Present(e)'
      BY DEF Live, Bound, Present
  <2>2. ASSUME NEW e \in Live(u, c)', e # d
        PROVE  e \in Live(u, c) \ Displaced(txn[s])
      BY <1>1, <1>3, <2>1, <2>2, RegisteredRows
  <2>3. d \in Live(u, c)' => u = Owner[txn[s].session] /\ c = config
    <3>1. device'[d] = Binding(txn[s])
        BY <1>3, RegisteredRows
    <3> QED
        BY <3>1 DEF Binding, Live
  <2> QED
      BY <2>2, <2>3
<1>4. ASSUME NEW s \in Slots, NEW d, RegistersOn(s, d), ~(d \in Live(u, c)')
      PROVE  Live(u, c)' \subseteq Live(u, c)
    BY <1>3, <1>4
<1> QED
    BY <1>2, <1>3, <1>4, DeviceSteps

\* RegisterRead's count, of rows that are live now.
LEMMA OpenedRegistration ==
    ASSUME TypeOK, NEW s \in Slots, RegisterRead(s), txn'[s].kind = "register"
    PROVE  LET r == txn[s]
               u == Owner[r.session] IN
           /\ r.session \in Sessions /\ txn'[s].session = r.session
           /\ txn'[s].installation = r.installation /\ txn'[s].token = r.token
           /\ txn'[s].installed = {d \in Devices : /\ Present(d) /\ device[d].config = config
                                                   /\ device[d].installation = r.installation}
           /\ txn'[s].bearer = {d \in Devices : /\ Present(d) /\ device[d].config = config
                                                /\ device[d].token = r.token}
           /\ UserLockFree(u)
           /\ (txn'[s].installed \cup txn'[s].bearer) \cap LockedDevices = {}
           /\ \/ LeavesRoom(Live(u, config))
              \/ \E e \in (txn'[s].installed \cup txn'[s].bearer) \cap Devices :
                    e \in Live(u, config)
           /\ device' = device /\ session' = session /\ config' = config
<1> DEFINE r == txn[s]
           u == Owner[r.session]
           stale == StaleDevices(u)
           installed == {d \in Devices : /\ Present(d) /\ device[d].config = config
                                         /\ device[d].installation = r.installation}
           bearer == {d \in Devices : /\ Present(d) /\ device[d].config = config
                                      /\ device[d].token = r.token}
           live == {d \in Devices : device[d].user = u /\ Routable(d)}
           taken == {d \in (installed \cup bearer) \ stale :
                         device[d].user = u /\ device[d].state = "active"}
<1>1. /\ r.kind = "authenticated" /\ UserLockFree(u)
      /\ (installed \cup bearer) \cap LockedDevices = {}
      /\ UNCHANGED <<session, device, config>>
    BY DEF RegisterRead
<1>2. ~Close(s)
    BY DEF Close, TypeOK, NoTxn
<1>3. taken # {} \/ Cardinality(live) < MaxDevices
    BY <1>2 DEF RegisterRead
<1>4. txn' = [txn EXCEPT ![s] =
                [kind |-> "register", session |-> r.session, installation |-> r.installation,
                 token |-> r.token, now |-> clock + 1, stale |-> stale,
                 installed |-> installed, bearer |-> bearer]]
    BY <1>2 DEF RegisterRead
<1>5. /\ txn'[s].session = r.session
      /\ txn'[s].installation = r.installation /\ txn'[s].token = r.token
      /\ txn'[s].installed = installed /\ txn'[s].bearer = bearer
    BY <1>4 DEF TypeOK
<1>6. r.session \in Sessions
    BY <1>1 DEF TypeOK, Txn, NoTxn
<1>7. live = Live(u, config)
    BY DEF Live, Routable
<1>8. \A e \in taken : e \in Live(u, config)
    BY DEF StaleDevices, Routable, Live
<1>9. \/ LeavesRoom(Live(u, config))
      \/ \E e \in (txn'[s].installed \cup txn'[s].bearer) \cap Devices : e \in Live(u, config)
  <2>1. taken \subseteq (installed \cup bearer) \cap Devices
      OBVIOUS
  <2> HIDE DEF installed, bearer, live, stale, taken
  <2> QED
      BY <1>3, <1>5, <1>7, <1>8, <2>1 DEF LeavesRoom
<1>10. (txn'[s].installed \cup txn'[s].bearer) \cap LockedDevices = {}
    BY <1>1, <1>5
<1> QED
    BY <1>1, <1>5, <1>6, <1>9, <1>10

LEMMA OneRegistrationStep ==
    TypeOK /\ OneRegistrationPerUser /\ [Next]_vars => OneRegistrationPerUser'
<1> SUFFICES ASSUME TypeOK, OneRegistrationPerUser, [Next]_vars,
                    NEW s \in Registering', NEW o \in Registering', s # o,
                    Owner[txn'[s].session] = Owner[txn'[o].session]
             PROVE  FALSE
    BY DEF OneRegistrationPerUser
<1>1. ASSUME NEW a \in Registering', NEW b \in Registering', a # b, RegisterRead(a),
             b \in Registering, txn'[b] = txn[b]
      PROVE  Owner[txn'[a].session] # Owner[txn'[b].session]
  <2>1. a \in Slots /\ txn'[a].kind = "register"
      BY DEF Registering
  <2> QED
      BY <1>1, <2>1, OpenedRegistration DEF UserLockFree
<1>2. CASE s \in Registering /\ txn'[s] = txn[s] /\ o \in Registering /\ txn'[o] = txn[o]
    BY <1>2 DEF OneRegistrationPerUser
<1> QED
    BY <1>1, <1>2, RegistrationSteps

LEMMA SelectedStayStep ==
    TypeOK /\ SelectedStay /\ [Next]_vars => SelectedStay'
<1> SUFFICES ASSUME TypeOK, SelectedStay, [Next]_vars PROVE SelectedStay'
    OBVIOUS
<1>0. ASSUME NEW s \in Registering
      PROVE  s \in Slots /\ Selected(s) \subseteq Devices
    BY OpenRegistration DEF Registering, Selected
<1>1. ASSUME NEW s \in Registering', s \in Registering, txn'[s] = txn[s], ~RegisterCommit(s),
             NEW e \in Selected(s)
      PROVE  /\ Present(e)' /\ device'[e].config = device[e].config
             /\ device'[e].installation = device[e].installation
             /\ device'[e].token = device[e].token
  <2>1. e \in Devices /\ Present(e)
      BY <1>0, <1>1 DEF SelectedStay
  <2>2. CASE device'[e] \in {device[e], Deactivated(device[e])}
      BY <2>1, <2>2, DeactivatedRow
  <2>3. ASSUME NEW o \in Slots, NEW d, RegistersOn(o, d)
        PROVE  device'[e] \in {device[e], Deactivated(device[e])}
    <3>1. o \in Registering /\ o # s
        BY <1>1, <2>3 DEF RegistersOn, Registering
    <3>2. e \notin Selected(o)
        BY <1>1, <3>1 DEF SelectedStay
    <3>3. e # d /\ e \notin Displaced(txn[o])
        BY <2>1, <2>3, <3>2, RegisteredRows DEF Present
    <3> QED
        BY <2>1, <2>3, <3>3, RegisteredRows
  <2> QED
      BY <2>1, <2>2, <2>3, DeviceSteps
<1>2. ASSUME NEW s \in Registering', RegisterRead(s)
      PROVE  /\ \A e \in Selected(s)' :
                  /\ Present(e)' /\ device'[e].config = config'
                  /\ e \in txn'[s].installed => device'[e].installation = txn'[s].installation
                  /\ e \in txn'[s].bearer => device'[e].token = txn'[s].token
             /\ Selected(s)' \cap LockedDevices = {}
  <2>1. s \in Slots /\ txn'[s].kind = "register"
      BY DEF Registering
  <2> QED
      BY <1>2, <2>1, OpenedRegistration DEF Selected, Present
<1>3. ASSUME NEW s \in Registering', NEW e \in Selected(s)'
      PROVE  /\ Present(e)' /\ device'[e].config = config'
             /\ e \in txn'[s].installed => device'[e].installation = txn'[s].installation
             /\ e \in txn'[s].bearer => device'[e].token = txn'[s].token
  <2>1. CASE s \in Registering /\ txn'[s] = txn[s] /\ ~RegisterCommit(s)
    <3>1. e \in Selected(s) /\ config' = config
        BY <1>3, <2>1, RegistrationSteps DEF Selected
    <3> QED
        BY <1>1, <2>1, <3>1 DEF SelectedStay
  <2>2. CASE RegisterRead(s)
      BY <1>2, <1>3, <2>2
  <2> QED
      BY <2>1, <2>2, RegistrationSteps
<1>4. ASSUME NEW s \in Registering', NEW o \in Registering', s # o
      PROVE  Selected(s)' \cap Selected(o)' = {}
  <2>1. ASSUME NEW a \in Registering', NEW b \in Registering', RegisterRead(a),
               b \in Registering, txn'[b] = txn[b]
        PROVE  Selected(a)' \cap Selected(b)' = {}
    <3>1. Selected(b)' = Selected(b) /\ Selected(b) \subseteq LockedDevices
        BY <2>1 DEF Selected, LockedDevices
    <3> QED
        BY <1>2, <2>1, <3>1
  <2>2. ASSUME s \in Registering, txn'[s] = txn[s], o \in Registering, txn'[o] = txn[o]
        PROVE  Selected(s)' \cap Selected(o)' = {}
    <3>1. Selected(s)' = Selected(s) /\ Selected(o)' = Selected(o)
        BY <2>2 DEF Selected
    <3> QED
        BY <1>4, <2>2, <3>1 DEF SelectedStay
  <2> QED
      BY <1>4, <2>1, <2>2, RegistrationSteps
<1> QED
    BY <1>3, <1>4 DEF SelectedStay

\* Fewer rows leave no less room.
LEMMA RoomGrows ==
    ASSUME NEW S, IsFiniteSet(S), NEW T, T \subseteq S, LeavesRoom(S)
    PROVE  LeavesRoom(T)
    BY FewerThreads, OutboxAssumptions DEF LeavesRoom

\* The registration of an account takes its room; no other step does.
LEMMA RoomStep ==
    ASSUME TypeOK, CapInvariant, [Next]_vars, NEW s \in Registering'
    PROVE  RoomFor(s)'
<1>0. s \in Slots /\ config \in Configs /\ config' = config
    BY RegistrationSteps DEF TypeOK
<1>1. CASE RegisterRead(s)
  <2> DEFINE u == Owner[txn[s].session]
  <2>1. txn'[s].kind = "register"
      BY DEF Registering
  <2>2. /\ u \in Users /\ txn'[s].session = txn[s].session
        /\ \/ LeavesRoom(Live(u, config))
           \/ \E e \in Selected(s)' \cap Devices : e \in Live(u, config)
        /\ device' = device /\ session' = session /\ config' = config
      BY <1>0, <1>1, <2>1, OpenedRegistration, OutboxAssumptions DEF Selected
  <2>3. Live(u, config)' = Live(u, config)
      BY <2>2 DEF Live, Bound
  <2>4. IsFiniteSet(Live(u, config)) /\ Cardinality(Live(u, config)) <= MaxDevices
      BY <1>0, <2>2 DEF CapInvariant, CapKept
  <2>5. ASSUME NEW e \in Live(u, config)
        PROVE  LeavesRoom(Live(u, config) \ {e})
    <3>1. Cardinality(Live(u, config)) \in Nat /\ MaxDevices \in Nat
        BY <2>4, FS_CardinalityType, OutboxAssumptions
    <3>2. Cardinality(Live(u, config) \ {e}) = Cardinality(Live(u, config)) - 1
        BY <2>4, <2>5, FS_RemoveElement
    <3> QED
        BY <2>4, <3>1, <3>2 DEF LeavesRoom
  <2> QED
      BY <2>2, <2>3, <2>5 DEF RoomFor
<1>2. CASE s \in Registering /\ txn'[s] = txn[s] /\ ~RegisterCommit(s)
  <2> DEFINE u == Owner[txn[s].session]
  <2>1. u \in Users /\ RoomFor(s)
      BY <1>0, <1>2, OpenRegistration, OutboxAssumptions DEF CapInvariant, Registering
  <2>2. IsFiniteSet(Live(u, config))
      BY <1>0, <2>1 DEF CapInvariant, CapKept
  <2>3. ASSUME NEW o \in Slots, NEW d, RegistersOn(o, d), u = Owner[txn[o].session]
        PROVE  FALSE
    <3>1. o \in Registering /\ o # s
        BY <1>2, <2>3 DEF RegistersOn, Registering
    <3> QED
        BY <1>2, <2>3, <3>1 DEF CapInvariant, OneRegistrationPerUser
  <2>4. Live(u, config)' \subseteq Live(u, config)
    <3>1. \/ Live(u, config)' \subseteq Live(u, config)
          \/ \E o \in Slots : \E d : RegistersOn(o, d) /\ u = Owner[txn[o].session]
        <4>1. PICK v \in Users : v = u
            BY <2>1
        <4>2. PICK c \in Configs : c = config
            BY <1>0
        <4>3. \/ Live(v, c)' \subseteq Live(v, c)
              \/ \E o \in Slots : \E d : RegistersOn(o, d) /\ v = Owner[txn[o].session]
            BY LiveSteps
        <4> QED
            BY <1>0, <1>2, <4>1, <4>2, <4>3 DEF Live
    <3> QED
        BY <2>3, <3>1
  <2>5. CASE LeavesRoom(Live(u, config))
      BY <1>0, <1>2, <2>2, <2>4, <2>5, RoomGrows DEF RoomFor
  <2>6. ASSUME NEW e \in Selected(s) \cap Devices, LeavesRoom(Live(u, config) \ {e})
        PROVE  RoomFor(s)'
    <3>1. IsFiniteSet(Live(u, config) \ {e})
        BY <2>2, FS_RemoveElement
    <3>2. LeavesRoom(Live(u, config)' \ {e})
        BY <2>4, <2>6, <3>1, RoomGrows
    <3>3. e \in Selected(s)'
        BY <1>2 DEF Selected
    <3> QED
        BY <1>0, <1>2, <3>2, <3>3 DEF RoomFor
  <2> QED
      BY <2>1, <2>5, <2>6 DEF RoomFor
<1> QED
    BY <1>1, <1>2, RegistrationSteps

LEMMA CapStep ==
    ASSUME TypeOK, CapInvariant, [Next]_vars, NEW u \in Users, NEW c \in Configs
    PROVE  IsFiniteSet(Live(u, c)') /\ Cardinality(Live(u, c)') <= MaxDevices
<1>0. /\ IsFiniteSet(Live(u, c)) /\ Cardinality(Live(u, c)) <= MaxDevices
      /\ MaxDevices \in Nat
    BY OutboxAssumptions DEF CapInvariant, CapKept
<1>1. CASE Live(u, c)' \subseteq Live(u, c)
    BY <1>0, <1>1, FewerThreads
<1>2. ASSUME NEW s \in Slots, NEW d, RegistersOn(s, d), u = Owner[txn[s].session], c = config,
             Live(u, c)' \subseteq (Live(u, c) \ Displaced(txn[s])) \cup {d}
      PROVE  IsFiniteSet(Live(u, c)') /\ Cardinality(Live(u, c)') <= MaxDevices
  <2>1. s \in Registering
      BY <1>2 DEF RegistersOn, Registering
  <2>2. ASSUME NEW ds, ds \subseteq Live(u, c), LeavesRoom(ds), Live(u, c)' \subseteq ds \cup {d}
        PROVE  IsFiniteSet(Live(u, c)') /\ Cardinality(Live(u, c)') <= MaxDevices
    <3>1. IsFiniteSet(ds) /\ Cardinality(ds) \in Nat /\ Cardinality(ds) < MaxDevices
        BY <1>0, <2>2, FewerThreads DEF LeavesRoom
    <3>2. /\ IsFiniteSet(ds \cup {d})
          /\ Cardinality(ds \cup {d}) = IF d \in ds THEN Cardinality(ds) ELSE Cardinality(ds) + 1
        BY <3>1, FS_AddElement, Zenon
    <3>3. Cardinality(ds \cup {d}) <= MaxDevices
        BY <1>0, <3>1, <3>2
    <3>4. /\ IsFiniteSet(Live(u, c)') /\ Cardinality(Live(u, c)') \in Nat
          /\ Cardinality(Live(u, c)') <= Cardinality(ds \cup {d})
          /\ Cardinality(ds \cup {d}) \in Nat
        BY <2>2, <3>2, FewerThreads
    <3> QED
        BY <1>0, <3>3, <3>4
  <2>3. CASE LeavesRoom(Live(u, c))
      BY <1>2, <2>2, <2>3
  <2>4. ASSUME NEW e \in Selected(s) \cap Devices, LeavesRoom(Live(u, c) \ {e})
        PROVE  IsFiniteSet(Live(u, c)') /\ Cardinality(Live(u, c)') <= MaxDevices
    <3>1. e = d \/ e \in Displaced(txn[s])
      <4>1. /\ Present(e) /\ device[e].config = config
            /\ \/ e \in txn[s].bearer /\ device[e].token = txn[s].token
               \/ e \in txn[s].installed /\ device[e].installation = txn[s].installation
          BY <2>1, <2>4 DEF CapInvariant, SelectedStay, Selected
      <4> QED
          BY <1>2, <2>4, <4>1 DEF RegistersOn, UniqueConflict
    <3>2. Live(u, c)' \subseteq (Live(u, c) \ {e}) \cup {d}
        BY <1>2, <3>1
    <3> QED
        BY <2>2, <2>4, <3>2
  <2>5. RoomFor(s)
      BY <2>1 DEF CapInvariant
  <2> QED
      BY <1>2, <2>3, <2>4, <2>5 DEF RoomFor
<1> QED
    BY <1>1, <1>2, LiveSteps

LEMMA CapInvariantHolds == Spec => []CapInvariant
<1>1. TypeOK /\ CapInvariant /\ [Next]_vars => CapInvariant'
  <2> SUFFICES ASSUME TypeOK, CapInvariant, [Next]_vars PROVE CapInvariant'
      OBVIOUS
  <2>1. CapKept'
      BY CapStep DEF CapKept
  <2>2. OneRegistrationPerUser' /\ SelectedStay'
      BY OneRegistrationStep, SelectedStayStep DEF CapInvariant
  <2>3. \A s \in Registering' : RoomFor(s)'
      BY RoomStep
  <2> QED
      BY <2>1, <2>2, <2>3 DEF CapInvariant
<1> QED
    BY <1>1, OutboxTypeCorrect, CapInit, PTL DEF Spec

\* For any cap, and any number of registrations at once: the rows counted under
\* the lock of the user (push.py:190) are still the most there are when the
\* registration commits (push.py:307), also after a deployment returns to an
\* earlier configuration.
THEOREM DevicesStayWithinCap == Spec => []ActiveDeviceCap
<1>1. TypeOK /\ CapInvariant => ActiveDeviceCap
  <2> SUFFICES ASSUME TypeOK, CapInvariant, NEW u \in Users
               PROVE  Cardinality({d \in Devices : device[d].user = u /\ Routable(d)})
                          <= MaxDevices
      BY DEF ActiveDeviceCap
  <2>1. {d \in Devices : device[d].user = u /\ Routable(d)} = Live(u, config)
      BY DEF Live, Routable
  <2> QED
      BY <2>1 DEF CapInvariant, CapKept, TypeOK
<1> QED
    BY <1>1, OutboxTypeCorrect, CapInvariantHolds, PTL
=============================================================================
