---------------------------- MODULE RecordProofs ----------------------------
(***************************************************************************)
(* The price snapshot of an admission, the model choices of users, the     *)
(* decisions of the quota guard, and the deletion of old records, which    *)
(* keeps open requests and takes others whole: for any models, users,      *)
(* connections, gateways, edits, requests, settings, readings and cutoffs. *)
(***************************************************************************)
EXTENDS ModelAccess, ModelPrices, QuotaGuard, Cleanup, TLAPS

\* The provers to try, and their time, for a leaf that names none.
USE SMTT(30), ZenonT(30), SMTT(60)

-----------------------------------------------------------------------------
(* Prices                                                                  *)

\* The override an admission has read is the one stored as long as it holds
\* the first shared lock, and so is the multiplier under the second.
SnapshotCurrent(a) ==
    /\ DOMAIN a = {"stage", "gateway", "price", "multiplier"}
    /\ a.stage \in {"priced", "snapshot"} => a.price = IF stored.price = 0 THEN ConfiguredPrice ELSE stored.price
    /\ a.stage = "snapshot" => a.multiplier = multiplier

PriceInvariant == DOMAIN admission = Admissions /\ \A r \in Admissions : SnapshotCurrent(admission[r])

\* One admission changes, to a row that is current.
LEMMA AdmissionChanged ==
    ASSUME PriceInvariant, NEW r \in Admissions, NEW a, SnapshotCurrent(a),
           admission' = [admission EXCEPT ![r] = a], UNCHANGED <<stored, multiplier>>
    PROVE  PriceInvariant'
<1>1. DOMAIN admission' = Admissions /\ \A q \in Admissions : admission'[q] = IF q = r THEN a ELSE admission[q]
  BY DEF PriceInvariant
<1> QED BY <1>1 DEF PriceInvariant, SnapshotCurrent

\* Every step keeps what an admission has read current: a change of the
\* override or of the multiplier waits for the admissions that read it.
LEMMA PriceStep ==
    ASSUME PriceInvariant, [PriceNext]_priceVars
    PROVE  PriceInvariant'
<1>1. ASSUME UNCHANGED <<stored, multiplier, admission>>
      PROVE  PriceInvariant'
  BY <1>1 DEF PriceInvariant, SnapshotCurrent
<1>2. ASSUME NEW g \in PriceGateways, Redeploy(g)
      PROVE  PriceInvariant'
  BY <1>1, <1>2 DEF Redeploy
<1>3. ASSUME NEW g \in PriceGateways, NEW e \in PriceEdits, LoadPrices(e, g)
      PROVE  PriceInvariant'
  BY <1>1, <1>3 DEF LoadPrices
<1>4. ASSUME NEW g \in PriceGateways, NEW e \in PriceEdits, SetModelPrice(e, g)
      PROVE  PriceInvariant'
  <2>1. \/ UNCHANGED stored
        \/ Exclusive({"priced", "snapshot"})
    BY Zenon, <1>4 DEF SetModelPrice
  <2>2. UNCHANGED <<multiplier, admission>>
    BY Zenon, <1>4 DEF SetModelPrice
  <2>3. CASE Exclusive({"priced", "snapshot"})
    BY <2>2, <2>3 DEF Exclusive, PriceInvariant, SnapshotCurrent
  <2> QED BY <1>1, <2>1, <2>2, <2>3
<1>5. ASSUME NEW g \in PriceGateways, NEW e \in MultiplierEdits, SetModelMultiplier(e, g)
      PROVE  PriceInvariant'
  BY <1>5 DEF SetModelMultiplier, Exclusive, PriceInvariant, SnapshotCurrent
<1>6. ASSUME NEW g \in PriceGateways, NEW r \in Admissions, snapshotModelPrice(r, g)
      PROVE  PriceInvariant'
  <2> DEFINE price == modelPriceValue(g, stored)
  <2> DEFINE refused == [admission[r] EXCEPT !.stage = "refused"]
  <2> DEFINE priced == [stage |-> "priced", gateway |-> g, price |-> price, multiplier |-> 0]
  <2>1. admission' = [admission EXCEPT ![r] = IF price = 0 THEN refused ELSE priced] /\ UNCHANGED <<stored, multiplier>>
    BY <1>6 DEF snapshotModelPrice, PriceInvariant
  <2>2. SnapshotCurrent(refused)
    BY DEF PriceInvariant, SnapshotCurrent
  <2>3. price # 0 => price = IF stored.price = 0 THEN ConfiguredPrice ELSE stored.price
    BY DEF modelPriceValue
  <2> HIDE DEF price
  <2>4. price # 0 => SnapshotCurrent(priced)
    BY <2>3 DEF SnapshotCurrent
  <2> HIDE DEF refused, priced
  <2> QED BY Zenon, <2>1, <2>2, <2>4, AdmissionChanged
<1>7. ASSUME NEW r \in Admissions, snapshotModelMultiplier(r)
      PROVE  PriceInvariant'
  <2> DEFINE a == [admission[r] EXCEPT !.stage = "snapshot", !.multiplier = multiplier]
  <2>1. admission' = [admission EXCEPT ![r] = a] /\ UNCHANGED <<stored, multiplier>>
    BY Zenon, <1>7 DEF snapshotModelMultiplier, PriceInvariant
  <2>2. SnapshotCurrent(a)
    BY <1>7 DEF snapshotModelMultiplier, PriceInvariant, SnapshotCurrent
  <2> HIDE DEF a
  <2> QED BY Zenon, <2>1, <2>2, AdmissionChanged
<1>8. ASSUME NEW r \in Admissions, CommitReservation(r)
      PROVE  PriceInvariant'
  <2>1. PICK stage \in {"reserved", "refused"} : admission' = [admission EXCEPT ![r].stage = stage]
    BY Zenon, <1>8 DEF CommitReservation
  <2> DEFINE a == [admission[r] EXCEPT !.stage = stage]
  <2>2. admission' = [admission EXCEPT ![r] = a] /\ UNCHANGED <<stored, multiplier>>
    BY Zenon, <1>8, <2>1 DEF CommitReservation, PriceInvariant
  <2>3. SnapshotCurrent(a)
    BY DEF PriceInvariant, SnapshotCurrent
  <2> HIDE DEF a
  <2> QED BY Zenon, <2>2, <2>3, AdmissionChanged
<1>9. CASE UNCHANGED priceVars
  BY <1>1, <1>9 DEF priceVars
<1> QED BY <1>2, <1>3, <1>4, <1>5, <1>6, <1>7, <1>8, <1>9 DEF PriceNext

\* A reservation commits with the override and the multiplier in force at that
\* moment, whatever the owner saves and whatever gateways are redeployed with
\* between its two reads.
THEOREM SnapshotInForceHolds == PriceSpec => SnapshotInForce
<1> DEFINE InForce == \A r \in Admissions :
        admission[r].stage = "snapshot" /\ admission'[r].stage = "reserved" =>
            /\ admission[r].multiplier = multiplier
            /\ admission[r].price = IF stored.price = 0 THEN ConfiguredPrice ELSE stored.price
<1>1. PriceInit => PriceInvariant
  BY DEF PriceInit, PriceInvariant, SnapshotCurrent, NotAdmitted
<1>2. PriceInvariant /\ [PriceNext]_priceVars => PriceInvariant'
  BY PriceStep
<1>3. PriceInvariant => InForce
  BY DEF PriceInvariant, SnapshotCurrent
<1>4. PriceSpec => []PriceInvariant
  BY <1>1, <1>2, PTL DEF PriceSpec
<1>5. PriceInvariant => [InForce]_priceVars
  BY <1>3
<1> QED BY <1>4, <1>5, PTL DEF SnapshotInForce

-----------------------------------------------------------------------------
(* Model choices                                                           *)

ModelChoices == {"none", "on", "off"}
Kinds == {"none", "register", "review", "sync", "defaults", "all", "selected", "subscriptions", "scopes"}

TxRows ==
    [kind : Kinds, user : AccUsers \cup {"none"}, models : Catalogs \cup SUBSET AccModels,
     enabled : BOOLEAN, at : Nat \ {0}, read : [AccModels -> ModelChoices]]

ModelTypeOK ==
    /\ default \in [AccModels -> [listed : BOOLEAN, active : BOOLEAN, enabled : BOOLEAN]]
    /\ member \in [AccUsers -> {"none", "pending", "active"}]
    /\ choice \in [AccUsers -> [AccModels -> ModelChoices]]
    /\ tx \in [Connections -> TxRows]

\* What a connection without a transaction looks like.
LEMMA NoTransaction ==
    NoTx \in TxRows /\ NoTx.at = 1 /\ NoTx.kind = "none" /\ NoRows \in [AccModels -> ModelChoices]
<1>1. NoRows \in [AccModels -> ModelChoices]
  BY Zenon DEF NoRows, ModelChoices
<1>2. NoTx.at = 1 /\ NoTx.kind = "none"
  BY Zenon DEF NoTx
<1>3. /\ "none" \in Kinds /\ "none" \in AccUsers \cup {"none"} /\ {} \in Catalogs \cup SUBSET AccModels
      /\ 1 \in Nat \ {0}
  BY DEF Kinds
<1> QED BY Zenon, <1>1, <1>2, <1>3 DEF NoTx, TxRows

\* No two transactions hold conflicting locks.
LocksExclude ==
    \A o, t \in Connections : o # t => \A l \in Held(o), k \in Held(t) : ~Conflicts(l, k)

\* A registration is of a user that does not exist; once its rows lock the
\* models it has read every active one.
Registering(t) ==
    tx[t].kind = "register" =>
        /\ tx[t].user \in AccUsers /\ member[tx[t].user] = "none"
        /\ tx[t].at > 2 => \A m \in AccModels : default[m].active => tx[t].read[m] # "none"
        /\ \A o \in Connections : tx[o].kind = "register" /\ tx[o].user = tx[t].user => o = t

ModelInvariant ==
    /\ ModelTypeOK
    /\ LocksExclude
    /\ \A t \in Connections : Registering(t)
    /\ \A u \in AccUsers : member[u] = "none" => choice[u] = NoRows
    /\ CatalogComplete

\* Which lock conflicts with which does not depend on who holds it.
LEMMA ConflictsSymmetric ==
    ASSUME NEW l, NEW k
    PROVE  Conflicts(l, k) <=> Conflicts(k, l)
<1>1. {l.mode, k.mode} = {k.mode, l.mode}
  OBVIOUS
<1> QED BY <1>1 DEF Conflicts

\* The locks of a transaction depend on that transaction only, and one that
\* starts over has none.
LEMMA HeldLocks ==
    ASSUME NEW t \in Connections
    PROVE  /\ tx'[t] = tx[t] => Held(t)' = Held(t)
           /\ tx'[t].at = 1 => Held(t)' = {}
<1>1. ASSUME tx'[t] = tx[t] PROVE Held(t)' = Held(t)
  BY <1>1 DEF Held, Plan
<1>2. ASSUME tx'[t].at = 1 PROVE Held(t)' = {}
  BY <1>2 DEF Held
<1> QED BY <1>1, <1>2

\* Locks of a transaction that begins, ends or starts over.
LEMMA LocksReleased ==
    ASSUME ModelTypeOK, LocksExclude, NEW t \in Connections, NEW x \in TxRows, x.at = 1, tx' = [tx EXCEPT ![t] = x]
    PROVE  LocksExclude'
<1>1. tx'[t].at = 1 /\ \A o \in Connections : o # t => tx'[o] = tx[o]
  BY DEF ModelTypeOK
<1>2. Held(t)' = {} /\ \A o \in Connections : o # t => Held(o)' = Held(o)
  BY <1>1, HeldLocks
<1>3. ASSUME NEW o \in Connections, NEW q \in Connections, o # q, NEW l \in Held(o)', NEW k \in Held(q)'
      PROVE  ~Conflicts(l, k)
  BY <1>2, <1>3 DEF LocksExclude
<1> QED BY <1>3 DEF LocksExclude

\* A registration that has all its locks and a synchronisation that has all
\* its locks exclude each other: "Locking users closes the race with the
\* registration trigger".
LEMMA SyncExcludesRegistration ==
    ASSUME ModelTypeOK, LocksExclude, NEW t \in Connections, NEW o \in Connections,
           Commits(t, "sync"), tx[o].kind = "register"
    PROVE  ~(tx[o].at > 2)
<1> SUFFICES ASSUME tx[o].at > 2 PROVE FALSE
  OBVIOUS
<1>1. t # o /\ tx[t].at \in Nat /\ tx[o].at \in Nat
  BY DEF Commits, ModelTypeOK, TxRows
<1>2. Plan(t) = SyncLocks \o BackfillLocks /\ Plan(o) = RegistrationLocks
  BY DEF Plan, Commits
<1>3. Len(Plan(t)) = 3 /\ Plan(t)[2] = Lock("users", "share_row_exclusive", "all")
  BY <1>2 DEF SyncLocks, BackfillLocks
<1>4. Plan(o)[1] = Lock("users", "row_exclusive", "all")
  BY <1>2 DEF RegistrationLocks
<1>5. tx[t].at > 3
  BY <1>1, <1>3 DEF Commits, Waits
<1>6. Plan(t)[2] \in Held(t) /\ Plan(o)[1] \in Held(o)
  BY <1>1, <1>5 DEF Held
<1>7. Conflicts(Plan(t)[2], Plan(o)[1])
  BY <1>3, <1>4 DEF Conflicts, ConflictingModes, Lock
<1> QED BY <1>1, <1>6, <1>7 DEF LocksExclude

\* A step of one transaction that begins, ends or starts over keeps the
\* invariant when its writes do.
LEMMA TransactionTurns ==
    ASSUME ModelInvariant, NEW t \in Connections, NEW x \in TxRows, x.at = 1, tx' = [tx EXCEPT ![t] = x],
           x.kind # "register", ModelTypeOK', CatalogComplete',
           \A u \in AccUsers : member'[u] = "none" => choice'[u] = NoRows,
           \A o \in Connections : o # t /\ tx[o].kind = "register" =>
                /\ member'[tx[o].user] = "none"
                /\ tx[o].at > 2 => \A m \in AccModels : default'[m].active => default[m].active
    PROVE  ModelInvariant'
<1>1. LocksExclude'
  BY Zenon, LocksReleased DEF ModelInvariant
<1>2. tx'[t] = x /\ \A o \in Connections : o # t => tx'[o] = tx[o]
  BY DEF ModelInvariant, ModelTypeOK
<1>3. ASSUME NEW o \in Connections
      PROVE  Registering(o)'
  BY <1>2 DEF ModelInvariant, Registering
<1> QED BY <1>1, <1>3 DEF ModelInvariant

\* A transaction begins: nothing is written.
LEMMA BeginStep ==
    ASSUME ModelInvariant, NEW t \in Connections,
           \/ BeginSync(t) \/ BeginBatch(t)
           \/ \E u \in AccUsers : BeginRegister(t, u) \/ BeginReview(t, u)
    PROVE  ModelInvariant'
<1>0. ModelTypeOK /\ NoTx \in TxRows /\ NoTx.at = 1
  BY Zenon, NoTransaction DEF ModelInvariant
<1>1. ASSUME NEW x \in TxRows, x.at = 1, x.kind # "register", Begin(t, x)
      PROVE  ModelInvariant'
  <2>1. tx' = [tx EXCEPT ![t] = x] /\ UNCHANGED <<default, member, choice>>
    BY <1>1 DEF Begin
  <2>2. ModelTypeOK' /\ CatalogComplete'
    BY <1>0, <2>1 DEF ModelInvariant, ModelTypeOK, CatalogComplete
  <2> QED BY Zenon, <1>1, <2>1, <2>2, TransactionTurns DEF ModelInvariant, Registering
<1>2. CASE BeginSync(t)
  <2>1. PICK c \in Catalogs : Begin(t, [NoTx EXCEPT !.kind = "sync", !.models = c])
    BY Zenon, <1>2 DEF BeginSync
  <2>2. [NoTx EXCEPT !.kind = "sync", !.models = c] \in TxRows
    BY Zenon, <1>0 DEF NoTx, TxRows, Kinds
  <2> QED BY Zenon, <1>0, <1>1, <2>1, <2>2 DEF NoTx
<1>3. CASE BeginBatch(t)
  <2>1. PICK kind \in {"defaults", "all", "selected"}, models \in (SUBSET AccModels) \ {{}}, enabled \in BOOLEAN,
             u \in AccUsers :
             Begin(t, [NoTx EXCEPT !.kind = kind, !.models = models, !.enabled = enabled,
                                   !.user = IF kind = "selected" THEN u ELSE "none"])
    BY Zenon, <1>3 DEF BeginBatch
  <2> DEFINE x == [NoTx EXCEPT !.kind = kind, !.models = models, !.enabled = enabled,
                               !.user = IF kind = "selected" THEN u ELSE "none"]
  <2>2. x \in TxRows /\ x.at = 1 /\ x.kind # "register"
    BY ZenonT(30), <1>0 DEF NoTx, TxRows, Kinds
  <2> HIDE DEF x
  <2>3. Begin(t, x)
    BY <2>1 DEF x
  <2> QED BY <1>1, <2>2, <2>3
<1>4. ASSUME NEW u \in AccUsers, BeginReview(t, u)
      PROVE  ModelInvariant'
  <2>1. [NoTx EXCEPT !.kind = "review", !.user = u] \in TxRows
    BY Zenon, <1>0 DEF NoTx, TxRows, Kinds
  <2> QED BY Zenon, <1>0, <1>1, <1>4, <2>1 DEF BeginReview, NoTx
<1>5. ASSUME NEW u \in AccUsers, BeginRegister(t, u)
      PROVE  ModelInvariant'
  <2> DEFINE x == [NoTx EXCEPT !.kind = "register", !.user = u]
  <2>1. x \in TxRows /\ x.at = 1 /\ x.kind = "register" /\ x.user = u
    BY Zenon, <1>0 DEF NoTx, TxRows, Kinds
  <2>2. /\ tx' = [tx EXCEPT ![t] = x] /\ UNCHANGED <<default, member, choice>>
        /\ member[u] = "none" /\ \A o \in Connections : ~(tx[o].kind = "register" /\ tx[o].user = u)
    BY Zenon, <1>5 DEF BeginRegister, Begin
  <2> HIDE DEF x
  <2>3. ModelTypeOK' /\ CatalogComplete'
    BY <1>0, <2>1, <2>2 DEF ModelInvariant, ModelTypeOK, CatalogComplete
  <2>4. LocksExclude'
    BY Zenon, <2>1, <2>2, LocksReleased DEF ModelInvariant
  <2>5. tx'[t] = x /\ \A o \in Connections : o # t => tx'[o] = tx[o]
    BY Zenon, <1>0, <2>2 DEF ModelTypeOK
  <2>6. ASSUME NEW o \in Connections
        PROVE  Registering(o)'
    BY <2>1, <2>2, <2>5 DEF ModelInvariant, Registering
  <2> QED BY <2>2, <2>3, <2>4, <2>6 DEF ModelInvariant
<1> QED BY <1>2, <1>3, <1>4, <1>5

\* A lock is taken only when no other transaction holds a conflicting one, and
\* the last one of a registration comes with a read of the defaults.
LEMMA AcquireStep ==
    ASSUME ModelInvariant, NEW t \in Connections, Acquire(t)
    PROVE  ModelInvariant'
<1> DEFINE n == tx[t].at + 1
<1> DEFINE r == Snapshot(t)
<1> DEFINE x == [tx[t] EXCEPT !.at = n, !.read = r]
<1>0. ModelTypeOK /\ tx[t] \in TxRows
  BY DEF ModelInvariant, ModelTypeOK
<1>1. Snapshot(t) \in [AccModels -> ModelChoices]
  BY <1>0 DEF Snapshot, ModelChoices, Named
<1>2. x \in TxRows /\ x.at = tx[t].at + 1 /\ x.kind = tx[t].kind /\ x.user = tx[t].user /\ x.read = Snapshot(t)
  <2>1. n \in Nat \ {0} /\ r \in [AccModels -> ModelChoices]
    BY <1>0, <1>1 DEF TxRows
  <2> HIDE DEF n, r
  <2>2. x \in TxRows
    BY Zenon, <1>0, <2>1 DEF TxRows
  <2>3. x.at = n /\ x.kind = tx[t].kind /\ x.user = tx[t].user /\ x.read = r
    BY <1>0 DEF TxRows
  <2> QED BY <2>2, <2>3 DEF n, r
<1>3. tx' = [tx EXCEPT ![t] = x] /\ UNCHANGED <<default, member, choice>>
  BY Zenon, <1>0 DEF Acquire, ModelTypeOK
<1> HIDE DEF x
<1>4. tx'[t] = x /\ \A o \in Connections : o # t => tx'[o] = tx[o]
  BY <1>0, <1>3 DEF ModelTypeOK
<1>5. ModelTypeOK' /\ CatalogComplete'
  BY <1>0, <1>2, <1>3 DEF ModelInvariant, ModelTypeOK, CatalogComplete
<1>6. Plan(t)' = Plan(t)
  BY <1>2, <1>4 DEF Plan
<1>7. Held(t)' = Held(t) \cup {Plan(t)[tx[t].at]}
  BY <1>0, <1>2, <1>4, <1>6 DEF Held, TxRows
<1>8. ASSUME NEW o \in Connections, o # t
      PROVE  /\ Held(o)' = Held(o)
             /\ \A l \in Held(o) : ~Conflicts(l, Plan(t)[tx[t].at]) /\ ~Conflicts(Plan(t)[tx[t].at], l)
  BY ZenonT(30), <1>4, <1>8, HeldLocks, ConflictsSymmetric DEF Acquire, Blocks
<1>9. LocksExclude'
  <2>1. ASSUME NEW o \in Connections, NEW q \in Connections, o # q, NEW l \in Held(o)', NEW k \in Held(q)'
        PROVE  ~Conflicts(l, k)
    BY <1>7, <1>8, <2>1 DEF ModelInvariant, LocksExclude
  <2> QED BY <2>1 DEF LocksExclude
<1>10. ASSUME NEW o \in Connections
       PROVE  Registering(o)'
  <2>1. tx[t].kind = "register" => \A m \in AccModels : default[m].active => Snapshot(t)[m] # "none"
    BY Zenon DEF Snapshot, Named
  <2> QED BY <1>2, <1>3, <1>4, <2>1 DEF ModelInvariant, Registering
<1> QED BY <1>3, <1>5, <1>9, <1>10 DEF ModelInvariant

\* The writes of a registration, a review and a start of a gateway.
LEMMA CommitStep ==
    ASSUME ModelInvariant, NEW t \in Connections, Commit(t) \/ Rollback(t)
    PROVE  /\ ModelInvariant'
           /\ \A u \in AccUsers, m \in AccModels :
                choice[u][m] # "none" /\ choice'[u][m] \notin {"none", choice[u][m]} =>
                    tx[t].kind \in {"all", "selected"} /\ tx'[t] = NoTx
<1> DEFINE Kept == \A u \in AccUsers, m \in AccModels : choice[u][m] # "none" => choice'[u][m] \in {"none", choice[u][m]}
<1>0. ModelTypeOK /\ tx[t] \in TxRows /\ NoTx \in TxRows /\ NoTx.at = 1 /\ NoTx.kind = "none" /\ NoRows \in [AccModels -> ModelChoices]
  BY Zenon, NoTransaction DEF ModelInvariant, ModelTypeOK
<1>1. ASSUME Over(t)
      PROVE  tx' = [tx EXCEPT ![t] = NoTx] /\ tx' \in [Connections -> TxRows]
  BY <1>0, <1>1 DEF Over, ModelTypeOK
<1>2. ASSUME Over(t), UNCHANGED <<default, member, choice>>
      PROVE  ModelInvariant' /\ Kept
  <2>1. ModelTypeOK' /\ CatalogComplete'
    BY Zenon, <1>0, <1>1, <1>2 DEF ModelInvariant, ModelTypeOK, CatalogComplete
  <2>2. ModelInvariant'
    BY ZenonT(30), <1>0, <1>1, <1>2, <2>1, TransactionTurns DEF ModelInvariant, Registering
  <2> QED BY <1>2, <2>2
<1>3. CASE Register(t)
  <2> DEFINE u == tx[t].user
  <2>1. /\ u \in AccUsers /\ member[u] = "none" /\ choice[u] = NoRows
        /\ \A m \in AccModels : default[m].active => tx[t].read[m] # "none"
        /\ \A o \in Connections : o # t /\ tx[o].kind = "register" => tx[o].user # u
    <3>1. Plan(t) = RegistrationLocks /\ Len(RegistrationLocks) = 2
      BY <1>3 DEF Register, Commits, Plan, RegistrationLocks
    <3>2. tx[t].kind = "register" /\ tx[t].at > 2
      BY <1>0, <1>3, <3>1 DEF Register, Commits, Waits, TxRows
    <3> QED BY <3>2 DEF ModelInvariant, Registering
  <2>2. PICK status \in {"pending", "active"} : member' = [member EXCEPT ![u] = status]
    BY ZenonT(30), <1>3 DEF Register
  <2>3. choice' = [choice EXCEPT ![u] = tx[t].read] /\ UNCHANGED default /\ tx[t].read \in [AccModels -> ModelChoices] /\ Over(t)
    BY Zenon, <1>0, <1>3 DEF Register, TxRows
  <2> HIDE DEF u
  <2>4. ModelTypeOK'
    BY Zenon, <1>0, <1>1, <2>1, <2>2, <2>3 DEF ModelTypeOK
  <2>5. CatalogComplete'
    BY Zenon, <1>0, <2>1, <2>2, <2>3 DEF CatalogComplete, ModelInvariant, ModelTypeOK
  <2>6. \A v \in AccUsers : member'[v] = "none" => choice'[v] = NoRows
    BY Zenon, <1>0, <2>1, <2>2, <2>3 DEF ModelInvariant, ModelTypeOK
  <2>7. ASSUME NEW o \in Connections, o # t, tx[o].kind = "register"
        PROVE  member'[tx[o].user] = "none"
    BY Zenon, <1>0, <2>1, <2>2, <2>7 DEF ModelInvariant, ModelTypeOK, Registering
  <2>8. ModelInvariant'
    BY Zenon, <1>0, <1>1, <2>3, <2>4, <2>5, <2>6, <2>7, TransactionTurns
  <2>9. Kept
    BY ZenonT(30), <1>0, <2>1, <2>3 DEF ModelTypeOK, NoRows
  <2> QED BY <2>8, <2>9
<1>4. CASE ReviewApplication(t)
  <2> DEFINE u == tx[t].user
  <2>1. CASE UNCHANGED <<member, choice>>
    <3>1. Over(t) /\ UNCHANGED default
      BY Zenon, <1>4 DEF ReviewApplication
    <3>2. member' = member /\ choice' = choice
      BY Zenon, <2>1
    <3> QED BY Zenon, <1>2, <3>1, <3>2
  <2>2. CASE ~UNCHANGED <<member, choice>>
    <3>1. /\ member[u] = "pending" /\ UNCHANGED default /\ Over(t)
          /\ \/ member' = [member EXCEPT ![u] = "active"] /\ choice' = choice
             \/ member' = [member EXCEPT ![u] = "none"] /\ choice' = [choice EXCEPT ![u] = NoRows]
      BY <1>4, <2>2 DEF ReviewApplication
    <3> HIDE DEF u
    <3>2. ModelTypeOK'
      BY ZenonT(30), <1>0, <1>1, <3>1 DEF ModelTypeOK
    <3>30. ASSUME NEW v \in AccUsers
           PROVE  \/ member'[v] = member[v] /\ choice'[v] = choice[v]
                  \/ member[v] = "pending" /\ member'[v] = "active" /\ choice'[v] = choice[v]
                  \/ member'[v] = "none" /\ choice'[v] = NoRows
      BY <1>0, <3>1 DEF ModelTypeOK
    <3>3. CatalogComplete' /\ \A v \in AccUsers : member'[v] = "none" => choice'[v] = NoRows
      BY <3>1, <3>30 DEF CatalogComplete, ModelInvariant
    <3>4. ASSUME NEW o \in Connections, o # t, tx[o].kind = "register"
          PROVE  member'[tx[o].user] = "none"
      BY ZenonT(30), <1>0, <3>1, <3>4 DEF ModelInvariant, ModelTypeOK, Registering
    <3>5. ModelInvariant'
      BY <1>0, <1>1, <3>1, <3>2, <3>3, <3>4, TransactionTurns
    <3>6. Kept
      BY <1>0, <3>1 DEF ModelTypeOK, NoRows
    <3> QED BY <3>5, <3>6
  <2> QED BY Zenon, <2>1, <2>2
<1>5. CASE SyncModelAccessCatalog(t)
  <2> DEFINE x == [tx[t] EXCEPT !.kind = "subscriptions", !.at = 1]
  <2>1. x \in TxRows /\ x.at = 1 /\ x.kind # "register"
    BY Zenon, <1>0 DEF TxRows, Kinds
  <2>2. tx' = [tx EXCEPT ![t] = x] /\ member' = member
    BY Zenon, <1>0, <1>5 DEF SyncModelAccessCatalog, ModelTypeOK
  <2> HIDE DEF x
  <2>3. default' \in [AccModels -> [listed : BOOLEAN, active : BOOLEAN, enabled : BOOLEAN]]
    <3>1. ASSUME NEW m \in AccModels
          PROVE  default'[m] \in [listed : BOOLEAN, active : BOOLEAN, enabled : BOOLEAN]
      <4> DEFINE l == default[m].listed \/ m \in tx[t].models
      <4> DEFINE a == m \in tx[t].models
      <4> DEFINE e == IF default[m].listed THEN default[m].enabled ELSE m \in tx[t].models
      <4>1. default'[m] = [listed |-> l, active |-> a, enabled |-> e]
        BY <1>5 DEF SyncModelAccessCatalog
      <4>2. default[m].enabled \in BOOLEAN
        BY <1>0 DEF ModelTypeOK
      <4>3. l \in BOOLEAN
        BY Zenon
      <4>4. a \in BOOLEAN
        OBVIOUS
      <4>5. e \in BOOLEAN
        <5>1. CASE default[m].listed
          BY <4>2, <5>1, Zenon
        <5>2. CASE ~default[m].listed
          BY <4>4, <5>2
        <5> QED BY <5>1, <5>2
      <4> HIDE DEF l, a, e
      <4> QED BY <4>1, <4>3, <4>4, <4>5
    <3> QED BY Zenon, <1>5, <3>1 DEF SyncModelAccessCatalog
  <2>4. choice' = [u \in AccUsers |-> [m \in AccModels |->
            IF member[u] # "none" /\ default'[m].active /\ choice[u][m] = "none"
            THEN Named(default'[m].enabled) ELSE choice[u][m]]]
    BY <1>5 DEF SyncModelAccessCatalog, Backfilled
  <2>5. \A b : Named(b) \in {"on", "off"}
    BY DEF Named
  <2>6. ModelTypeOK'
    BY <1>0, <2>1, <2>2, <2>3, <2>4, <2>5 DEF ModelTypeOK, ModelChoices
  <2>7. CatalogComplete'
    BY <2>2, <2>4, <2>5 DEF CatalogComplete
  <2>8. ASSUME NEW v \in AccUsers, member'[v] = "none"
        PROVE  choice'[v] = NoRows
    <3>1. choice[v] = NoRows
      BY <2>2, <2>8 DEF ModelInvariant
    <3> QED BY <2>2, <2>4, <2>8, <3>1 DEF NoRows
  <2>9. ASSUME NEW o \in Connections, o # t, tx[o].kind = "register"
        PROVE  member'[tx[o].user] = "none" /\ ~(tx[o].at > 2)
    BY <1>5, <2>2, <2>9, SyncExcludesRegistration DEF ModelInvariant, Registering, SyncModelAccessCatalog
  <2>10. ModelInvariant'
    BY Zenon, <2>1, <2>2, <2>6, <2>7, <2>8, <2>9, TransactionTurns
  <2>11. Kept
    BY <2>4
  <2> QED BY <2>10, <2>11
<1>6. CASE InitializeBillingSubscriptionModels(t)
  <2>1. CASE Over(t)
    BY <1>2, <1>6, <2>1 DEF InitializeBillingSubscriptionModels
  <2>2. CASE ~Over(t)
    <3> DEFINE x == [tx[t] EXCEPT !.kind = "scopes", !.at = 1]
    <3>1. x \in TxRows /\ x.at = 1 /\ x.kind # "register"
      BY Zenon, <1>0 DEF TxRows, Kinds
    <3>2. tx' = [tx EXCEPT ![t] = x] /\ UNCHANGED <<default, member, choice>>
      BY Zenon, <1>0, <1>6, <2>2 DEF InitializeBillingSubscriptionModels, ModelTypeOK
    <3> HIDE DEF x
    <3>3. ModelTypeOK' /\ CatalogComplete'
      BY <1>0, <3>1, <3>2 DEF ModelInvariant, ModelTypeOK, CatalogComplete
    <3>4. ModelInvariant'
      BY ZenonT(30), <3>1, <3>2, <3>3, TransactionTurns DEF ModelInvariant, Registering
    <3> QED BY <3>2, <3>4
  <2> QED BY <2>1, <2>2
<1>7. CASE InitializeBillingModelScopes(t)
  BY <1>2, <1>7 DEF InitializeBillingModelScopes
<1>8. CASE SetModelAccessDefaultsBatch(t)
  <2>1. UNCHANGED <<member, choice>> /\ Over(t)
    BY <1>8 DEF SetModelAccessDefaultsBatch
  <2>2. /\ default' \in [AccModels -> [listed : BOOLEAN, active : BOOLEAN, enabled : BOOLEAN]]
        /\ \A m \in AccModels : default'[m].active = default[m].active
    <3>1. tx[t].enabled \in BOOLEAN
      BY <1>0 DEF ModelTypeOK, TxRows
    <3>2. ASSUME NEW m \in AccModels
          PROVE  /\ default'[m] \in [listed : BOOLEAN, active : BOOLEAN, enabled : BOOLEAN]
                 /\ default'[m].active = default[m].active
      <4>1. default[m] \in [listed : BOOLEAN, active : BOOLEAN, enabled : BOOLEAN]
        BY <1>0 DEF ModelTypeOK
      <4>2. default'[m] \in {[default[m] EXCEPT !.enabled = tx[t].enabled], default[m]}
        BY <1>8 DEF SetModelAccessDefaultsBatch
      <4> QED BY <3>1, <4>1, <4>2
    <3> QED BY <1>8, <3>2 DEF SetModelAccessDefaultsBatch
  <2>3. ModelTypeOK' /\ CatalogComplete'
    BY Zenon, <1>0, <1>1, <2>1, <2>2 DEF ModelInvariant, ModelTypeOK, CatalogComplete
  <2>4. ModelInvariant'
    BY Zenon, <1>0, <1>1, <2>1, <2>2, <2>3, TransactionTurns DEF ModelInvariant, Registering
  <2> QED BY <2>1, <2>4
<1>9. CASE SetUserModelAccessBatch(t)
  <2>1. UNCHANGED <<member, default>> /\ Over(t) /\ tx[t].kind \in {"all", "selected"}
    BY <1>9 DEF SetUserModelAccessBatch, Commits
  <2>2. \A b : Named(b) \in {"on", "off"}
    BY DEF Named
  <2>3. PICK valid : choice' = [u \in AccUsers |-> [m \in AccModels |->
            IF valid /\ u \in Targets(t) /\ m \in tx[t].models THEN Named(tx[t].enabled) ELSE choice[u][m]]]
    BY ZenonT(30), <1>9 DEF SetUserModelAccessBatch
  <2>4. /\ choice' \in [AccUsers -> [AccModels -> ModelChoices]]
        /\ \A u \in AccUsers, m \in AccModels : choice[u][m] # "none" => choice'[u][m] # "none"
    BY Zenon, <1>0, <2>2, <2>3 DEF ModelTypeOK, ModelChoices
  <2>5. ASSUME NEW u \in AccUsers, member'[u] = "none"
        PROVE  choice'[u] = NoRows
    <3>1. choice[u] = NoRows /\ u \notin Targets(t)
      BY Zenon, <2>1, <2>5 DEF ModelInvariant, Targets
    <3> QED BY Zenon, <2>3, <3>1 DEF NoRows
  <2>6. ModelTypeOK' /\ CatalogComplete'
    BY Zenon, <1>0, <1>1, <2>1, <2>4 DEF ModelInvariant, ModelTypeOK, CatalogComplete
  <2>7. ModelInvariant'
    BY Zenon, <1>0, <1>1, <2>1, <2>5, <2>6, TransactionTurns DEF ModelInvariant, Registering
  <2>8. tx'[t] = NoTx
    BY Zenon, <1>0, <1>1, <2>1 DEF ModelTypeOK
  <2> QED BY Zenon, <2>1, <2>7, <2>8
<1>10. CASE Rollback(t)
  BY ZenonT(30), <1>2, <1>10 DEF Rollback
<1> QED BY ZenonT(30), <1>3, <1>4, <1>5, <1>6, <1>7, <1>8, <1>9, <1>10 DEF Commit, StartUp

\* Every step keeps the invariant, and only a batch of the owner changes a choice.
LEMMA ModelStep ==
    ASSUME ModelInvariant, [ModelNext]_modelVars
    PROVE  /\ ModelInvariant'
           /\ \A u \in AccUsers, m \in AccModels :
                choice[u][m] # "none" /\ choice'[u][m] \notin {"none", choice[u][m]} =>
                    \E t \in Connections : tx[t].kind \in {"all", "selected"} /\ tx'[t] = NoTx
<1>1. ASSUME NEW t \in Connections,
             \/ BeginSync(t) \/ BeginBatch(t)
             \/ \E u \in AccUsers : BeginRegister(t, u) \/ BeginReview(t, u)
      PROVE  ModelInvariant' /\ choice' = choice
  BY Zenon, <1>1, BeginStep DEF BeginSync, BeginBatch, BeginRegister, BeginReview, Begin
<1>2. ASSUME NEW t \in Connections, Acquire(t)
      PROVE  ModelInvariant' /\ choice' = choice
  BY ZenonT(30), <1>2, AcquireStep DEF Acquire
<1>3. ASSUME UNCHANGED <<default, member, choice, tx>>
      PROVE  ModelInvariant'
  <2>1. \A t \in Connections : Held(t)' = Held(t)
    BY Zenon, <1>3, HeldLocks
  <2>2. LocksExclude'
    BY <2>1 DEF LocksExclude, ModelInvariant
  <2> QED BY ZenonT(30), <1>3, <2>2 DEF ModelInvariant, ModelTypeOK, CatalogComplete, Registering
<1>4. ASSUME NEW name \in ScopeNames, NEW models \in SUBSET AccModels, SetScope(name, models)
      PROVE  ModelInvariant' /\ choice' = choice
  BY <1>3, <1>4 DEF SetScope
<1>5. CASE UNCHANGED modelVars
  BY Zenon, <1>3, <1>5 DEF modelVars
<1>6. ASSUME NEW t \in Connections, Commit(t) \/ Rollback(t)
      PROVE  /\ ModelInvariant'
             /\ \A u \in AccUsers, m \in AccModels :
                  choice[u][m] # "none" /\ choice'[u][m] \notin {"none", choice[u][m]} =>
                      \E q \in Connections : tx[q].kind \in {"all", "selected"} /\ tx'[q] = NoTx
  BY <1>6, CommitStep
<1> QED BY Zenon, <1>1, <1>2, <1>4, <1>5, <1>6 DEF ModelNext

\* Nothing is in progress at first.
LEMMA ModelStart ==
    ASSUME ModelInit
    PROVE  ModelInvariant
<1>1. NoTx \in TxRows /\ NoTx.at = 1 /\ NoTx.kind = "none" /\ NoRows \in [AccModels -> ModelChoices]
  BY Zenon, NoTransaction
<1>2. ModelTypeOK /\ \A t \in Connections : tx[t] = NoTx
  BY Zenon, <1>1 DEF ModelInit, ModelTypeOK
<1>3. \A t \in Connections : Held(t) = {}
  BY <1>1, <1>2 DEF Held
<1>4. LocksExclude
  BY <1>3 DEF LocksExclude
<1> QED BY <1>1, <1>2, <1>4 DEF ModelInvariant, ModelInit, Registering, CatalogComplete

\* A user never lacks a row for an active model, however registrations,
\* reviews, starting gateways and the owner's batches interleave, and nothing
\* but a batch changes a choice that was made.
THEOREM DefaultsFillGapsHolds == ModelSpec => []CatalogComplete /\ DefaultsFillGaps
<1>1. ModelInit => ModelInvariant
  BY Zenon, ModelStart
<1>2. ModelInvariant /\ [ModelNext]_modelVars => ModelInvariant' /\ [ChoicesKept]_modelVars
  BY ModelStep DEF ChoicesKept
<1>3. ModelInvariant => CatalogComplete
  BY DEF ModelInvariant
<1>4. ModelInvariant /\ [ModelNext]_modelVars => [CatalogComplete' /\ ChoicesKept]_modelVars
  BY <1>2 DEF ModelInvariant
<1> QED BY <1>1, <1>2, <1>3, <1>4, PTL DEF ModelSpec, DefaultsFillGaps

\* The order in which every transaction takes its locks: the catalogue, the
\* users, then the rows of a user or of the models, then the rows of choices.
LockRank(l) ==
    IF l.what = "defaults" THEN 1
    ELSE IF l.what = "users" THEN 2
    ELSE IF l.what \in {"user", "models"} THEN 3 ELSE 4

\* Locks of two parts of a transaction.
LEMMA LocksJoined ==
    ASSUME NEW a, NEW b, NEW c
    PROVE  <<a>> \o <<b>> = <<a, b>> /\ <<a, b>> \o <<c>> = <<a, b, c>>
<1>1. <<a>> \in Seq({a, b, c}) /\ <<b>> \in Seq({a, b, c}) /\ <<c>> \in Seq({a, b, c}) /\ <<a, b>> \in Seq({a, b, c})
  OBVIOUS
<1>2. Len(<<a>> \o <<b>>) = 2 /\ (<<a>> \o <<b>>)[1] = a /\ (<<a>> \o <<b>>)[2] = b /\ <<a>> \o <<b>> \in Seq({a, b, c})
  BY <1>1
<1>3. <<a, b>> \o <<c>> \in Seq({a, b, c}) /\ Len(<<a, b>> \o <<c>>) = 3
  BY <1>1
<1>4. (<<a, b>> \o <<c>>)[1] = a /\ (<<a, b>> \o <<c>>)[2] = b /\ (<<a, b>> \o <<c>>)[3] = c
  BY <1>1
<1>5. ASSUME NEW s \in Seq({a, b, c}), Len(s) = 2, s[1] = a, s[2] = b
      PROVE  s = <<a, b>>
  BY <1>5
<1>6. ASSUME NEW s \in Seq({a, b, c}), Len(s) = 3, s[1] = a, s[2] = b, s[3] = c
      PROVE  s = <<a, b, c>>
  BY <1>6
<1> QED BY Zenon, <1>2, <1>3, <1>4, <1>5, <1>6

\* What a transaction locks, in its order.
LEMMA PlanOf ==
    ASSUME NEW t
    PROVE  \/ Plan(t) = <<>>
           \/ \E a : LockRank(a) = 1 /\ Plan(t) = <<a>>
           \/ \E a, b : LockRank(a) < LockRank(b) /\ Plan(t) = <<a, b>>
           \/ \E a, b, c : LockRank(a) < LockRank(b) /\ LockRank(b) < LockRank(c) /\ Plan(t) = <<a, b, c>>
<1>1. \A m, v :
        /\ LockRank(Lock("defaults", m, v)) = 1
        /\ LockRank(Lock("users", m, v)) = 2
        /\ LockRank(Lock("user", m, v)) = 3
        /\ LockRank(Lock("models", m, v)) = 3
        /\ LockRank(Lock("choices", m, v)) = 4
  BY DEF LockRank, Lock
<1>2. 1 < 2 /\ 1 < 3 /\ 2 < 3 /\ 2 < 4 /\ 3 < 4
  OBVIOUS
<1>3. ASSUME NEW a, NEW b, LockRank(a) < LockRank(b), Plan(t) = <<a, b>> \/ Plan(t) = <<a>> \o <<b>>
      PROVE  \E x, y : LockRank(x) < LockRank(y) /\ Plan(t) = <<x, y>>
  <2>1. <<a>> \o <<b>> = <<a, b>>
    BY Zenon, LocksJoined
  <2> QED BY Zenon, <1>3, <2>1
<1>4. ASSUME NEW a, NEW b, NEW c, LockRank(a) < LockRank(b), LockRank(b) < LockRank(c),
             Plan(t) = <<a, b, c>> \/ Plan(t) = <<a, b>> \o <<c>>
      PROVE  \E x, y, z : LockRank(x) < LockRank(y) /\ LockRank(y) < LockRank(z) /\ Plan(t) = <<x, y, z>>
  <2>1. <<a, b>> \o <<c>> = <<a, b, c>>
    BY Zenon, LocksJoined
  <2> QED BY Zenon, <1>4, <2>1
<1>5. CASE tx[t].kind = "register"
  BY ZenonT(30), <1>1, <1>2, <1>3, <1>5 DEF Plan, RegistrationLocks
<1>6. CASE tx[t].kind = "review"
  <2>1. Plan(t) = ReviewLocks(tx[t].user)
    BY <1>6 DEF Plan
  <2> DEFINE a == Lock("users", "row_exclusive", "all")
  <2> DEFINE b == Lock("user", "row", tx[t].user)
  <2> DEFINE c == Lock("choices", "row", "all")
  <2>2. Plan(t) = <<a, b, c>>
    BY Zenon, <2>1 DEF ReviewLocks
  <2>3. LockRank(a) < LockRank(b) /\ LockRank(b) < LockRank(c)
    BY ZenonT(30), <1>1, <1>2
  <2> HIDE DEF a, b, c
  <2> QED BY Zenon, <1>4, <2>2, <2>3
<1>7. CASE tx[t].kind = "sync"
  <2>1. Plan(t) = SyncLocks \o BackfillLocks
    BY <1>7 DEF Plan
  <2> DEFINE a == Lock("defaults", "share_row_exclusive", "all")
  <2> DEFINE b == Lock("users", "share_row_exclusive", "all")
  <2> DEFINE c == Lock("choices", "row", "all")
  <2>2. Plan(t) = <<a, b>> \o <<c>>
    BY Zenon, <2>1 DEF SyncLocks, BackfillLocks
  <2>3. LockRank(a) < LockRank(b) /\ LockRank(b) < LockRank(c)
    BY Zenon, <1>1, <1>2
  <2> HIDE DEF a, b, c
  <2> QED BY Zenon, <1>4, <2>2, <2>3
<1>8. CASE tx[t].kind = "all"
  <2>1. Plan(t) = lockModelAccessBatch \o <<Lock("users", "share_row_exclusive", "all")>>
    BY <1>8 DEF Plan
  <2> DEFINE a == Lock("defaults", "share_row_exclusive", "all")
  <2> DEFINE b == Lock("users", "share_row_exclusive", "all")
  <2>2. Plan(t) = <<a>> \o <<b>>
    BY Zenon, <2>1 DEF lockModelAccessBatch
  <2>3. LockRank(a) < LockRank(b)
    BY Zenon, <1>1, <1>2
  <2> HIDE DEF a, b
  <2> QED BY Zenon, <1>3, <2>2, <2>3
<1>9. CASE tx[t].kind = "selected"
  <2>1. Plan(t) = lockModelAccessBatch \o <<Lock("user", "row", tx[t].user)>>
    BY <1>9 DEF Plan
  <2> DEFINE a == Lock("defaults", "share_row_exclusive", "all")
  <2> DEFINE b == Lock("user", "row", tx[t].user)
  <2>2. Plan(t) = <<a>> \o <<b>>
    BY Zenon, <2>1 DEF lockModelAccessBatch
  <2>3. LockRank(a) < LockRank(b)
    BY Zenon, <1>1, <1>2
  <2> HIDE DEF a, b
  <2> QED BY Zenon, <1>3, <2>2, <2>3
<1>10. CASE tx[t].kind \in {"defaults", "subscriptions", "scopes"}
  <2>1. Plan(t) = lockModelAccessBatch \/ Plan(t) = <<Lock("defaults", "share", "all")>>
    BY <1>10 DEF Plan
  <2> QED BY Zenon, <1>1, <2>1 DEF lockModelAccessBatch
<1>11. CASE tx[t].kind \notin {"register", "review", "sync", "all", "selected", "defaults", "subscriptions", "scopes"}
  <2>1. Plan(t) = <<>>
    BY <1>11 DEF Plan
  <2> QED BY <2>1
<1> QED BY Zenon, <1>5, <1>6, <1>7, <1>8, <1>9, <1>10, <1>11

\* No transaction takes a lock out of the order.
LEMMA LocksInOrder ==
    ASSUME NEW t
    PROVE  /\ Len(Plan(t)) \in Nat
           /\ \A i, j \in 1..Len(Plan(t)) : i < j => LockRank(Plan(t)[i]) < LockRank(Plan(t)[j])
<1>1. CASE Plan(t) = <<>>
  <2>1. Len(<<>>) = 0
    OBVIOUS
  <2> QED BY <1>1, <2>1
<1>2. ASSUME NEW a, Plan(t) = <<a>>
      PROVE  Len(Plan(t)) = 1
  BY <1>2
<1>3. ASSUME NEW a, NEW b, LockRank(a) < LockRank(b), Plan(t) = <<a, b>>
      PROVE  /\ Len(Plan(t)) \in Nat
             /\ \A i, j \in 1..Len(Plan(t)) : i < j => LockRank(Plan(t)[i]) < LockRank(Plan(t)[j])
  <2>1. Len(<<a, b>>) = 2 /\ <<a, b>>[1] = a /\ <<a, b>>[2] = b
    OBVIOUS
  <2> QED BY <1>3, <2>1
<1>4. ASSUME NEW a, NEW b, NEW c, LockRank(a) < LockRank(b), LockRank(b) < LockRank(c), Plan(t) = <<a, b, c>>
      PROVE  /\ Len(Plan(t)) \in Nat
             /\ \A i, j \in 1..Len(Plan(t)) : i < j => LockRank(Plan(t)[i]) < LockRank(Plan(t)[j])
  <2>1. Len(<<a, b, c>>) = 3 /\ <<a, b, c>>[1] = a /\ <<a, b, c>>[2] = b /\ <<a, b, c>>[3] = c
    OBVIOUS
  <2>2. LockRank(a) \in 1..4 /\ LockRank(b) \in 1..4 /\ LockRank(c) \in 1..4
    BY DEF LockRank
  <2> QED BY <1>4, <2>1, <2>2
<1>5. Len(Plan(t)) = 1 => /\ Len(Plan(t)) \in Nat
                          /\ \A i, j \in 1..Len(Plan(t)) : i < j => LockRank(Plan(t)[i]) < LockRank(Plan(t)[j])
  OBVIOUS
<1> QED BY Zenon, <1>1, <1>2, <1>3, <1>4, <1>5, PlanOf

\* A transaction that waits for a lock another one holds waits earlier in the
\* order than that one, if that one waits at all.
LEMMA WaitsFurther ==
    ASSUME ModelTypeOK, NEW t \in Connections, NEW o \in Connections, Blocks(o, t), Waits(o)
    PROVE  LockRank(Plan(t)[tx[t].at]) < LockRank(Plan(o)[tx[o].at])
<1>1. PICK i \in 1..(tx[o].at - 1) : Conflicts(Plan(o)[i], Plan(t)[tx[t].at])
  BY Zenon DEF Blocks, Held
<1>2. LockRank(Plan(o)[i]) = LockRank(Plan(t)[tx[t].at])
  BY Zenon, <1>1 DEF Conflicts, LockRank
<1>3. tx[o].at \in Nat \ {0}
  BY DEF ModelTypeOK, TxRows
<1>4. i \in 1..Len(Plan(o)) /\ tx[o].at \in 1..Len(Plan(o)) /\ i < tx[o].at
  BY <1>1, <1>3, LocksInOrder DEF Waits
<1> QED BY Zenon, <1>2, <1>4, LocksInOrder

\* Among transactions that all wait there is one that waits for none of them.
LEMMA NoLockCycleNow ==
    ASSUME ModelTypeOK
    PROVE  NoLockCycle
<1> SUFFICES ASSUME NEW waiting \in (SUBSET Connections) \ {{}}
             PROVE  \E t \in waiting : ~\E o \in waiting : Blocks(o, t)
  BY Zenon DEF NoLockCycle
<1>0. \E a : a \in waiting
  OBVIOUS
<1> SUFFICES ASSUME \A t \in waiting : \E o \in waiting : Blocks(o, t)
             PROVE  FALSE
  BY Zenon
<1> DEFINE R(t) == LockRank(Plan(t)[tx[t].at])
<1>1. \A t \in waiting : R(t) \in 1..4
  BY DEF LockRank
<1>2. \A t \in waiting : Waits(t)
  BY Zenon DEF Blocks
<1>3. \A t \in waiting : \E o \in waiting : R(t) < R(o)
  BY Zenon, <1>2, WaitsFurther
<1> HIDE DEF R
<1>4. PICK a \in waiting : TRUE
  BY Zenon, <1>0
<1>5. PICK b \in waiting : R(a) < R(b)
  BY Zenon, <1>3
<1>6. PICK c \in waiting : R(b) < R(c)
  BY Zenon, <1>3
<1>7. PICK d \in waiting : R(c) < R(d)
  BY Zenon, <1>3
<1>8. PICK e \in waiting : R(d) < R(e)
  BY Zenon, <1>3
<1> QED BY <1>1, <1>5, <1>6, <1>7, <1>8

\* Registrations, reviews, starting gateways and the owner's batches never
\* wait for each other in a circle, however many run at once.
THEOREM NoLockCycleHolds == ModelSpec => []NoLockCycle
<1>1. ModelInit => ModelInvariant
  BY Zenon, ModelStart
<1>2. ModelInvariant /\ [ModelNext]_modelVars => ModelInvariant'
  BY Zenon, ModelStep
<1>3. ModelInvariant => NoLockCycle
  BY Zenon, NoLockCycleNow DEF ModelInvariant
<1> QED BY <1>1, <1>2, <1>3, PTL DEF ModelSpec

-----------------------------------------------------------------------------
(* The quota guard.  A decision taken at an instant stays right as time    *)
(* goes on, because a window that is closed at an instant stays closed.    *)

GuardFields == {"status", "source", "restore", "seen", "checked", "next"}

\* The property of one row, under a percentage and at an instant.
Agrees(row, p, t) ==
    row.source = "auto" /\ row.seen # NotObserved =>
        IF row.status = "limited"
        THEN /\ \E w \in Windows : row.seen.win[w] # NotReported /\ Margin(row.seen.win[w], p) <= 0
             /\ \A w \in Windows : Tripped(row.seen.win[w], p, t) => row.restore >= row.seen.win[w].reset + RestoreDelay
        ELSE \A w \in Windows : ~Tripped(row.seen.win[w], p, t)

RowAgrees(a) ==
    /\ DOMAIN guard[a] = GuardFields
    /\ guard[a].seen # NotObserved => guard[a].seen.win \in Reports
    /\ Agrees(guard[a], percent, now)

CheckTimed(s, a) ==
    DOMAIN check[s][a] = {"phase", "at", "next"} /\ check[s][a].at \in Nat /\ check[s][a].at <= now

GuardTypes ==
    /\ now \in Nat /\ percent \in 0..50
    /\ DOMAIN guard = GuardAccounts /\ DOMAIN check = Servers
    /\ \A s \in Servers : DOMAIN check[s] = GuardAccounts

GuardInvariant ==
    /\ GuardTypes
    /\ \A a \in GuardAccounts : RowAgrees(a)
    /\ \A s \in Servers, a \in GuardAccounts : CheckTimed(s, a)

-----------------------------------------------------------------------------
\* The largest of two numbers or fewer.
LEMMA MaxOfTwo ==
    ASSUME NEW S \in SUBSET Int, S # {}, NEW x, NEW y, S \subseteq {x, y}
    PROVE  Max(S) \in S /\ \A z \in S : z <= Max(S)
<1>1. \E m \in S : \A z \in S : m >= z
  <2>1. CASE x \notin S
    <3>1. y \in S /\ y \in Int /\ \A z \in S : z = y
      BY Zenon, <2>1
    <3>2. y >= y
      BY <3>1
    <3> QED BY <3>1, <3>2
  <2>2. CASE y \notin S
    <3>1. x \in S /\ x \in Int /\ \A z \in S : z = x
      BY Zenon, <2>2
    <3>2. x >= x
      BY <3>1
    <3> QED BY <3>1, <3>2
  <2>3. CASE x \in S /\ y \in S
    <3>1. x \in Int /\ y \in Int
      BY <2>3
    <3>2. CASE x >= y
      BY <2>3, <3>1, <3>2
    <3>3. CASE y >= x
      BY <2>3, <3>1, <3>3
    <3> QED BY <3>1, <3>2, <3>3
  <2> QED BY <2>1, <2>2, <2>3
<1>2. Max(S) \in S /\ \A z \in S : Max(S) >= z
  BY Zenon, <1>1 DEF Max
<1> QED BY <1>2

\* Windows of a reading.
LEMMA WindowType ==
    ASSUME NEW f \in Reports, NEW w \in Windows
    PROVE  f[w].used \in -1..100 /\ f[w].reset \in Nat \cup {Never}
BY GuardAssumption DEF Windows

\* A window that trips the guard at an instant also did earlier.
LEMMA TripsEarlier ==
    ASSUME NEW f \in Reports, NEW w \in Windows, NEW p, NEW at \in Nat, NEW t \in Nat, at <= t, Tripped(f[w], p, t)
    PROVE  Tripped(f[w], p, at)
<1>1. f[w].reset \in Nat \cup {Never}
  BY WindowType
<1>2. f[w].reset > t => f[w].reset > at
  BY <1>1 DEF Never
<1> QED BY <1>2 DEF Tripped, Current

\* A limited account stays out until RestoreDelay after each window that
\* tripped the guard has reset.
LEMMA RestoredLateEnough ==
    ASSUME NEW f \in Reports, NEW obs, obs.win = f, NEW p, NEW at \in Nat, NEW w \in Windows, Tripped(f[w], p, at)
    PROVE  RestoreTime(obs, p, at) >= f[w].reset + RestoreDelay
<1> DEFINE tripped == {obs.win[v] : v \in {v \in Windows : Tripped(obs.win[v], p, at)}}
<1> DEFINE resets == {x.reset : x \in tripped} \ {Never}
<1> DEFINE hold == IF \E x \in tripped : x.reset = Never THEN {at + UnknownResetHold} ELSE {}
<1> DEFINE ends == hold \cup (IF resets = {} THEN {} ELSE {Max(resets) + RestoreDelay})
<1>1. RestoreTime(obs, p, at) = Max(ends)
  BY DEF RestoreTime
<1>2. obs.win = f
  OBVIOUS
<1>3. f[w] \in tripped /\ tripped \subseteq {f["five_hour"], f["seven_day"]}
  BY Zenon, <1>2 DEF Windows
<1>4. \A x \in tripped : x.reset \in Nat \cup {Never}
  BY Zenon, <1>3, WindowType DEF Windows
<1> HIDE DEF tripped
<1>5. resets \subseteq Nat /\ resets \subseteq {f["five_hour"].reset, f["seven_day"].reset}
  BY <1>3, <1>4
<1>12. ASSUME resets # {} PROVE Max(resets) \in resets /\ \A z \in resets : z <= Max(resets)
  <2> HIDE DEF resets
  <2>1. resets \in SUBSET Int
    BY <1>5
  <2> QED BY Zenon, <1>5, <1>12, <2>1, MaxOfTwo
<1>6. RestoreDelay \in Nat /\ UnknownResetHold \in Nat /\ RestoreDelay <= UnknownResetHold
  BY GuardAssumption
<1>7. hold \subseteq {at + UnknownResetHold}
  BY Zenon
<1>8. CASE f[w].reset = Never
  <2>1. at + UnknownResetHold \in hold
    BY Zenon, <1>3, <1>8
  <2> HIDE DEF hold
  <2>2. CASE resets = {}
    <3>1. ends = {at + UnknownResetHold}
      BY Zenon, <1>7, <2>1, <2>2
    <3> HIDE DEF ends
    <3>2. Max(ends) \in ends
      <4>1. ends \in SUBSET Int /\ ends # {} /\ ends \subseteq {at + UnknownResetHold, at + UnknownResetHold}
        BY <1>6, <3>1
      <4> QED BY <4>1, MaxOfTwo
    <3> QED BY <1>1, <1>6, <1>8, <3>1, <3>2 DEF Never
  <2>3. CASE resets # {}
    <3>1. Max(resets) \in Nat
      BY <1>5, <1>12, <2>3
    <3>2. ends = {at + UnknownResetHold, Max(resets) + RestoreDelay}
      BY Zenon, <1>7, <2>1, <2>3
    <3> HIDE DEF ends, resets
    <3>3. ends \in SUBSET Int /\ ends # {}
      BY <1>6, <3>1, <3>2
    <3>4. Max(ends) \in Int /\ at + UnknownResetHold <= Max(ends)
      BY ZenonT(30), <3>2, <3>3, MaxOfTwo
    <3> QED BY <1>1, <1>6, <1>8, <3>4 DEF Never
  <2> QED BY Zenon, <2>2, <2>3
<1>9. CASE f[w].reset # Never
  <2>1. f[w].reset \in resets
    BY Zenon, <1>3, <1>9
  <2>2. Max(resets) \in Nat /\ f[w].reset <= Max(resets) /\ f[w].reset \in Nat
    BY Zenon, <1>5, <1>12, <2>1
  <2> HIDE DEF hold
  <2>3. Max(resets) + RestoreDelay \in ends /\ ends \subseteq {at + UnknownResetHold, Max(resets) + RestoreDelay}
    BY Zenon, <1>7, <2>1
  <2> HIDE DEF ends, resets
  <2>4. ends \in SUBSET Int /\ ends # {}
    BY <1>6, <2>2, <2>3
  <2>5. Max(ends) \in Int /\ Max(resets) + RestoreDelay <= Max(ends)
    BY Zenon, <2>3, <2>4, MaxOfTwo
  <2> QED BY <1>1, <1>6, <2>2, <2>5
<1> QED BY Zenon, <1>8, <1>9

\* What the rule says of a reading agrees with it from that instant on.
LEMMA DecisionAgrees ==
    ASSUME NEW f \in Reports, NEW obs, obs.win = f, NEW prev, NEW p \in 0..50, NEW at \in Nat, NEW t \in Nat, at <= t,
           NEW row, row.seen = obs,
           row.status = StatusOf(evaluateUpstreamQuotaGuard(obs, prev, p, at).limited),
           row.restore = evaluateUpstreamQuotaGuard(obs, prev, p, at).restore
    PROVE  Agrees(row, p, t)
<1> DEFINE d == evaluateUpstreamQuotaGuard(obs, prev, p, at)
<1>0. row.seen.win = f /\ obs.win = f
  BY Zenon
<1>1. CASE \E w \in Windows : Tripped(f[w], p, at)
  <2>1. d.limited = TRUE /\ d.restore = RestoreTime(obs, p, at)
    BY Zenon, <1>0, <1>1 DEF evaluateUpstreamQuotaGuard
  <2>2. row.status = "limited" /\ row.restore = RestoreTime(obs, p, at)
    BY Zenon, <2>1 DEF StatusOf
  <2>3. PICK w \in Windows : Tripped(f[w], p, at)
    BY Zenon, <1>1
  <2>4. f[w] # NotReported /\ Margin(f[w], p) <= 0
    <3>1. f[w] # NotReported /\ 100 - f[w].used <= p
      BY Zenon, <2>3 DEF Tripped, Current
    <3>2. f[w].used \in Int
      BY WindowType
    <3> QED BY <3>1, <3>2 DEF Margin
  <2>5. ASSUME NEW v \in Windows, Tripped(f[v], p, t)
        PROVE  RestoreTime(obs, p, at) >= f[v].reset + RestoreDelay
    BY Zenon, <2>5, TripsEarlier, RestoredLateEnough
  <2> HIDE DEF d
  <2> QED BY Zenon, <1>0, <2>2, <2>4, <2>5 DEF Agrees
<1>2. CASE ~\E w \in Windows : Tripped(f[w], p, at)
  <2>1. d.limited = FALSE
    BY Zenon, <1>0, <1>2 DEF evaluateUpstreamQuotaGuard
  <2>2. row.status = "available"
    BY Zenon, <2>1 DEF StatusOf
  <2>3. \A v \in Windows : ~Tripped(f[v], p, t)
    BY Zenon, <1>2, TripsEarlier
  <2> HIDE DEF d
  <2> QED BY Zenon, <1>0, <2>2, <2>3 DEF Agrees
<1> QED BY Zenon, <1>1, <1>2

\* A row that agrees keeps agreeing as time goes on.
LEMMA AgreesLater ==
    ASSUME NEW row, row.seen # NotObserved => row.seen.win \in Reports, NEW p, NEW t \in Nat, NEW u \in Nat, t <= u,
           Agrees(row, p, t)
    PROVE  Agrees(row, p, u)
<1> SUFFICES ASSUME row.source = "auto", row.seen # NotObserved
             PROVE  Agrees(row, p, u)
  BY DEF Agrees
<1>1. \A w \in Windows : Tripped(row.seen.win[w], p, u) => Tripped(row.seen.win[w], p, t)
  BY ZenonT(30), TripsEarlier
<1> QED BY ZenonT(30), <1>1 DEF Agrees

\* Instants between two instants.
LEMMA InstantsBetween ==
    ASSUME NEW x \in Nat, NEW y \in Nat, NEW r \in x..y
    PROVE  r \in Nat
  OBVIOUS

\* A row of which source, reading, status and restore time stay.
LEMMA AgreesAlike ==
    ASSUME NEW row, NEW new, new.source = row.source, new.seen = row.seen, new.status = row.status,
           new.restore = row.restore, NEW p, NEW t, Agrees(row, p, t)
    PROVE  Agrees(new, p, t)
<1> SUFFICES ASSUME row.source = "auto", row.seen # NotObserved
             PROVE  Agrees(new, p, t)
  BY Zenon DEF Agrees
<1>1. CASE row.status = "limited"
  BY Zenon, <1>1 DEF Agrees
<1>2. CASE row.status # "limited"
  BY Zenon, <1>2 DEF Agrees
<1> QED BY Zenon, <1>1, <1>2

-----------------------------------------------------------------------------
\* One row is written.
LEMMA RowWritten ==
    ASSUME GuardInvariant, NEW a \in GuardAccounts, NEW row, guard' = [guard EXCEPT ![a] = row],
           DOMAIN row = GuardFields, row.seen # NotObserved => row.seen.win \in Reports, Agrees(row, percent, now),
           UNCHANGED <<percent, now>>
    PROVE  DOMAIN guard' = GuardAccounts /\ \A b \in GuardAccounts : RowAgrees(b)'
<1>1. DOMAIN guard' = GuardAccounts /\ guard'[a] = row /\ \A b \in GuardAccounts : b # a => guard'[b] = guard[b]
  BY DEF GuardInvariant, GuardTypes
<1>2. RowAgrees(a)'
  BY ZenonT(30), <1>1 DEF RowAgrees
<1>3. ASSUME NEW b \in GuardAccounts, b # a PROVE RowAgrees(b)'
  BY <1>1, <1>3 DEF GuardInvariant, RowAgrees
<1> QED BY <1>1, <1>2, <1>3

\* One goroutine moves.
LEMMA CheckMoved ==
    ASSUME GuardInvariant, NEW s \in Servers, NEW a \in GuardAccounts, NEW c, check' = [check EXCEPT ![s][a] = c],
           DOMAIN c = {"phase", "at", "next"}, c.at \in Nat, c.at <= now, UNCHANGED now
    PROVE  /\ DOMAIN check' = Servers /\ \A x \in Servers : DOMAIN check'[x] = GuardAccounts
           /\ \A x \in Servers, b \in GuardAccounts : CheckTimed(x, b)'
<1> DEFINE line == [check[s] EXCEPT ![a] = c]
<1>0. DOMAIN check = Servers /\ DOMAIN check[s] = GuardAccounts
  BY DEF GuardInvariant, GuardTypes
<1>1. check' = [check EXCEPT ![s] = line]
  BY <1>0
<1>2. DOMAIN line = GuardAccounts /\ line[a] = c /\ \A b \in GuardAccounts : b # a => line[b] = check[s][b]
  BY <1>0
<1> HIDE DEF line
<1>3. DOMAIN check' = Servers /\ check'[s] = line /\ \A x \in Servers : x # s => check'[x] = check[x]
  BY Zenon, <1>0, <1>1
<1>4. \A x \in Servers : DOMAIN check'[x] = GuardAccounts
  BY Zenon, <1>2, <1>3 DEF GuardInvariant, GuardTypes
<1>5. ASSUME NEW x \in Servers, NEW b \in GuardAccounts PROVE CheckTimed(x, b)'
  <2>1. CheckTimed(x, b)
    BY DEF GuardInvariant
  <2>2. check'[x][b] \in {check[x][b], c}
    BY Zenon, <1>2, <1>3
  <2> QED BY <2>1, <2>2 DEF CheckTimed
<1> QED BY <1>3, <1>4, <1>5

\* Checks under way are not disturbed by the clock.
LEMMA ChecksStay ==
    ASSUME GuardInvariant, UNCHANGED check, now' \in Nat, now <= now'
    PROVE  /\ DOMAIN check' = Servers /\ \A x \in Servers : DOMAIN check'[x] = GuardAccounts
           /\ \A x \in Servers, b \in GuardAccounts : CheckTimed(x, b)'
<1>1. ASSUME NEW x \in Servers, NEW b \in GuardAccounts PROVE CheckTimed(x, b)'
  <2>1. CheckTimed(x, b) /\ now \in Nat
    BY DEF GuardInvariant, GuardTypes
  <2> QED BY <2>1 DEF CheckTimed
<1> QED BY <1>1 DEF GuardInvariant, GuardTypes

\* Guard rows and settings that are left alone still agree.
LEMMA RowsStay ==
    ASSUME GuardInvariant, UNCHANGED <<guard, percent>>, now' \in Nat, now <= now'
    PROVE  DOMAIN guard' = GuardAccounts /\ \A b \in GuardAccounts : RowAgrees(b)'
<1>1. ASSUME NEW b \in GuardAccounts PROVE RowAgrees(b)'
  <2>1. RowAgrees(b) /\ now \in Nat
    BY DEF GuardInvariant, GuardTypes
  <2>2. Agrees(guard[b], percent, now')
    BY <2>1, AgreesLater DEF RowAgrees
  <2> QED BY <2>1, <2>2 DEF RowAgrees
<1> QED BY <1>1 DEF GuardInvariant, GuardTypes

\* What runUpstreamQuotaCheck returns resets the goroutine's instant.
LEMMA ReturnsMoves ==
    ASSUME GuardInvariant, NEW s \in Servers, NEW a \in GuardAccounts, NEW next, Returns(s, a, next), UNCHANGED now
    PROVE  /\ DOMAIN check' = Servers /\ \A x \in Servers : DOMAIN check'[x] = GuardAccounts
           /\ \A x \in Servers, b \in GuardAccounts : CheckTimed(x, b)'
<1> DEFINE c == [NoCheck EXCEPT !.phase = "finish", !.next = next]
<1>1. DOMAIN c = {"phase", "at", "next"} /\ c.at = 0
  BY DEF NoCheck
<1>2. check' = [check EXCEPT ![s][a] = c] /\ now \in Nat
  BY DEF Returns, GuardInvariant, GuardTypes
<1> HIDE DEF c
<1>3. c.at \in Nat /\ c.at <= now
  BY <1>1, <1>2
<1> QED BY ZenonT(30), <1>1, <1>2, <1>3, CheckMoved

\* A recorded reading agrees with the row it makes.
LEMMA RecordedRow ==
    ASSUME GuardInvariant, NEW a \in GuardAccounts, NEW f \in Reports, NEW r \in Nat, NEW automatic \in BOOLEAN,
           NEW at \in Nat, at <= now
    PROVE  LET row == RecordUpstreamQuotaObservation(guard[a], [at |-> r, win |-> f], automatic, percent, at)
           IN  /\ DOMAIN row = GuardFields /\ (row.seen # NotObserved => row.seen.win \in Reports)
               /\ Agrees(row, percent, now)
<1> DEFINE obs == [at |-> r, win |-> f]
<1> DEFINE row == RecordUpstreamQuotaObservation(guard[a], obs, automatic, percent, at)
<1> DEFINE d == evaluateUpstreamQuotaGuard(obs, guard[a].seen, percent, at)
<1>0. DOMAIN guard[a] = GuardFields /\ percent \in 0..50 /\ now \in Nat /\ obs.win \in Reports
  BY ZenonT(30) DEF GuardInvariant, GuardTypes, RowAgrees
<1>1. CASE ~automatic /\ guard[a].source = "manual"
  <2>1. row = [guard[a] EXCEPT !.seen = obs]
    BY <1>1 DEF RecordUpstreamQuotaObservation, RecordedOnly
  <2> HIDE DEF row, obs
  <2>2. DOMAIN row = GuardFields /\ row.seen = obs /\ row.source = "manual"
    BY <1>0, <1>1, <2>1 DEF GuardFields
  <2>3. Agrees(row, percent, now)
    BY ZenonT(30), <2>2 DEF Agrees
  <2> QED BY Zenon, <1>0, <2>2, <2>3 DEF row, obs
<1>2. CASE ~(~automatic /\ guard[a].source = "manual")
  <2>1. row = [guard[a] EXCEPT !.status = StatusOf(d.limited), !.source = "auto", !.restore = d.restore,
                               !.seen = obs, !.next = d.next]
    BY <1>2 DEF RecordUpstreamQuotaObservation
  <2> HIDE DEF row, obs, d
  <2>2. /\ DOMAIN row = GuardFields /\ row.seen = obs
        /\ row.status = StatusOf(d.limited) /\ row.restore = d.restore
    BY <1>0, <2>1 DEF GuardFields
  <2>3. Agrees(row, percent, now)
    BY ZenonT(30), <1>0, <2>2, DecisionAgrees DEF obs, d
  <2> QED BY Zenon, <1>0, <2>2, <2>3 DEF row, obs
<1> QED BY Zenon, <1>1, <1>2

\* An Owner's decision makes the row manual, or changes nothing.
LEMMA ManualRow ==
    ASSUME GuardInvariant, NEW a \in GuardAccounts, NEW limited \in BOOLEAN, NEW at
    PROVE  LET row == SetUpstreamQuotaGuardStatus(guard[a], limited, at)
           IN  /\ DOMAIN row = GuardFields /\ (row.seen # NotObserved => row.seen.win \in Reports)
               /\ Agrees(row, percent, now)
<1> DEFINE row == SetUpstreamQuotaGuardStatus(guard[a], limited, at)
<1> DEFINE restore == ManualRestore(guard[a], limited, at)
<1> DEFINE following == IF guard[a].checked = Never THEN at ELSE Max({at, guard[a].checked + MinInterval})
<1> DEFINE next == IF limited THEN restore ELSE following
<1>0. RowAgrees(a)
  BY DEF GuardInvariant
<1>1. CASE row = guard[a]
  <2> HIDE DEF row
  <2> QED BY ZenonT(30), <1>0, <1>1 DEF RowAgrees, row
<1>2. CASE row # guard[a]
  <2>1. row = [guard[a] EXCEPT !.status = StatusOf(limited), !.source = "manual", !.restore = restore, !.next = next]
    BY <1>2 DEF SetUpstreamQuotaGuardStatus
  <2> HIDE DEF row, restore, next
  <2>2. DOMAIN row = GuardFields /\ row.seen = guard[a].seen /\ row.source = "manual"
    BY Zenon, <1>0, <2>1 DEF RowAgrees, GuardFields
  <2>3. Agrees(row, percent, now)
    BY Zenon, <2>2 DEF Agrees
  <2> QED BY Zenon, <1>0, <2>2, <2>3 DEF RowAgrees, row
<1> QED BY <1>1, <1>2

\* New settings judge every governed row again.
LEMMA ReappliedRow ==
    ASSUME GuardInvariant, NEW a \in GuardAccounts, NEW p \in 0..50, NEW at \in Nat, at <= now
    PROVE  LET row == SetUpstreamQuotaGuardSettings(guard[a], p, at)
           IN  /\ DOMAIN row = GuardFields /\ (row.seen # NotObserved => row.seen.win \in Reports)
               /\ Agrees(row, p, now)
<1> DEFINE row == SetUpstreamQuotaGuardSettings(guard[a], p, at)
<1> DEFINE d == evaluateUpstreamQuotaGuard(guard[a].seen, NotObserved, p, at)
<1> DEFINE next == IF d.limited THEN d.next ELSE Never
<1>0. RowAgrees(a) /\ now \in Nat
  BY Zenon DEF GuardInvariant, GuardTypes
<1>1. CASE guard[a].source # "auto" \/ guard[a].seen = NotObserved
  <2>1. row = guard[a]
    BY Zenon, <1>1 DEF SetUpstreamQuotaGuardSettings
  <2> HIDE DEF row
  <2>2. Agrees(row, p, now)
    BY ZenonT(30), <1>1, <2>1 DEF Agrees
  <2> QED BY <1>0, <2>1, <2>2 DEF RowAgrees, row
<1>2. CASE ~(guard[a].source # "auto" \/ guard[a].seen = NotObserved)
  <2>1. row = [guard[a] EXCEPT !.status = StatusOf(d.limited), !.restore = d.restore, !.next = next]
    BY <1>2 DEF SetUpstreamQuotaGuardSettings
  <2> HIDE DEF row, next, d
  <2>2. /\ DOMAIN row = GuardFields /\ row.seen = guard[a].seen
        /\ row.status = StatusOf(d.limited) /\ row.restore = d.restore
    BY Zenon, <1>0, <2>1 DEF RowAgrees, GuardFields
  <2>3. guard[a].seen.win \in Reports
    BY <1>0, <1>2 DEF RowAgrees
  <2>4. Agrees(row, p, now)
    BY Zenon, <1>0, <2>2, <2>3, DecisionAgrees DEF d
  <2> QED BY Zenon, <2>2, <2>3, <2>4 DEF row
<1> QED BY Zenon, <1>1, <1>2

-----------------------------------------------------------------------------
\* The steps of the goroutine that checks an account.
LEMMA CheckStep ==
    ASSUME GuardInvariant, NEW s \in Servers, NEW a \in GuardAccounts,
           \/ noteUpstreamQuotaUse(s, a) \/ CheckFails(s, a) \/ ClaimUpstreamQuotaCheck(s, a)
           \/ RecordAutomatic(s, a) \/ FinishCheck(s, a)
    PROVE  GuardInvariant'
<1>0. /\ now \in Nat /\ UNCHANGED <<percent, now>> /\ CheckTimed(s, a) /\ RowAgrees(a) /\ GuardTypes
  BY Zenon
     DEF GuardInvariant, GuardTypes, noteUpstreamQuotaUse, CheckFails, ClaimUpstreamQuotaCheck, RecordAutomatic, FinishCheck
<1>1. ASSUME DOMAIN guard' = GuardAccounts, \A b \in GuardAccounts : RowAgrees(b)',
             DOMAIN check' = Servers, \A x \in Servers : DOMAIN check'[x] = GuardAccounts,
             \A x \in Servers, b \in GuardAccounts : CheckTimed(x, b)'
      PROVE  GuardInvariant'
  BY Zenon, <1>0, <1>1 DEF GuardInvariant, GuardTypes
<1>2. ASSUME UNCHANGED guard PROVE DOMAIN guard' = GuardAccounts /\ \A b \in GuardAccounts : RowAgrees(b)'
  BY <1>0, <1>2, RowsStay
<1>3. CASE noteUpstreamQuotaUse(s, a)
  <2> DEFINE c == [NoCheck EXCEPT !.phase = "claim", !.at = now]
  <2>1. check' = [check EXCEPT ![s][a] = c] /\ UNCHANGED guard
    BY <1>3 DEF noteUpstreamQuotaUse
  <2>2. DOMAIN c = {"phase", "at", "next"} /\ c.at = now
    BY DEF NoCheck
  <2> HIDE DEF c
  <2>3. c.at \in Nat /\ c.at <= now
    BY <1>0, <2>2
  <2>4. /\ DOMAIN check' = Servers /\ \A x \in Servers : DOMAIN check'[x] = GuardAccounts
        /\ \A x \in Servers, b \in GuardAccounts : CheckTimed(x, b)'
    BY Zenon, <1>0, <2>1, <2>2, <2>3, CheckMoved
  <2> QED BY <1>1, <1>2, <2>1, <2>4
<1>4. CASE CheckFails(s, a)
  BY Zenon, <1>0, <1>1, <1>2, <1>4, ReturnsMoves DEF CheckFails
<1>5. CASE ClaimUpstreamQuotaCheck(s, a)
  <2> DEFINE at == check[s][a].at
  <2>1. CASE UNCHANGED guard /\ Returns(s, a, NextAutomaticCheck(guard[a]))
    BY ZenonT(30), <1>0, <1>1, <1>2, <2>1, ReturnsMoves
  <2>2. CASE guard' = [guard EXCEPT ![a].checked = at] /\ check' = [check EXCEPT ![s][a].phase = "record"]
    <3> DEFINE row == [guard[a] EXCEPT !.checked = at]
    <3> DEFINE c == [check[s][a] EXCEPT !.phase = "record"]
    <3>1. guard' = [guard EXCEPT ![a] = row] /\ check' = [check EXCEPT ![s][a] = c]
      BY <1>0, <2>2 DEF GuardTypes
    <3>2. DOMAIN c = {"phase", "at", "next"} /\ c.at = check[s][a].at
      BY <1>0 DEF CheckTimed
    <3>3. /\ DOMAIN row = GuardFields /\ row.seen = guard[a].seen /\ row.source = guard[a].source
          /\ row.status = guard[a].status /\ row.restore = guard[a].restore
      BY Zenon, <1>0 DEF RowAgrees, GuardFields
    <3> HIDE DEF row, c
    <3>4. Agrees(row, percent, now)
      BY <1>0, <3>3, AgreesAlike DEF RowAgrees
    <3>5. DOMAIN guard' = GuardAccounts /\ \A b \in GuardAccounts : RowAgrees(b)'
      BY Zenon, <1>0, <3>1, <3>3, <3>4, RowWritten DEF RowAgrees
    <3> QED BY Zenon, <1>0, <1>1, <3>1, <3>2, <3>5, CheckMoved DEF CheckTimed
  <2> QED BY <1>5, <2>1, <2>2 DEF ClaimUpstreamQuotaCheck
<1>6. CASE RecordAutomatic(s, a)
  <2> DEFINE at == check[s][a].at
  <2>1. PICK obs \in readUpstreamQuotaGuard(at) :
            /\ guard' = [guard EXCEPT ![a] = RecordUpstreamQuotaObservation(guard[a], obs, TRUE, percent, at)]
            /\ Returns(s, a, NextAutomaticCheck(RecordUpstreamQuotaObservation(guard[a], obs, TRUE, percent, at)))
    BY Zenon, <1>6 DEF RecordAutomatic
  <2>2. at \in Nat /\ at <= now
    BY Zenon, <1>0 DEF CheckTimed
  <2>3. PICK r \in Nat, f \in Reports : obs = [at |-> r, win |-> f]
    <3>1. PICK r \in at..now : obs \in Observations(r)
      BY ZenonT(30), <2>1 DEF readUpstreamQuotaGuard
    <3>3. r \in Nat
      BY Zenon, <1>0, <2>2, <3>1, InstantsBetween
    <3> QED BY Zenon, <3>1, <3>3 DEF Observations
  <2> HIDE DEF at
  <2> DEFINE row == RecordUpstreamQuotaObservation(guard[a], obs, TRUE, percent, at)
  <2>4. DOMAIN row = GuardFields /\ (row.seen # NotObserved => row.seen.win \in Reports) /\ Agrees(row, percent, now)
    BY ZenonT(30), <2>2, <2>3, RecordedRow
  <2>5. guard' = [guard EXCEPT ![a] = row]
    BY <2>1
  <2> HIDE DEF row
  <2>6. DOMAIN guard' = GuardAccounts /\ \A b \in GuardAccounts : RowAgrees(b)'
    BY Zenon, <1>0, <2>4, <2>5, RowWritten
  <2> QED BY Zenon, <1>0, <1>1, <2>1, <2>6, ReturnsMoves
<1>7. CASE FinishCheck(s, a)
  <2>1. check' = [check EXCEPT ![s][a] = NoCheck] /\ UNCHANGED guard
    BY <1>7 DEF FinishCheck
  <2>2. DOMAIN NoCheck = {"phase", "at", "next"} /\ NoCheck.at = 0
    BY Zenon DEF NoCheck
  <2>3. NoCheck.at \in Nat /\ NoCheck.at <= now
    BY <1>0, <2>2
  <2> QED BY Zenon, <1>0, <1>1, <1>2, <2>1, <2>2, <2>3, CheckMoved
<1> QED BY <1>3, <1>4, <1>5, <1>6, <1>7

\* What people do.
LEMMA PeopleStep ==
    ASSUME GuardInvariant, NEW s \in Servers,
           \/ setUpstreamQuotaGuardSettings(s)
           \/ \E a \in GuardAccounts : recordUpstreamQuotaReading(s, a) \/ setUpstreamAccountQuotaGuard(s, a)
    PROVE  GuardInvariant'
<1>6. now \in Nat /\ GuardTypes
  BY Zenon DEF GuardInvariant, GuardTypes
<1>7. \A t \in Instants : t \in Nat /\ t <= now
  BY <1>6 DEF Instants
<1>8. UNCHANGED <<now, check>>
  BY Zenon DEF setUpstreamQuotaGuardSettings, recordUpstreamQuotaReading, setUpstreamAccountQuotaGuard
<1>0. /\ now \in Nat /\ UNCHANGED <<now, check>> /\ GuardTypes /\ \A t \in Instants : t \in Nat /\ t <= now
      /\ now' \in Nat /\ now <= now'
  BY <1>6, <1>7, <1>8
<1>1. /\ DOMAIN check' = Servers /\ \A x \in Servers : DOMAIN check'[x] = GuardAccounts
      /\ \A x \in Servers, b \in GuardAccounts : CheckTimed(x, b)'
  BY Zenon, <1>0, ChecksStay
<1>2. ASSUME UNCHANGED percent, NEW a \in GuardAccounts, NEW row, guard' = [guard EXCEPT ![a] = row],
             DOMAIN row = GuardFields, row.seen # NotObserved => row.seen.win \in Reports, Agrees(row, percent, now)
      PROVE  GuardInvariant'
  <2>1. DOMAIN guard' = GuardAccounts /\ \A b \in GuardAccounts : RowAgrees(b)'
    BY Zenon, <1>0, <1>2, RowWritten
  <2> QED BY <1>0, <1>1, <1>2, <2>1 DEF GuardInvariant, GuardTypes
<1>3. ASSUME NEW a \in GuardAccounts, recordUpstreamQuotaReading(s, a) PROVE GuardInvariant'
  <2>1. PICK t \in Instants : \E obs \in Observations(t) :
            guard' = [guard EXCEPT ![a] = RecordUpstreamQuotaObservation(guard[a], obs, FALSE, percent, now)]
    BY Zenon, <1>3 DEF recordUpstreamQuotaReading
  <2>6. PICK obs \in Observations(t) :
            guard' = [guard EXCEPT ![a] = RecordUpstreamQuotaObservation(guard[a], obs, FALSE, percent, now)]
    BY Zenon, <2>1
  <2>2. PICK f \in Reports : obs = [at |-> t, win |-> f]
    BY Zenon, <2>1 DEF Observations
  <2> DEFINE row == RecordUpstreamQuotaObservation(guard[a], obs, FALSE, percent, now)
  <2>3. DOMAIN row = GuardFields /\ (row.seen # NotObserved => row.seen.win \in Reports) /\ Agrees(row, percent, now)
    <3>1. t \in Nat /\ now <= now
      BY <1>0
    <3>2. LET new == RecordUpstreamQuotaObservation(guard[a], [at |-> t, win |-> f], FALSE, percent, now)
          IN  /\ DOMAIN new = GuardFields /\ (new.seen # NotObserved => new.seen.win \in Reports)
              /\ Agrees(new, percent, now)
      BY Zenon, <1>0, <3>1, RecordedRow
    <3> QED BY Zenon, <2>2, <3>2
  <2>4. guard' = [guard EXCEPT ![a] = row] /\ UNCHANGED percent
    BY Zenon, <1>3, <2>6 DEF recordUpstreamQuotaReading
  <2> HIDE DEF row
  <2> QED BY Zenon, <1>2, <2>3, <2>4
<1>4. ASSUME NEW a \in GuardAccounts, setUpstreamAccountQuotaGuard(s, a) PROVE GuardInvariant'
  <2>1. PICK limited \in BOOLEAN, at \in Instants :
            guard' = [guard EXCEPT ![a] = SetUpstreamQuotaGuardStatus(guard[a], limited, at)]
    BY Zenon, <1>4 DEF setUpstreamAccountQuotaGuard
  <2> DEFINE row == SetUpstreamQuotaGuardStatus(guard[a], limited, at)
  <2>2. DOMAIN row = GuardFields /\ (row.seen # NotObserved => row.seen.win \in Reports) /\ Agrees(row, percent, now)
    BY <2>1, ManualRow
  <2>3. guard' = [guard EXCEPT ![a] = row] /\ UNCHANGED percent
    BY Zenon, <1>4, <2>1 DEF setUpstreamAccountQuotaGuard
  <2> HIDE DEF row
  <2> QED BY Zenon, <1>2, <2>2, <2>3
<1>5. CASE setUpstreamQuotaGuardSettings(s)
  <2>1. PICK p \in Percents, at \in Instants :
            /\ percent' = p
            /\ guard' = [a \in GuardAccounts |-> SetUpstreamQuotaGuardSettings(guard[a], p, at)]
    BY Zenon, <1>5 DEF setUpstreamQuotaGuardSettings
  <2>2. p \in 0..50
    BY Zenon, GuardAssumption
  <2>3. ASSUME NEW a \in GuardAccounts PROVE RowAgrees(a)'
    <3> DEFINE row == SetUpstreamQuotaGuardSettings(guard[a], p, at)
    <3>1. DOMAIN row = GuardFields /\ (row.seen # NotObserved => row.seen.win \in Reports) /\ Agrees(row, p, now)
      BY Zenon, <1>0, <2>1, <2>2, ReappliedRow
    <3>2. guard'[a] = row
      BY <2>1
    <3> HIDE DEF row
    <3> QED BY <1>0, <2>1, <3>1, <3>2 DEF RowAgrees
  <2> QED BY Zenon, <1>0, <1>1, <2>1, <2>2, <2>3 DEF GuardInvariant, GuardTypes
<1> QED BY ZenonT(30), <1>3, <1>4, <1>5

\* Every step keeps the invariant.
LEMMA GuardStep ==
    ASSUME GuardInvariant, [GuardNext]_<<now, guardVars>>
    PROVE  GuardInvariant'
<1>0. now \in Nat /\ percent \in 0..50
  BY Zenon DEF GuardInvariant, GuardTypes
<1>1. ASSUME UNCHANGED <<guard, percent, check>>, now' \in Nat, now <= now' PROVE GuardInvariant'
  <2>1. percent' \in 0..50
    BY <1>0, <1>1
  <2>2. DOMAIN guard' = GuardAccounts /\ \A a \in GuardAccounts : RowAgrees(a)'
    BY Zenon, <1>1, RowsStay
  <2>3. /\ DOMAIN check' = Servers /\ \A s \in Servers : DOMAIN check'[s] = GuardAccounts
        /\ \A s \in Servers, a \in GuardAccounts : CheckTimed(s, a)'
    BY Zenon, <1>1, ChecksStay
  <2> QED BY Zenon, <1>1, <2>1, <2>2, <2>3 DEF GuardInvariant, GuardTypes
<1>2. CASE GuardTick
  BY <1>0, <1>1, <1>2 DEF GuardTick, Advance, guardVars
<1>3. ASSUME NEW s \in Servers, RestartServer(s) PROVE GuardInvariant'
  <2> DEFINE line == [a \in GuardAccounts |-> NoCheck]
  <2>1. check' = [check EXCEPT ![s] = line] /\ UNCHANGED <<guard, percent, now>>
    BY Zenon, <1>3 DEF RestartServer
  <2>2. DOMAIN NoCheck = {"phase", "at", "next"} /\ NoCheck.at = 0
    BY DEF NoCheck
  <2>3. DOMAIN line = GuardAccounts /\ \A a \in GuardAccounts : line[a] = NoCheck
    BY Zenon
  <2> HIDE DEF line
  <2>4. DOMAIN check' = Servers /\ check'[s] = line /\ \A x \in Servers : x # s => check'[x] = check[x]
    BY Zenon, <2>1 DEF GuardInvariant, GuardTypes
  <2>5. ASSUME NEW x \in Servers, NEW b \in GuardAccounts PROVE CheckTimed(x, b)'
    <3>1. CheckTimed(x, b)
      BY Zenon DEF GuardInvariant
    <3>2. check'[x][b] \in {check[x][b], NoCheck}
      BY <2>3, <2>4
    <3>3. NoCheck.at \in Nat /\ NoCheck.at <= now
      BY <1>0, <2>2
    <3> QED BY <2>1, <2>2, <3>1, <3>2, <3>3 DEF CheckTimed
  <2>6. \A x \in Servers : DOMAIN check'[x] = GuardAccounts
    BY <2>3, <2>4 DEF GuardInvariant, GuardTypes
  <2>7. DOMAIN guard' = GuardAccounts /\ \A b \in GuardAccounts : RowAgrees(b)'
    BY <1>0, <2>1, RowsStay
  <2> QED BY Zenon, <1>0, <2>1, <2>4, <2>5, <2>6, <2>7 DEF GuardInvariant, GuardTypes
<1>4. ASSUME NEW s \in Servers, forget(s) \/ \E call \in calls[s] : reschedule(s, call) PROVE GuardInvariant'
  <2>1. UNCHANGED <<guard, percent, check, now>>
    BY ZenonT(30), <1>4 DEF forget, reschedule
  <2>2. now' \in Nat /\ now <= now'
    BY <1>0, <2>1
  <2> QED BY <1>1, <2>1, <2>2
<1>5. CASE UNCHANGED <<now, guardVars>>
  BY <1>0, <1>1, <1>5 DEF guardVars
<1> QED BY Zenon, <1>2, <1>3, <1>4, <1>5, CheckStep, PeopleStep DEF GuardNext

\* The state of a governed account agrees with its last reading under the
\* percentage in force, for any processes, accounts, delays and readings.
THEOREM GuardMatchesSettingsHolds == GuardSpec => []GuardMatchesSettings
<1>1. now = 0 /\ GuardInit => GuardInvariant
  <2> SUFFICES ASSUME now = 0, GuardInit PROVE GuardInvariant
    BY Zenon
  <2>1. DOMAIN DefaultRow = GuardFields /\ DefaultRow.seen = NotObserved
    BY Zenon DEF DefaultRow, GuardFields
  <2>2. Agrees(DefaultRow, percent, now)
    BY <2>1 DEF Agrees
  <2>3. \A a \in GuardAccounts : RowAgrees(a)
    BY Zenon, <2>1, <2>2 DEF GuardInit, RowAgrees
  <2>4. DOMAIN NoCheck = {"phase", "at", "next"} /\ NoCheck.at = 0
    BY DEF NoCheck
  <2>5. \A s \in Servers, a \in GuardAccounts : CheckTimed(s, a)
    BY <2>4 DEF GuardInit, CheckTimed
  <2> QED BY <2>3, <2>5 DEF GuardInit, GuardInvariant, GuardTypes, DefaultUpstreamQuotaGuardPercent
<1>2. GuardInvariant => GuardMatchesSettings
  BY Zenon DEF GuardInvariant, RowAgrees, Agrees, GuardMatchesSettings
<1> QED BY <1>1, <1>2, GuardStep, PTL DEF GuardSpec

-----------------------------------------------------------------------------
(* The cleanup and the requests.  The tables are related by what they say  *)
(* of one request.                                                         *)

RequestTables == {"usage", "hold", "quota"}

Has(t, q) == \E r \in db[t] : r.request = q
HasCharge(q) == \E e \in db.entry : e.id = ChargeEntry(q)
Whole(q) == HasCharge(q) \/ Has("allocation", q) \/ Has("quota", q) \/ Has("usage", q) => Has("hold", q)

RowShape ==
    /\ DOMAIN db = Tables
    /\ \A t \in RequestTables : \A r \in db[t] : "request" \in DOMAIN r
    /\ \A l \in db.lot : "source" \in DOMAIN l /\ l.source.kind = "operation"

CleanInvariant == RowShape /\ \A q \in CleanRequests : Whole(q)

\* Every row of a table is still there, or another one of its request.
Carried(t) == \A r \in db[t] : \E s \in db'[t] : s.request = r.request
AllCarried == \A t \in RequestTables : Carried(t)

\* What a step does to one request.
KeptFor(q) == Open(q) => \A t \in RequestTables : (RowsOf(t, q))' # {} \/ RowsOf(t, q) = {}

\* A request whose rows are carried over is kept.
LEMMA CarriedKeeps ==
    ASSUME AllCarried, NEW q
    PROVE  KeptFor(q)
<1>1. ASSUME NEW t \in RequestTables, RowsOf(t, q) # {} PROVE (RowsOf(t, q))' # {}
  <2>1. PICK r \in db[t] : r.request = q
    BY <1>1 DEF RowsOf
  <2>2. PICK s \in db'[t] : s.request = r.request
    BY <2>1 DEF AllCarried, Carried
  <2> QED BY <2>1, <2>2 DEF RowsOf
<1> QED BY <1>1 DEF KeptFor

-----------------------------------------------------------------------------
\* Steps that touch no row of a request: they add entries that are no charges,
\* and lots that come from operations.
LEMMA OtherRows ==
    ASSUME CleanInvariant, DOMAIN db' = Tables,
           db'.usage = db.usage, db'.hold = db.hold, db'.quota = db.quota, db'.allocation = db.allocation,
           \A e \in db'.entry : e \in db.entry \/ e.id.kind # "usage_charge",
           \A l \in db'.lot : l \in db.lot \/ ("source" \in DOMAIN l /\ l.source.kind = "operation")
    PROVE  CleanInvariant' /\ AllCarried
<1>1. \A t \in RequestTables : db'[t] = db[t]
  BY DEF RequestTables
<1>2. RowShape'
  BY <1>1 DEF CleanInvariant, RowShape
<1>3. ASSUME NEW q \in CleanRequests PROVE Whole(q)'
  <2>1. HasCharge(q)' => HasCharge(q)
    BY DEF HasCharge, ChargeEntry
  <2>2. Whole(q)
    BY DEF CleanInvariant
  <2> QED BY <2>1, <2>2 DEF Whole, Has
<1>4. AllCarried
  BY <1>1 DEF AllCarried, Carried
<1> QED BY <1>2, <1>3, <1>4 DEF CleanInvariant

\* Nothing of the tables changes.
LEMMA SameTables ==
    ASSUME CleanInvariant, UNCHANGED db
    PROVE  CleanInvariant' /\ AllCarried
BY OtherRows DEF CleanInvariant, RowShape

\* A recharge adds an operation, its entry and a lot.
LEMMA RechargeCarries ==
    ASSUME CleanInvariant, NEW o \in Recharges, RechargeRows(o)
    PROVE  CleanInvariant' /\ AllCarried
<1> DEFINE lot == [seq |-> 1 + Cardinality({x \in Recharges : executed[x] > 0}), source |-> OpEntry(o),
                   left |-> 1, day |-> now]
<1> DEFINE e == [id |-> OpEntry(o), day |-> now, period |-> 0]
<1>1. db' = [[db EXCEPT !.operation = @ \cup {[op |-> o]}, !.entry = @ \cup {e}] EXCEPT !.lot = @ \cup {lot}]
  BY ZenonT(30) DEF RechargeRows, OperationRows
<1>2. "source" \in DOMAIN lot /\ lot.source.kind = "operation" /\ e.id.kind # "usage_charge"
  BY DEF OpEntry
<1> HIDE DEF lot, e
<1>3. /\ DOMAIN db' = Tables /\ db'.usage = db.usage /\ db'.hold = db.hold /\ db'.quota = db.quota
      /\ db'.allocation = db.allocation /\ db'.entry = db.entry \cup {e} /\ db'.lot = db.lot \cup {lot}
  BY <1>1 DEF CleanInvariant, RowShape, Tables
<1> QED BY <1>2, <1>3, OtherRows

\* Granting a subscription adds an operation and its entry.
LEMMA PutSubscriptionCarries ==
    ASSUME CleanInvariant, PutSubscriptionRows
    PROVE  CleanInvariant' /\ AllCarried
<1> DEFINE e == [id |-> OpEntry(Grant), day |-> now, period |-> 1]
<1> DEFINE p == [id |-> 1, ends |-> now + 1, closed |-> FALSE]
<1> DEFINE s == [enabled |-> TRUE, current |-> 1, disabled |-> 0]
<1>1. db' = [[db EXCEPT !.operation = @ \cup {[op |-> Grant]}, !.entry = @ \cup {e}] EXCEPT
               !.period = @ \cup {p}, !.subscription = {s}]
  BY DEF PutSubscriptionRows, OperationRows
<1>2. e.id.kind # "usage_charge"
  BY DEF OpEntry
<1> HIDE DEF e, p, s
<1>3. /\ DOMAIN db' = Tables /\ db'.usage = db.usage /\ db'.hold = db.hold /\ db'.quota = db.quota
      /\ db'.allocation = db.allocation /\ db'.entry = db.entry \cup {e} /\ db'.lot = db.lot
  BY ZenonT(30), <1>1 DEF CleanInvariant, RowShape, Tables
<1> QED BY <1>2, <1>3, OtherRows

\* A renewal adds an operation and its entry.
LEMMA RenewCarries ==
    ASSUME CleanInvariant, RenewRows
    PROVE  CleanInvariant' /\ AllCarried
<1>1. PICK s \in Enabled, p \in db.period :
        db' = [db EXCEPT
                    !.period = (@ \ {p}) \cup {[p EXCEPT !.closed = TRUE],
                                [id |-> p.id + 1, ends |-> now + 1, closed |-> FALSE]},
                    !.entry = @ \cup {[id |-> RenewalEntry(p.id + 1), day |-> now,
                                       period |-> p.id + 1]},
                    !.subscription = {[s EXCEPT !.current = p.id + 1]}]
  BY Zenon DEF RenewRows
<1> DEFINE e == [id |-> RenewalEntry(p.id + 1), day |-> now, period |-> p.id + 1]
<1> DEFINE ps == (db.period \ {p}) \cup {[p EXCEPT !.closed = TRUE], [id |-> p.id + 1, ends |-> now + 1, closed |-> FALSE]}
<1> DEFINE ss == {[s EXCEPT !.current = p.id + 1]}
<1>2. db' = [db EXCEPT !.period = ps, !.entry = @ \cup {e}, !.subscription = ss]
  BY <1>1
<1>3. e.id.kind # "usage_charge"
  BY DEF RenewalEntry
<1> HIDE DEF e, ps, ss
<1>4. /\ DOMAIN db' = Tables /\ db'.usage = db.usage /\ db'.hold = db.hold /\ db'.quota = db.quota
      /\ db'.allocation = db.allocation /\ db'.entry = db.entry \cup {e} /\ db'.lot = db.lot
  BY ZenonT(30), <1>2 DEF CleanInvariant, RowShape, Tables
<1> QED BY Zenon, <1>3, <1>4, OtherRows

\* Disabling a subscription adds an operation and its entry.
LEMMA DeleteSubscriptionCarries ==
    ASSUME CleanInvariant, NEW o \in Disabling, DeleteSubscriptionRows(o)
    PROVE  CleanInvariant' /\ AllCarried
<1>1. PICK s \in db.subscription :
        db' = [OperationRows(o, s.current) EXCEPT
                 !.snapshot = @ \cup {x \in {o} : s.current = 0},
                 !.period = {IF s.enabled /\ p.id = s.current THEN [p EXCEPT !.closed = TRUE] ELSE p : p \in @},
                 !.subscription = {[s EXCEPT !.enabled = FALSE,
                                             !.disabled = IF s.enabled THEN now ELSE @]}]
  BY Zenon DEF DeleteSubscriptionRows
<1> DEFINE e == [id |-> OpEntry(o), day |-> now, period |-> s.current]
<1> DEFINE table == [db EXCEPT !.operation = @ \cup {[op |-> o]}, !.entry = @ \cup {e}]
<1> DEFINE xs == table.snapshot \cup {x \in {o} : s.current = 0}
<1> DEFINE ps == {IF s.enabled /\ p.id = s.current THEN [p EXCEPT !.closed = TRUE] ELSE p : p \in table.period}
<1> DEFINE ss == {[s EXCEPT !.enabled = FALSE, !.disabled = IF s.enabled THEN now ELSE @]}
<1>2. db' = [table EXCEPT !.snapshot = xs, !.period = ps, !.subscription = ss]
  BY <1>1 DEF OperationRows
<1>3. e.id.kind # "usage_charge"
  BY DEF OpEntry
<1> HIDE DEF e, xs, ps, ss
<1>4. /\ DOMAIN table = Tables /\ table.usage = db.usage /\ table.hold = db.hold /\ table.quota = db.quota
      /\ table.allocation = db.allocation /\ table.entry = db.entry \cup {e} /\ table.lot = db.lot
  BY DEF CleanInvariant, RowShape, Tables
<1> HIDE DEF table
<1>5. /\ DOMAIN db' = Tables /\ db'.usage = table.usage /\ db'.hold = table.hold /\ db'.quota = table.quota
      /\ db'.allocation = table.allocation /\ db'.entry = table.entry /\ db'.lot = table.lot
  BY <1>2, <1>4 DEF Tables
<1> QED BY <1>3, <1>4, <1>5, OtherRows

-----------------------------------------------------------------------------
(* The steps of a request.                                                 *)

\* An admission adds rows of its request and removes none.
LEMMA AdmitCarries ==
    ASSUME CleanInvariant, NEW q \in CleanRequests, AdmitRows(q)
    PROVE  CleanInvariant' /\ AllCarried
<1> DEFINE seqs == {l.seq : l \in db.lot}
<1> DEFINE sources == {s.current : s \in {x \in Enabled : \E p \in db.period : p.id = x.current /\ p.ends > now}}
<1> DEFINE u == [request |-> q, day |-> now, done |-> FALSE, ended |-> now]
<1> DEFINE b == [request |-> q, day |-> now, state |-> "reserved", cutoff |-> Max(seqs \cup {0}),
                 period |-> Max(sources \cup {0})]
<1> DEFINE r == [request |-> q, day |-> now, state |-> "reserved"]
<1>1. db' = [db EXCEPT !.usage = @ \cup {u}, !.hold = @ \cup {b}, !.quota = @ \cup {r},
                       !.lease = @ \cup {[request |-> q]}]
  BY ZenonT(30) DEF AdmitRows
<1>2. /\ "request" \in DOMAIN u /\ "request" \in DOMAIN b /\ "request" \in DOMAIN r
      /\ u.request = q /\ b.request = q /\ r.request = q
  BY Zenon
<1> HIDE DEF u, b, r
<1>3. /\ DOMAIN db' = Tables /\ db'.usage = db.usage \cup {u} /\ db'.hold = db.hold \cup {b}
      /\ db'.quota = db.quota \cup {r} /\ db'.allocation = db.allocation /\ db'.entry = db.entry /\ db'.lot = db.lot
  BY <1>1 DEF CleanInvariant, RowShape, Tables
<1>4. RowShape'
  BY <1>2, <1>3 DEF CleanInvariant, RowShape, RequestTables
<1>5. ASSUME NEW p \in CleanRequests PROVE Whole(p)'
  <2>1. Whole(p)
    BY ZenonT(30) DEF CleanInvariant
  <2>2. CASE p = q
    BY <1>2, <1>3, <2>2 DEF Whole, Has
  <2>3. CASE p # q
    <3>1. /\ Has("usage", p)' <=> Has("usage", p)
          /\ Has("hold", p) => Has("hold", p)'
          /\ Has("quota", p)' <=> Has("quota", p)
          /\ Has("allocation", p)' <=> Has("allocation", p)
          /\ HasCharge(p)' <=> HasCharge(p)
      BY Zenon, <1>2, <1>3, <2>3 DEF Has, HasCharge, ChargeEntry
    <3> QED BY Zenon, <2>1, <3>1 DEF Whole
  <2> QED BY <2>2, <2>3
<1>6. AllCarried
  BY <1>3 DEF AllCarried, Carried, RequestTables
<1> QED BY <1>4, <1>5, <1>6 DEF CleanInvariant

\* The end of a request changes its usage row and keeps the others.
LEMMA FinishCarries ==
    ASSUME CleanInvariant, NEW q \in CleanRequests, FinishRows(q)
    PROVE  CleanInvariant' /\ AllCarried
<1>1. PICK u \in RowsOf("usage", q) :
        db' = [db EXCEPT !.usage = (@ \ {u}) \cup {[u EXCEPT !.done = TRUE, !.ended = now]}]
  BY Zenon DEF FinishRows
<1>2. u \in db.usage /\ u.request = q /\ "request" \in DOMAIN u
  BY DEF RowsOf, CleanInvariant, RowShape, RequestTables
<1> DEFINE v == [u EXCEPT !.done = TRUE, !.ended = now]
<1>3. "request" \in DOMAIN v /\ v.request = q
  BY <1>2
<1>4. db' = [db EXCEPT !.usage = (@ \ {u}) \cup {v}]
  BY <1>1
<1> HIDE DEF v
<1>5. /\ DOMAIN db' = Tables /\ db'.usage = (db.usage \ {u}) \cup {v} /\ db'.hold = db.hold
      /\ db'.quota = db.quota /\ db'.allocation = db.allocation /\ db'.entry = db.entry /\ db'.lot = db.lot
  BY Zenon, <1>4 DEF CleanInvariant, RowShape, Tables
<1>6. RowShape'
  BY <1>3, <1>5 DEF CleanInvariant, RowShape, RequestTables
<1>7. ASSUME NEW p \in CleanRequests PROVE Whole(p)'
  <2>1. Whole(p)
    BY Zenon DEF CleanInvariant
  <2>2. /\ Has("usage", p)' => Has("usage", p)
        /\ Has("hold", p)' <=> Has("hold", p)
        /\ Has("quota", p)' <=> Has("quota", p)
        /\ Has("allocation", p)' <=> Has("allocation", p)
        /\ HasCharge(p)' <=> HasCharge(p)
    BY ZenonT(30), <1>2, <1>3, <1>5 DEF Has, HasCharge, ChargeEntry
  <2> QED BY <2>1, <2>2 DEF Whole
<1>8. AllCarried
  BY ZenonT(30), <1>2, <1>3, <1>5 DEF AllCarried, Carried, RequestTables
<1> QED BY <1>6, <1>7, <1>8 DEF CleanInvariant

\* The rows a settlement writes are rows of its request.
LEMMA ChargeRows ==
    ASSUME NEW q, NEW day, NEW sources
    PROVE  /\ [id |-> ChargeEntry(q), day |-> day, period |-> 0].id = ChargeEntry(q)
           /\ \A a \in {[request |-> q, source |-> s] : s \in sources} : a.request = q
  OBVIOUS

\* A settlement rewrites the rows of its request and adds its charge and its
\* allocations; every other request keeps its rows.
LEMMA SettleCarries ==
    ASSUME CleanInvariant, NEW q \in CleanRequests, SettleRequestRows(q)
    PROVE  CleanInvariant' /\ AllCarried
<1>0. PICK u \in RowsOf("usage", q), b \in RowsOf("hold", q), r \in RowsOf("quota", q) :
        \E source \in IF Payable(b) = {} THEN {Nowhere} ELSE Payable(b) :
            /\ db' = [db EXCEPT
                        !.hold = (@ \ {b}) \cup {[b EXCEPT !.state = "settled"]},
                        !.quota = (@ \ {r}) \cup {[r EXCEPT !.state = "settled"]},
                        !.lease = @ \ {[request |-> q]},
                        !.entry = @ \cup {[id |-> ChargeEntry(q), day |-> b.day, period |-> 0]},
                        !.allocation = @ \cup {[request |-> q, source |-> s] : s \in {source} \ {Nowhere}},
                        !.lot = {IF source = LotOf(l.seq) THEN [l EXCEPT !.left = @ - 1] ELSE l : l \in @}]
            /\ paid' = IF source.kind = "lot" THEN paid - 1 ELSE paid
  BY Zenon DEF SettleRequestRows
<1>2. PICK source \in IF Payable(b) = {} THEN {Nowhere} ELSE Payable(b) :
            /\ db' = [db EXCEPT
                        !.hold = (@ \ {b}) \cup {[b EXCEPT !.state = "settled"]},
                        !.quota = (@ \ {r}) \cup {[r EXCEPT !.state = "settled"]},
                        !.lease = @ \ {[request |-> q]},
                        !.entry = @ \cup {[id |-> ChargeEntry(q), day |-> b.day, period |-> 0]},
                        !.allocation = @ \cup {[request |-> q, source |-> s] : s \in {source} \ {Nowhere}},
                        !.lot = {IF source = LotOf(l.seq) THEN [l EXCEPT !.left = @ - 1] ELSE l : l \in @}]
            /\ paid' = IF source.kind = "lot" THEN paid - 1 ELSE paid
  BY <1>0, Zenon
<1> DEFINE c == [b EXCEPT !.state = "settled"]
<1> DEFINE d == [r EXCEPT !.state = "settled"]
<1> DEFINE e == [id |-> ChargeEntry(q), day |-> b.day, period |-> 0]
<1> DEFINE as == {[request |-> q, source |-> s] : s \in {source} \ {Nowhere}}
<1> DEFINE ls == {IF source = LotOf(l.seq) THEN [l EXCEPT !.left = @ - 1] ELSE l : l \in db.lot}
<1>3. db' = [db EXCEPT !.hold = (@ \ {b}) \cup {c}, !.quota = (@ \ {r}) \cup {d}, !.lease = @ \ {[request |-> q]},
                       !.entry = @ \cup {e}, !.allocation = @ \cup as, !.lot = ls]
  BY ZenonT(30), <1>2
<1>4. /\ b \in db.hold /\ b.request = q /\ "request" \in DOMAIN b
      /\ r \in db.quota /\ r.request = q /\ "request" \in DOMAIN r
  BY Zenon DEF RowsOf, CleanInvariant, RowShape, RequestTables
<1>5. "request" \in DOMAIN c /\ c.request = q /\ "request" \in DOMAIN d /\ d.request = q
  BY ZenonT(30), <1>4
<1>6. e.id = ChargeEntry(q) /\ \A a \in as : a.request = q
  BY Zenon, ChargeRows
<1>7. \A l \in ls : "source" \in DOMAIN l /\ l.source.kind = "operation"
  <2>1. ASSUME NEW l \in db.lot PROVE LET k == [l EXCEPT !.left = @ - 1] IN "source" \in DOMAIN k /\ k.source = l.source
    BY DEF CleanInvariant, RowShape
  <2> QED BY <2>1 DEF CleanInvariant, RowShape
<1> HIDE DEF c, d, e, as, ls
<1>8. /\ DOMAIN db' = Tables /\ db'.usage = db.usage /\ db'.hold = (db.hold \ {b}) \cup {c}
      /\ db'.quota = (db.quota \ {r}) \cup {d} /\ db'.allocation = db.allocation \cup as
      /\ db'.entry = db.entry \cup {e} /\ db'.lot = ls
  BY Zenon, <1>3 DEF CleanInvariant, RowShape, Tables
<1>9. RowShape'
  BY Zenon, <1>5, <1>7, <1>8 DEF CleanInvariant, RowShape, RequestTables
<1>10. ASSUME NEW p \in CleanRequests PROVE Whole(p)'
  <2>1. Whole(p)
    BY Zenon DEF CleanInvariant
  <2>2. CASE p = q
    BY Zenon, <1>5, <1>8, <2>2 DEF Whole, Has
  <2>3. CASE p # q
    <3>1. /\ Has("usage", p)' <=> Has("usage", p)
          /\ Has("hold", p) => Has("hold", p)'
          /\ Has("quota", p)' => Has("quota", p)
      BY Zenon, <1>4, <1>5, <1>8, <2>3 DEF Has
    <3>2. Has("allocation", p)' => Has("allocation", p)
      BY ZenonT(30), <1>6, <1>8, <2>3 DEF Has
    <3>3. HasCharge(p)' => HasCharge(p)
      <4>1. ChargeEntry(p) # ChargeEntry(q)
        BY <2>3 DEF ChargeEntry
      <4> QED BY Zenon, <1>6, <1>8, <4>1 DEF HasCharge
    <3> QED BY Zenon, <2>1, <3>1, <3>2, <3>3 DEF Whole
  <2> QED BY <2>2, <2>3
<1>11. AllCarried
  BY Zenon, <1>4, <1>5, <1>8 DEF AllCarried, Carried, RequestTables
<1> QED BY <1>9, <1>10, <1>11 DEF CleanInvariant

-----------------------------------------------------------------------------
(* Rows go.                                                                *)

\* The expiry of usage details takes only rows of finished, settled requests.
LEMMA ExpiryKeeps ==
    ASSUME CleanInvariant, DeleteUsageRequestsBefore
    PROVE  CleanInvariant' /\ \A q \in CleanRequests : KeptFor(q)
<1> DEFINE old == {u \in db.usage :
                     /\ u.done /\ u.ended < now - DetailLife
                     /\ \A r \in RowsOf("quota", u.request) \cup RowsOf("hold", u.request) : r.state # "reserved"}
<1>1. db' = [db EXCEPT !.usage = @ \ old]
  BY DEF DeleteUsageRequestsBefore
<1>2. ASSUME NEW u \in old PROVE ~Open(u.request) \/ \E v \in RowsOf("usage", u.request) : ~v.done
  BY DEF Open
<1>3. \A u \in old : u.done
  OBVIOUS
<1> HIDE DEF old
<1>4. /\ DOMAIN db' = Tables /\ db'.usage = db.usage \ old /\ db'.hold = db.hold /\ db'.quota = db.quota
      /\ db'.allocation = db.allocation /\ db'.entry = db.entry /\ db'.lot = db.lot
  BY <1>1 DEF CleanInvariant, RowShape, Tables
<1>5. RowShape'
  BY ZenonT(30), <1>4 DEF CleanInvariant, RowShape, RequestTables
<1>6. ASSUME NEW p \in CleanRequests PROVE Whole(p)'
  <2>1. Whole(p)
    BY DEF CleanInvariant
  <2>2. Has("usage", p)' => Has("usage", p)
    BY <1>4 DEF Has
  <2> QED BY <1>4, <2>1, <2>2 DEF Whole, Has, HasCharge, ChargeEntry
<1>7. ASSUME NEW q \in CleanRequests, Open(q), NEW t \in RequestTables, RowsOf(t, q) # {} PROVE (RowsOf(t, q))' # {}
  <2>1. CASE t # "usage"
    BY Zenon, <1>4, <1>7, <2>1 DEF RequestTables, RowsOf
  <2>2. CASE t = "usage"
    <3>1. PICK u \in db.usage : u.request = q
      BY <1>7, <2>2 DEF RowsOf
    <3>2. CASE u \notin old
      BY Zenon, <1>4, <2>2, <3>1, <3>2 DEF RowsOf
    <3>3. CASE u \in old
      <4>1. PICK v \in RowsOf("usage", q) : ~v.done
        BY Zenon, <1>2, <1>7, <3>1, <3>3
      <4>2. v \in db.usage /\ v.request = q /\ v \notin old
        BY ZenonT(30), <1>3, <4>1 DEF RowsOf
      <4> QED BY Zenon, <1>4, <2>2, <4>2 DEF RowsOf
    <3> QED BY <3>2, <3>3
  <2> QED BY Zenon, <2>1, <2>2
<1> QED BY <1>5, <1>6, <1>7 DEF CleanInvariant, KeptFor

\* What a batch chooses.
LEMMA ChosenRows ==
    ASSUME NEW cutoff, NEW c \in prepareInformationCandidates(cutoff)
    PROVE  /\ c.requests \subseteq informationRequestCandidates(cutoff)
           /\ Charges(EntryCandidates(cutoff, c.requests, c.lots)) \subseteq c.entries
<1>1. PICK rs \in Limited(informationRequestCandidates(cutoff), BatchLimit) :
        c \in UNION {ChoicesOfEntries(cutoff, rs, ls) : ls \in Limited(LotCandidates(cutoff, rs), BatchLimit)}
  BY DEF prepareInformationCandidates
<1>2. PICK ls \in Limited(LotCandidates(cutoff, rs), BatchLimit) : c \in ChoicesOfEntries(cutoff, rs, ls)
  BY <1>1
<1>3. PICK es \in LedgerCandidates(EntryCandidates(cutoff, rs, ls)) : c \in ChoicesOfPeriods(cutoff, rs, ls, es)
  BY ZenonT(30), <1>2 DEF ChoicesOfEntries
<1>4. c.requests = rs /\ c.lots = ls /\ c.entries = es
  <2>1. PICK ps : c = [requests |-> rs, lots |-> ls, entries |-> es, periods |-> ps,
                       subscriptions |-> SubscriptionCandidates(cutoff, es, ps)]
    BY Zenon, <1>3 DEF ChoicesOfPeriods
  <2> QED BY Zenon, <2>1
<1>5. rs \subseteq informationRequestCandidates(cutoff)
  BY <1>1 DEF Limited
<1>6. Charges(EntryCandidates(cutoff, rs, ls)) \subseteq es
  BY ZenonT(30), <1>3 DEF LedgerCandidates, ChosenEntries
<1> QED BY Zenon, <1>4, <1>5, <1>6

\* What is left of the tables.
LEMMA Left ==
    ASSUME RowShape, NEW c
    PROVE  /\ DOMAIN Gone(c) = Tables
           /\ Gone(c).usage = {r \in db.usage : r.request \notin c.requests}
           /\ Gone(c).hold = {r \in db.hold : r.request \notin c.requests}
           /\ Gone(c).quota = {r \in db.quota : r.request \notin c.requests}
           /\ Gone(c).allocation = {r \in db.allocation : r.request \notin c.requests}
           /\ Gone(c).lot = db.lot \ c.lots
           /\ Gone(c).entry = db.entry \ c.entries
<1> DEFINE of(rows) == {r \in rows : r.request \notin c.requests}
<1> DEFINE ops == {o \in CleanOps : \E e \in c.entries : e.id = OpEntry(o)}
<1> DEFINE tombstones == db.tombstone \cup (ops \cap {r.op : r \in db.operation})
<1> DEFINE as == of(db.allocation)
<1> DEFINE hs == of(db.hold)
<1> DEFINE qs == of(db.quota)
<1> DEFINE es == of(db.lease)
<1> DEFINE us == of(db.usage)
<1> DEFINE xs == db.snapshot \ ops
<1> DEFINE os == {r \in db.operation : r.op \notin ops}
<1> DEFINE ss == {IF ~s.enabled /\ \E p \in c.periods : p.id = s.current
                  THEN [s EXCEPT !.current = 0] ELSE s : s \in db.subscription \ c.subscriptions}
<1>1. Gone(c) = [db EXCEPT !.tombstone = tombstones, !.allocation = as, !.hold = hs, !.quota = qs, !.lease = es,
                           !.lot = @ \ c.lots, !.snapshot = xs, !.operation = os, !.entry = @ \ c.entries,
                           !.usage = us, !.period = @ \ c.periods, !.subscription = ss]
  BY DEF Gone
<1>2. /\ us = {r \in db.usage : r.request \notin c.requests}
      /\ hs = {r \in db.hold : r.request \notin c.requests}
      /\ qs = {r \in db.quota : r.request \notin c.requests}
      /\ as = {r \in db.allocation : r.request \notin c.requests}
  OBVIOUS
<1> HIDE DEF tombstones, as, hs, qs, es, us, xs, os, ss
<1>3. /\ DOMAIN Gone(c) = Tables /\ Gone(c).usage = us /\ Gone(c).hold = hs /\ Gone(c).quota = qs
      /\ Gone(c).allocation = as /\ Gone(c).lot = db.lot \ c.lots /\ Gone(c).entry = db.entry \ c.entries
  BY Zenon, <1>1 DEF RowShape, Tables
<1> QED BY <1>2, <1>3

\* A batch keeps open requests and takes others whole.
LEMMA BatchKeeps ==
    ASSUME CleanInvariant, RunCleanupBatch
    PROVE  CleanInvariant' /\ \A q \in CleanRequests : KeptFor(q)
<1>1. CASE UNCHANGED db
  BY <1>1, SameTables, CarriedKeeps
<1>2. CASE ~UNCHANGED db
  <2>0. PICK job \in ActiveJobs : \E c \in prepareInformationCandidates(job.cutoff) : db' = Gone(c)
    BY <1>2 DEF RunCleanupBatch
  <2>1. PICK c \in prepareInformationCandidates(job.cutoff) : db' = Gone(c)
    BY Zenon, <2>0
  <2>2. /\ c.requests \subseteq RequestCandidates(job.cutoff)
        /\ Charges(EntryCandidates(job.cutoff, c.requests, c.lots)) \subseteq c.entries
    BY Zenon, <2>1, ChosenRows DEF informationRequestCandidates
  <2>3. /\ DOMAIN db' = Tables
        /\ db'.usage = {r \in db.usage : r.request \notin c.requests}
        /\ db'.hold = {r \in db.hold : r.request \notin c.requests}
        /\ db'.quota = {r \in db.quota : r.request \notin c.requests}
        /\ db'.allocation = {r \in db.allocation : r.request \notin c.requests}
        /\ db'.lot = db.lot \ c.lots
        /\ db'.entry = db.entry \ c.entries
    BY ZenonT(30), <2>1, Left DEF CleanInvariant
  <2>4. ASSUME NEW q \in c.requests, NEW e \in db.entry, e.id = ChargeEntry(q) PROVE e \in c.entries
    <3>1. e.id.kind = "usage_charge" /\ e.id.of = q
      BY <2>4 DEF ChargeEntry
    <3>2. \A l \in db.lot \ c.lots : l.source # e.id
      BY <3>1 DEF CleanInvariant, RowShape
    <3>3. e \in EntryCandidates(job.cutoff, c.requests, c.lots)
      BY ZenonT(30), <3>1, <3>2 DEF EntryCandidates
    <3> QED BY <2>2, <3>1, <3>3 DEF Charges
  <2>5. RowShape'
    BY Zenon, <2>3 DEF CleanInvariant, RowShape, RequestTables
  <2>6. ASSUME NEW p \in CleanRequests PROVE Whole(p)'
    <3>1. Whole(p)
      BY Zenon DEF CleanInvariant
    <3>2. CASE p \in c.requests
      <4>1. ~HasCharge(p)'
        BY Zenon, <2>3, <2>4, <3>2 DEF HasCharge, ChargeEntry
      <4>2. ~Has("allocation", p)' /\ ~Has("quota", p)' /\ ~Has("usage", p)'
        BY Zenon, <2>3, <3>2 DEF Has
      <4> QED BY Zenon, <4>1, <4>2 DEF Whole
    <3>3. CASE p \notin c.requests
      <4>1. /\ Has("usage", p)' => Has("usage", p)
            /\ Has("hold", p) => Has("hold", p)'
            /\ Has("quota", p)' => Has("quota", p)
            /\ Has("allocation", p)' => Has("allocation", p)
        BY Zenon, <2>3, <3>3 DEF Has
      <4>2. HasCharge(p)' => HasCharge(p)
        BY <2>3 DEF HasCharge, ChargeEntry
      <4> QED BY Zenon, <3>1, <4>1, <4>2 DEF Whole
    <3> QED BY <3>2, <3>3
  <2>7. ASSUME NEW q \in CleanRequests PROVE KeptFor(q)
    <3>1. CASE q \in c.requests
      <4>1. ~Open(q)
        BY Zenon, <2>2, <3>1 DEF RequestCandidates, Open
      <4> QED BY Zenon, <4>1 DEF KeptFor
    <3>2. CASE q \notin c.requests
      <4>1. \A t \in RequestTables : RowsOf(t, q) \subseteq (RowsOf(t, q))'
        BY Zenon, <2>3, <3>2 DEF RequestTables, RowsOf
      <4> QED BY Zenon, <4>1 DEF KeptFor
    <3> QED BY <3>1, <3>2
  <2> QED BY <2>5, <2>6, <2>7 DEF CleanInvariant
<1> QED BY <1>1, <1>2

\* Every step keeps the invariant and what is open.
LEMMA CleanStep ==
    ASSUME CleanInvariant, [CleanNext]_<<now, cleanVars>>
    PROVE  CleanInvariant' /\ \A q \in CleanRequests : KeptFor(q)
<1>1. ASSUME CleanInvariant', AllCarried PROVE CleanInvariant' /\ \A q \in CleanRequests : KeptFor(q)
  BY Zenon, <1>1, CarriedKeeps
<1>2. CASE \E o \in Recharges : RechargeRows(o)
  BY Zenon, <1>1, <1>2, RechargeCarries
<1>3. CASE PutSubscriptionRows
  BY <1>1, <1>3, PutSubscriptionCarries
<1>4. CASE RenewRows
  BY Zenon, <1>1, <1>4, RenewCarries
<1>5. CASE \E o \in Disabling : DeleteSubscriptionRows(o)
  BY <1>1, <1>5, DeleteSubscriptionCarries
<1>6. CASE \E q \in CleanRequests : AdmitRows(q) \/ FinishRows(q) \/ SettleRequestRows(q)
  BY Zenon, <1>1, <1>6, AdmitCarries, FinishCarries, SettleCarries
<1>7. CASE DeleteUsageRequestsBefore
  BY <1>7, ExpiryKeeps
<1>8. CASE RunCleanupBatch
  BY <1>8, BatchKeeps
<1>9. CASE UNCHANGED db
  BY Zenon, <1>1, <1>9, SameTables
<1>10. CASE previewInformationCleanup \/ \E id \in Confirmations : createInformationCleanupJob(id)
  BY Zenon, <1>9, <1>10 DEF previewInformationCleanup, createInformationCleanupJob, CreateInformationCleanupJob
<1>11. CASE CleanTick \/ UNCHANGED <<now, cleanVars>>
  BY ZenonT(30), <1>9, <1>11 DEF CleanTick, cleanVars
<1> QED BY Zenon, <1>2, <1>3, <1>4, <1>5, <1>6, <1>7, <1>8, <1>10, <1>11 DEF CleanNext, CleanWork

\* There are no rows at the start.
LEMMA CleanStart == CleanInit => CleanInvariant
BY DEF CleanInit, CleanInvariant, RowShape, Whole, Has, HasCharge, Tables, RequestTables

\* Neither a cleanup batch nor the expiry of details takes a row of a request
\* that runs or has something to settle, and a request is cleaned as a whole,
\* for any requests, operations, batch limits and retention periods.
THEOREM CleanupKeepsOpenAndWhole == CleanSpec => OpenRequestsKept /\ []RequestsWhole
<1>1. CleanInvariant => RequestsWhole
  BY DEF CleanInvariant, Whole, Has, HasCharge, RequestsWhole, RowsOf
<1>2. ASSUME CleanInvariant, [CleanNext]_<<now, cleanVars>>
      PROVE  [\A q \in CleanRequests : Open(q) =>
                \A t \in {"usage", "hold", "quota"} : (RowsOf(t, q))' # {} \/ RowsOf(t, q) = {}]_cleanVars
  BY <1>2, CleanStep DEF KeptFor, RequestTables
<1> QED BY <1>1, <1>2, CleanStart, CleanStep, PTL DEF CleanSpec, OpenRequestsKept

=============================================================================
