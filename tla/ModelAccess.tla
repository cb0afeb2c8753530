----------------------------- MODULE ModelAccess -----------------------------
(***************************************************************************)
(* Which user may use which model (store/model_access.go,                  *)
(* model_access_batch.go, migrations/0008_model_access.sql), and the model *)
(* scopes that a starting gateway initialises (billing.go,                 *)
(* billing_entitlements.go).  A registration copies the defaults in a      *)
(* trigger while a starting gateway changes the catalogue and fills in     *)
(* missing rows, so transactions are modelled with the locks they take, in *)
(* their order; their writes appear when they commit.  Locks are kept to   *)
(* the end of a transaction.                                               *)
(***************************************************************************)
EXTENDS Naturals, Sequences, FiniteSets

CONSTANTS
    AccModels, AccUsers,
    Catalogs,           \* the catalogues gateways are configured with
    Connections,        \* database connections, each running one transaction
    MaxTransactions     \* bound on transactions

VARIABLES
    default,            \* model_access_defaults
    member,             \* users: "none", "pending" or "active"
    choice,             \* user_model_access
    scopes,             \* model scopes of cash, a group and a subscription
    tx,                 \* transactions in progress
    started             \* transactions begun

modelVars == <<default, member, choice, scopes, tx, started>>

NoRows == [m \in AccModels |-> "none"]
NoTx == [kind |-> "none", user |-> "none", models |-> {}, enabled |-> FALSE, at |-> 1, read |-> NoRows]
NoScope == [models |-> {}, initialized |-> FALSE]
ScopeNames == {"cash", "group", "subscription"}
Named(enabled) == IF enabled THEN "on" ELSE "off"
CatalogActive == {m \in AccModels : default[m].active}
validateBillingModels(models) == models # {} /\ models \subseteq CatalogActive

ModelInit ==
    /\ default = [m \in AccModels |-> [listed |-> FALSE, active |-> FALSE, enabled |-> FALSE]]
    /\ member = [u \in AccUsers |-> "none"]
    /\ choice = [u \in AccUsers |-> NoRows]
    /\ scopes = [s \in ScopeNames |-> NoScope]
    /\ tx = [t \in Connections |-> NoTx]
    /\ started = 0

-----------------------------------------------------------------------------
(* Locks: tables "defaults" and "users"; the rows of the models, of a user,  *)
(* and of a user's choices                                                   *)

Lock(what, mode, user) == [what |-> what, mode |-> mode, user |-> user]

\* PostgreSQL's conflicts among the modes used here: of tables, ROW EXCLUSIVE,
\* SHARE and SHARE ROW EXCLUSIVE; of rows, FOR KEY SHARE and stronger.
ConflictingModes ==
    {{"row_exclusive", "share"}, {"row_exclusive", "share_row_exclusive"},
     {"share", "share_row_exclusive"}, {"share_row_exclusive"}, {"row"}, {"row", "key_share"}}

Conflicts(held, wanted) ==
    /\ held.what = wanted.what /\ held.user = wanted.user
    /\ {held.mode, wanted.mode} \in ConflictingModes

\* The trigger's rows refer to the models: their foreign key check locks them.
RegistrationLocks == <<Lock("users", "row_exclusive", "all"), Lock("models", "key_share", "all")>>

\* mutant: the users table is left alone
CatalogLocked == <<Lock("defaults", "share_row_exclusive", "all")>>

\* SyncModelAccessCatalog
SyncLocks == <<Lock("defaults", "share_row_exclusive", "all"), Lock("users", "share_row_exclusive", "all")>>

\* The rows of every user the backfill may meet.
BackfillLocks == <<Lock("choices", "row", "all")>>

\* mutant: the batch also locks the rows of its models
lockModelRows == <<Lock("defaults", "share_row_exclusive", "all"), Lock("models", "row", "all")>>

\* "Do not take FOR UPDATE row locks here"
lockModelAccessBatch == <<Lock("defaults", "share_row_exclusive", "all")>>

\* ReviewInvitationApplications: "Acquire the write lock before deleting
\* defaults".
ReviewLocks(u) ==
    <<Lock("users", "row_exclusive", "all"), Lock("user", "row", u), Lock("choices", "row", "all")>>

Plan(t) ==
    CASE tx[t].kind = "register" -> RegistrationLocks
      [] tx[t].kind = "review" -> ReviewLocks(tx[t].user)
      [] tx[t].kind = "sync" -> SyncLocks \o BackfillLocks
      [] tx[t].kind = "defaults" -> lockModelAccessBatch
      [] tx[t].kind = "all" -> lockModelAccessBatch \o <<Lock("users", "share_row_exclusive", "all")>>
      [] tx[t].kind = "selected" -> lockModelAccessBatch \o <<Lock("user", "row", tx[t].user)>>
      [] tx[t].kind \in {"subscriptions", "scopes"} -> <<Lock("defaults", "share", "all")>>
      [] OTHER -> <<>>

Held(t) == {Plan(t)[i] : i \in 1..(tx[t].at - 1)}
Waits(t) == tx[t].at <= Len(Plan(t))
Blocks(o, t) == o # t /\ Waits(t) /\ \E l \in Held(o) : Conflicts(l, Plan(t)[tx[t].at])

\* What the trigger's SELECT sees, by the time its rows lock the models.
Snapshot(t) ==
    [m \in AccModels |-> IF tx[t].kind = "register" /\ default[m].active THEN Named(default[m].enabled) ELSE "none"]

Acquire(t) ==
    /\ Waits(t) /\ ~\E o \in Connections : Blocks(o, t)
    /\ tx' = [tx EXCEPT ![t].at = @ + 1, ![t].read = Snapshot(t)]
    /\ UNCHANGED <<default, member, choice, scopes, started>>

-----------------------------------------------------------------------------
(* Beginnings *)

Begin(t, next) ==
    /\ tx[t] = NoTx /\ started < MaxTransactions
    /\ tx' = [tx EXCEPT ![t] = next] /\ started' = started + 1
    /\ UNCHANGED <<default, member, choice, scopes>>

\* A registration; the user does not exist for anyone else yet.
BeginRegister(t, u) ==
    /\ member[u] = "none" /\ ~\E o \in Connections : tx[o].kind = "register" /\ tx[o].user = u
    /\ Begin(t, [NoTx EXCEPT !.kind = "register", !.user = u])

BeginReview(t, u) == member[u] = "pending" /\ Begin(t, [NoTx EXCEPT !.kind = "review", !.user = u])

\* A gateway starts with the catalogue it is configured with.
BeginSync(t) == \E c \in Catalogs : Begin(t, [NoTx EXCEPT !.kind = "sync", !.models = c])

\* The owner: defaults for new users, or choices of one user or of all.
BeginBatch(t) ==
    \E kind \in {"defaults", "all", "selected"}, models \in (SUBSET AccModels) \ {{}}, enabled \in BOOLEAN, u \in AccUsers :
        Begin(t, [NoTx EXCEPT !.kind = kind, !.models = models, !.enabled = enabled,
                              !.user = IF kind = "selected" THEN u ELSE "none"])

-----------------------------------------------------------------------------
(* Commits *)

Commits(t, kind) == tx[t].kind = kind /\ ~Waits(t)
Over(t) == tx' = [tx EXCEPT ![t] = NoTx]

\* INSERT INTO users and its trigger
\* gateway_snapshot_model_access_defaults.
Register(t) ==
    /\ Commits(t, "register") /\ Over(t)
    /\ \E status \in {"pending", "active"} : member' = [member EXCEPT ![tx[t].user] = status]
    /\ choice' = [choice EXCEPT ![tx[t].user] = tx[t].read]
    /\ UNCHANGED <<default, scopes, started>>

\* Approval, or the deletion of the user with everything registration made;
\* by now someone else may have decided.
ReviewApplication(t) ==
    /\ Commits(t, "review") /\ Over(t)
    /\ LET u == tx[t].user
       IN  \/ /\ member[u] = "pending" /\ member' = [member EXCEPT ![u] = "active"] /\ UNCHANGED choice
           \/ /\ member[u] = "pending" /\ member' = [member EXCEPT ![u] = "none"]
              /\ choice' = [choice EXCEPT ![u] = NoRows]
           \/ /\ member[u] # "pending" /\ UNCHANGED <<member, choice>>
    /\ UNCHANGED <<default, scopes, started>>

\* ON CONFLICT DO NOTHING
Backfilled(defaults) ==
    [u \in AccUsers |-> [m \in AccModels |->
        IF member[u] # "none" /\ defaults[m].active /\ choice[u][m] = "none"
        THEN Named(defaults[m].enabled) ELSE choice[u][m]]]

SyncModelAccessCatalog(t) ==
    /\ Commits(t, "sync")
    /\ default' = [m \in AccModels |->
            [listed |-> default[m].listed \/ m \in tx[t].models, active |-> m \in tx[t].models,
             enabled |-> IF default[m].listed THEN default[m].enabled ELSE m \in tx[t].models]]
    /\ choice' = Backfilled(default')
    /\ tx' = [tx EXCEPT ![t].kind = "subscriptions", ![t].at = 1]
    /\ UNCHANGED <<member, scopes, started>>

\* Every model is checked before anything is written.
SetModelAccessDefaultsBatch(t) ==
    /\ Commits(t, "defaults") /\ Over(t)
    /\ default' = [m \in AccModels |->
            IF tx[t].models \subseteq CatalogActive /\ m \in tx[t].models
            THEN [default[m] EXCEPT !.enabled = tx[t].enabled] ELSE default[m]]
    /\ UNCHANGED <<member, choice, scopes, started>>

Targets(t) == {u \in AccUsers : member[u] = "active" /\ (tx[t].kind = "all" \/ tx[t].user = u)}

\* A missing row or a missing user fails the whole batch.
SetUserModelAccessBatch(t) ==
    /\ \E kind \in {"all", "selected"} : Commits(t, kind)
    /\ Over(t)
    /\ LET valid == /\ tx[t].models \subseteq CatalogActive
                    /\ tx[t].kind = "selected" => Targets(t) # {}
                    /\ \A u \in Targets(t), m \in tx[t].models : choice[u][m] # "none"
       IN  choice' = [u \in AccUsers |-> [m \in AccModels |->
                IF valid /\ u \in Targets(t) /\ m \in tx[t].models THEN Named(tx[t].enabled) ELSE choice[u][m]]]
    /\ UNCHANGED <<default, member, scopes, started>>

\* "Existing cash and group scopes are initialized exactly once".
InitializedScope(name, models) ==
    IF scopes[name].initialized THEN scopes[name] ELSE [models |-> models, initialized |-> TRUE]

\* InitializeBillingSubscriptionModels: the catalogue as it is by now.
InitializeBillingSubscriptionModels(t) ==
    /\ Commits(t, "subscriptions")
    /\ IF CatalogActive = {} /\ ~scopes["subscription"].initialized
       THEN Over(t) /\ UNCHANGED scopes
       ELSE /\ scopes' = [scopes EXCEPT !["subscription"] = InitializedScope("subscription", CatalogActive)]
            /\ tx' = [tx EXCEPT ![t].kind = "scopes", ![t].at = 1]
    /\ UNCHANGED <<default, member, choice, started>>

\* InitializeBillingModelScopes: the gateway's own catalogue, which another
\* gateway's start may have replaced; this one then does not start.
InitializeBillingModelScopes(t) ==
    /\ Commits(t, "scopes") /\ Over(t)
    /\ scopes' = IF validateBillingModels(tx[t].models)
                 THEN [s \in ScopeNames |->
                        IF s = "subscription" THEN scopes[s] ELSE InitializedScope(s, tx[t].models)]
                 ELSE scopes
    /\ UNCHANGED <<default, member, choice, started>>

\* SetBillingCashModels, and the scope of a group or a subscription.
SetScope(name, models) ==
    /\ started < MaxTransactions /\ started' = started + 1
    /\ scopes[name].initialized /\ validateBillingModels(models)
    /\ scopes' = [scopes EXCEPT ![name].models = models]
    /\ UNCHANGED <<default, member, choice, tx>>

\* The connection is lost or the context ends: the transaction is rolled back.
Rollback(t) == tx[t] # NoTx /\ Over(t) /\ UNCHANGED <<default, member, choice, scopes, started>>

StartUp(t) ==
    \/ SyncModelAccessCatalog(t) \/ InitializeBillingSubscriptionModels(t) \/ InitializeBillingModelScopes(t)

Commit(t) ==
    \/ Register(t) \/ ReviewApplication(t) \/ StartUp(t)
    \/ SetModelAccessDefaultsBatch(t) \/ SetUserModelAccessBatch(t)

ModelNext ==
    \/ \E t \in Connections :
        \/ BeginSync(t) \/ BeginBatch(t)
        \/ \E u \in AccUsers : BeginRegister(t, u) \/ BeginReview(t, u)
        \/ Acquire(t) \/ Commit(t) \/ Rollback(t)
    \/ \E name \in ScopeNames, models \in SUBSET AccModels : SetScope(name, models)

ModelSpec == ModelInit /\ [][ModelNext]_modelVars

-----------------------------------------------------------------------------
(* Properties *)

\* Every user has a row for every model of the catalogue, however a
\* registration and a starting gateway interleave ("Locking users closes the
\* race with the registration trigger"): a request is never refused because
\* its row is missing.
CatalogComplete ==
    \A u \in AccUsers, m \in AccModels : member[u] # "none" /\ default[m].active => choice[u][m] # "none"

\* "Existing defaults and user choices are never overwritten": only the owner's
\* batch changes a choice, also of a model that left the catalogue and came
\* back.
ChoicesKept ==
    \A u \in AccUsers, m \in AccModels :
        choice[u][m] # "none" /\ choice'[u][m] \notin {"none", choice[u][m]} =>
            \E t \in Connections : tx[t].kind \in {"all", "selected"} /\ tx'[t] = NoTx

\* Synchronisation and registration fill every gap and nothing but gaps:
\* CatalogComplete after every step and ChoicesKept by it.
DefaultsFillGaps == [][CatalogComplete' /\ ChoicesKept]_modelVars

\* Registration, review, synchronisation and the batches never wait for each
\* other in a circle.
NoLockCycle ==
    \A waiting \in (SUBSET Connections) \ {{}} :
        \E t \in waiting : ~\E o \in waiting : Blocks(o, t)

=============================================================================
