----------------------------- MODULE ModelPrices -----------------------------
(***************************************************************************)
(* The owner's price override and multiplier of a model                    *)
(* (store/model_prices.go, model_multipliers.go and their handlers), and   *)
(* the snapshot an admission takes of both (billing.go).  An override is   *)
(* written against the structure of the configured price; gateways are     *)
(* redeployed with other structures or without the model.  Admissions hold *)
(* shared advisory locks to their end, changes exclusive ones.             *)
(***************************************************************************)
EXTENDS Naturals

CONSTANTS
    PriceGateways,
    Structures,         \* structures a configured price may have
    OverridePrices,     \* positive; 0 restores the configured price
    Multipliers,
    PriceEdits, MultiplierEdits, Admissions,
    MaxDeployments      \* bound on deployments

VARIABLES
    configured,         \* per gateway, the structure of the model's price, or "none"
    stored,             \* billing_model_prices
    multiplier,         \* billing_model_multipliers
    edit,               \* the owner's edits of the price
    raise,              \* the owner's edits of the multiplier
    admission,          \* requests being admitted
    deployments         \* redeployments so far

priceVars == <<configured, stored, multiplier, edit, raise, admission, deployments>>

ConfiguredPrice == 100
NoAnswer == [outcome |-> "none", price |-> 0, version |-> 0]
NoPriceEdit == [stage |-> "idle", seen |-> [price |-> 0, structure |-> "none", version |-> 0],
                structure |-> "none", price |-> 0, result |-> NoAnswer, answer |-> NoAnswer]
NotAdmitted == [stage |-> "idle", gateway |-> "none", price |-> 0, multiplier |-> 0]

PriceInit ==
    /\ configured \in [PriceGateways -> Structures]
    /\ stored = [price |-> 0, structure |-> "none", version |-> 0]
    /\ multiplier = 1
    /\ edit = [e \in PriceEdits |-> NoPriceEdit]
    /\ raise = [e \in MultiplierEdits |-> 0]
    /\ admission = [r \in Admissions |-> NotAdmitted]
    /\ deployments = 0

\* A gateway is redeployed with another price catalogue.
Redeploy(g) ==
    /\ deployments < MaxDeployments /\ deployments' = deployments + 1
    /\ \E s \in Structures \cup {"none"} : configured' = [configured EXCEPT ![g] = s]
    /\ UNCHANGED <<stored, multiplier, edit, raise, admission>>

\* modelPriceValue: an override of another structure is a conflict, which has
\* no effective price.
modelPriceValue(g, row) ==
    CASE row.price = 0 -> ConfiguredPrice
      [] row.structure = configured[g] -> row.price
      [] OTHER -> 0

-----------------------------------------------------------------------------
(* Advisory locks *)

\* mutant: the snapshot is read without the lock
Unlocked(stages) == TRUE

\* No admission is in a stage in which it holds the shared lock.
Exclusive(stages) == ~\E r \in Admissions : admission[r].stage \in stages

-----------------------------------------------------------------------------
(* The owner *)

\* ListModelPrices, and what the owner makes of it.
LoadPrices(e, g) ==
    /\ edit[e].stage = "idle" /\ configured[g] # "none"
    /\ \E price \in OverridePrices \cup {0} :
        edit' = [edit EXCEPT ![e] = [NoPriceEdit EXCEPT !.stage = "sent", !.seen = stored,
                                                        !.structure = configured[g], !.price = price]]
    /\ UNCHANGED <<configured, stored, multiplier, raise, admission, deployments>>

Expects(e, g) == stored.version = edit[e].seen.version /\ configured[g] = edit[e].structure

\* claimBillingOperationTx: the operation was done before.
Replayed(e, g) == edit[e].result # NoAnswer

\* updateModelPrice and SetModelPrice; an answer may be lost and the operation
\* sent again, to any gateway.
SetModelPrice(e, g) ==
    /\ edit[e].stage = "sent"
    /\ LET next == [price |-> edit[e].price, structure |-> configured[g], version |-> stored.version + 1]
           done == [outcome |-> "saved", price |-> modelPriceValue(g, next), version |-> next.version]
           Answer(a) == edit' = [edit EXCEPT ![e].answer = a]
       IN  CASE Replayed(e, g) -> Answer(edit[e].result) /\ UNCHANGED stored
             [] ~Replayed(e, g) /\ configured[g] = "none" ->
                    Answer([NoAnswer EXCEPT !.outcome = "not found"]) /\ UNCHANGED stored
             [] ~Replayed(e, g) /\ configured[g] # "none" /\ ~Expects(e, g) ->
                    Answer([NoAnswer EXCEPT !.outcome = "conflict"]) /\ UNCHANGED stored
             [] OTHER -> /\ Exclusive({"priced", "snapshot"})
                         /\ stored' = next
                         /\ edit' = [edit EXCEPT ![e].result = done, ![e].answer = done]
    /\ UNCHANGED <<configured, multiplier, raise, admission, deployments>>

\* updateModelMultiplier and SetModelMultiplier; a replay changes nothing.
SetModelMultiplier(e, g) ==
    /\ configured[g] # "none" /\ raise[e] = 0
    /\ Exclusive({"snapshot"})
    /\ \E value \in Multipliers : multiplier' = value /\ raise' = [raise EXCEPT ![e] = value]
    /\ UNCHANGED <<configured, stored, edit, admission, deployments>>

-----------------------------------------------------------------------------
(* reserveBillingTx *)

\* snapshotModelPriceTx: "A missing override is the only case that uses
\* deployment prices"; a conflict refuses the request.
snapshotModelPrice(r, g) ==
    /\ admission[r].stage = "idle" /\ configured[g] # "none"
    /\ LET price == modelPriceValue(g, stored)
       IN  admission' = [admission EXCEPT ![r] = IF price = 0 THEN [@ EXCEPT !.stage = "refused"]
                            ELSE [stage |-> "priced", gateway |-> g, price |-> price, multiplier |-> 0]]
    /\ UNCHANGED <<configured, stored, multiplier, edit, raise, deployments>>

snapshotModelMultiplier(r) ==
    /\ admission[r].stage = "priced"
    /\ admission' = [admission EXCEPT ![r].stage = "snapshot", ![r].multiplier = multiplier]
    /\ UNCHANGED <<configured, stored, multiplier, edit, raise, deployments>>

\* The reservation is inserted and commits, or anything after the snapshots
\* fails and all of it is rolled back.
CommitReservation(r) ==
    /\ admission[r].stage = "snapshot"
    /\ \E stage \in {"reserved", "refused"} : admission' = [admission EXCEPT ![r].stage = stage]
    /\ UNCHANGED <<configured, stored, multiplier, edit, raise, deployments>>

PriceNext ==
    \/ \E g \in PriceGateways :
        \/ Redeploy(g)
        \/ \E e \in PriceEdits : LoadPrices(e, g) \/ SetModelPrice(e, g)
        \/ \E e \in MultiplierEdits : SetModelMultiplier(e, g)
        \/ \E r \in Admissions : snapshotModelPrice(r, g)
    \/ \E r \in Admissions : snapshotModelMultiplier(r) \/ CommitReservation(r)

PriceSpec == PriceInit /\ [][PriceNext]_priceVars

-----------------------------------------------------------------------------
(* Properties *)

\* A reservation commits with the override and the multiplier that are in
\* force at that moment ("defining one ordering with admin saves"), although
\* it read them one after the other.
SnapshotInForce ==
    [][\A r \in Admissions :
        admission[r].stage = "snapshot" /\ admission'[r].stage = "reserved" =>
            /\ admission[r].multiplier = multiplier
            /\ admission[r].price = IF stored.price = 0 THEN ConfiguredPrice ELSE stored.price]_priceVars

=============================================================================
