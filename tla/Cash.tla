-------------------------------- MODULE Cash --------------------------------
(***************************************************************************)
(* The cash side of billing: account balances, the credit lots a balance   *)
(* is made of, and the billing operations (one per operation ID) through   *)
(* which every administrative write of money goes.  Code:                  *)
(* internal/store/billing.go, and internal/store/information_worker.go for *)
(* the cleanup that removes old operations, ledger entries and lots.       *)
(*                                                                         *)
(* Every write below is one PostgreSQL transaction that holds the row lock *)
(* of the account and the advisory lock of its operation ID, so it is one  *)
(* step.  The client chooses the operation ID and may send a request any   *)
(* number of times; an answer may be lost, which is why it sends again.    *)
(***************************************************************************)
EXTENDS Accounts

CONSTANTS
    Ops,        \* billing operation IDs
    Amounts,    \* amounts an administrator may enter
    Rates,      \* recharge rates, in 1 / RateUnit USD per CNY
    RateUnit

ASSUME CashAssumption ==
    /\ Amounts \subseteq Nat \ {0}
    /\ Rates \subseteq Nat \ {0} /\ Rates # {}
    /\ RateUnit \in Nat \ {0}

VARIABLES
    balance,    \* billing_accounts.balance_usd
    nextLot,    \* billing_accounts.next_cash_lot_sequence
    lots,       \* billing_cash_credit_lots: per user, lot_sequence -> row
    rate,       \* billing_settings.usd_per_cny
    operation,  \* billing_operations: the request and its ledger entry
    tombstone,  \* billing_operation_tombstones
    ledger,     \* billing_ledger_entries written by operations, in id order
    answered,   \* history: the successful answers given for an operation ID
    effects     \* history: how often an operation ID changed the state

cashVars == <<balance, nextLot, lots, rate, operation, tombstone, ledger, answered, effects>>

NoOperation == [request |-> <<>>, entry |-> 0]

-----------------------------------------------------------------------------
AddLot(u, amount, entry) ==
    [i \in DOMAIN lots[u] \cup {nextLot[u]} |->
        IF i = nextLot[u] THEN [remaining |-> amount, entry |-> entry] ELSE lots[u][i]]

\* roundFixed: half away from zero at the smallest unit.
MultiplyToAmount(cny, r) == (2 * cny * r + RateUnit) \div (2 * RateUnit)

-----------------------------------------------------------------------------
(* Operations.                                                             *)

ClaimWithoutTombstone(op, request) ==
    IF operation[op] = NoOperation THEN "created"
    ELSE IF operation[op].request = request THEN "replay"
    ELSE "mismatch"

\* The ID was cleaned (ErrBillingOperationCleaned), is unknown, is known with
\* the same request, or is known with another one (replay mismatch).
claimBillingOperationTx(op, request) ==
    IF op \in tombstone THEN "cleaned"
    ELSE IF operation[op] = NoOperation THEN "created"
    ELSE IF operation[op].request = request THEN "replay"
    ELSE "mismatch"

\* The tail of every write: the ledger entry, finishBillingOperationTx, and
\* the answer built from the entry.
finishBillingOperationTx(op, request, u, amount, after) ==
    LET entry == [op |-> op, user |-> u, amount |-> amount, after |-> after, kept |-> TRUE]
    IN  /\ ledger' = Append(ledger, entry)
        /\ operation' = [operation EXCEPT ![op] = [request |-> request, entry |-> Len(ledger) + 1]]
        /\ answered' = [answered EXCEPT ![op] = @ \cup {<<request, amount, after>>}]
        /\ effects' = [effects EXCEPT ![op] = @ + 1]
        /\ UNCHANGED tombstone

\* A request whose operation was already applied is answered from its ledger
\* entry (replayBillingLedgerTx) and changes nothing.
ReplayOperation(op, request) ==
    /\ claimBillingOperationTx(op, request) = "replay"
    /\ LET entry == ledger[operation[op].entry]
       IN  answered' = [answered EXCEPT ![op] = @ \cup {<<request, entry.amount, entry.after>>}]
    /\ UNCHANGED <<balance, nextLot, lots, rate, operation, tombstone, ledger, effects>>

-----------------------------------------------------------------------------
(* Writes.                                                                 *)

SetRechargeRate(op, r) ==
    LET request == <<"recharge_rate", r>> IN
    \/ /\ claimBillingOperationTx(op, request) = "created"
       /\ rate' = r
       /\ finishBillingOperationTx(op, request, "none", r, 0)
       /\ UNCHANGED <<balance, nextLot, lots>>
    \/ ReplayOperation(op, request)

RechargeUser(op, u, cny) ==
    LET request == <<"recharge", u, cny>>
        usd == MultiplyToAmount(cny, rate)
    IN
    \/ /\ claimBillingOperationTx(op, request) = "created"
       /\ usd > 0
       /\ balance' = [balance EXCEPT ![u] = @ + usd]
       /\ nextLot' = [nextLot EXCEPT ![u] = @ + 1]
       /\ lots' = [lots EXCEPT ![u] = AddLot(u, usd, Len(ledger) + 1)]
       /\ finishBillingOperationTx(op, request, u, usd, balance[u] + usd)
       /\ UNCHANGED rate
    \/ ReplayOperation(op, request)

\* The lots must cover what a negative adjustment takes, or the code fails
\* with "cash lots do not reconcile with account".
AdjustUserBalance(op, u, amount) ==
    LET request == <<"adjustment", u, amount>>
        after == balance[u] + amount
    IN
    \/ /\ claimBillingOperationTx(op, request) = "created"
       /\ after >= 0
       /\ \/ /\ amount > 0
             /\ nextLot' = [nextLot EXCEPT ![u] = @ + 1]
             /\ lots' = [lots EXCEPT ![u] = AddLot(u, amount, Len(ledger) + 1)]
          \/ /\ amount < 0
             /\ LotsTotal(lots[u], DOMAIN lots[u]) >= -amount
             /\ lots' = [lots EXCEPT ![u] = DrainLots(lots[u], nextLot[u], -amount)]
             /\ UNCHANGED nextLot
       /\ balance' = [balance EXCEPT ![u] = after]
       /\ finishBillingOperationTx(op, request, u, amount, after)
       /\ UNCHANGED rate
    \/ ReplayOperation(op, request)

-----------------------------------------------------------------------------
(* Cleanup.                                                                *)

\* prepareInformationCandidates for entries up to an id (entry ids grow with
\* created_at): the drained lots they created, and the entries that no lot
\* refers to once the chosen lots are gone.
CandidateLots(last) ==
    UNION {{u} \X {i \in DOMAIN lots[u] : lots[u][i].remaining = 0 /\ lots[u][i].entry <= last} : u \in Users}

CandidateEntries(last, gone) ==
    {e \in 1..last : /\ ledger[e].kept
                     /\ \A u \in Users : \A i \in DOMAIN lots[u] :
                            <<u, i>> \notin gone => lots[u][i].entry # e}

WithoutLots(gone) ==
    [u \in Users |-> Restrict(lots[u], {i \in DOMAIN lots[u] : <<u, i>> \notin gone})]

\* deleteInformationCandidates: the operations of the deleted entries leave a
\* tombstone in the same transaction.
deleteInformationCandidates(gone, entries) ==
    LET cleaned == {ledger[e].op : e \in entries}
    IN  /\ tombstone' = tombstone \cup cleaned
        /\ operation' = [op \in Ops |-> IF op \in cleaned THEN NoOperation ELSE operation[op]]
        /\ ledger' = [e \in DOMAIN ledger |->
                         [ledger[e] EXCEPT !.kept = @ /\ e \notin entries]]
        /\ lots' = WithoutLots(gone)
        /\ UNCHANGED <<balance, nextLot, rate, answered, effects>>

\* One batch.  Its LIMIT may take any part of the candidates.
RunInformationCleanupBatch(last) ==
    \E gone \in SUBSET CandidateLots(last) :
    \E entries \in SUBSET CandidateEntries(last, gone) :
        /\ gone # {} \/ entries # {}
        /\ deleteInformationCandidates(gone, entries)

-----------------------------------------------------------------------------

CashInit ==
    /\ balance = [u \in Users |-> 0]
    /\ nextLot = [u \in Users |-> 1]
    /\ lots = [u \in Users |-> <<>>]
    /\ rate \in Rates
    /\ operation = [op \in Ops |-> NoOperation]
    /\ tombstone = {}
    /\ ledger = <<>>
    /\ answered = [op \in Ops |-> {}]
    /\ effects = [op \in Ops |-> 0]

CashNext ==
    \/ \E op \in Ops, r \in Rates : SetRechargeRate(op, r)
    \/ \E op \in Ops, u \in Users, a \in Amounts : RechargeUser(op, u, a)
    \/ \E op \in Ops, u \in Users, a \in Amounts \cup {-b : b \in Amounts} :
          AdjustUserBalance(op, u, a)
    \/ \E last \in DOMAIN ledger : RunInformationCleanupBatch(last)

CashSpec == CashInit /\ [][CashNext]_cashVars

-----------------------------------------------------------------------------
(* Properties.                                                             *)

\* The lots of an account always add up to its balance, whatever mixture of
\* recharges, adjustments in either direction and cleanups ran: the error
\* "cash lots do not reconcile with account" is unreachable.
LotsReconcile == \A u \in Users : LotsTotal(lots[u], DOMAIN lots[u]) = balance[u]

\* However often a client repeats a request, and even when the cleanup has
\* meanwhile deleted the operation row, an operation ID changes the state at
\* most once.
AppliedOnce == \A op \in Ops : effects[op] <= 1

\* Every successful answer for an operation ID is the same, also when the
\* recharge rate changed between the first attempt and the retry.
AnswersAgree == \A op \in Ops : \A x, y \in answered[op] : x = y

\* However often, and however late, a client resends a money operation, it takes
\* effect once and every answer says the same (claimBillingOperationTx and
\* billingIdempotentReplay against the cleanup and changes of the rate).
OperationsIdempotent == AppliedOnce /\ AnswersAgree

\* An operation row points at a ledger entry that is still there, so a replay
\* always finds the entry it answers from.
ReplayFindsEntry ==
    \A op \in Ops : operation[op] # NoOperation =>
        LET e == operation[op].entry IN ledger[e].kept /\ ledger[e].op = op

=============================================================================
