---------------------------- MODULE BooksProofs -----------------------------
(***************************************************************************)
(* Billing operations take effect once and answer alike, and subscriptions *)
(* yield what was bought and cost what was shown, for any users, plans,    *)
(* pages, operation IDs, amounts and rates, and any history of writes,     *)
(* retries, rolls and cleanups.                                            *)
(***************************************************************************)
EXTENDS Subscriptions, TLAPS

\* The provers to try, and their time, for a leaf that names none.
USE SMTT(30), ZenonT(30), SMTT(60)

-----------------------------------------------------------------------------
(* Billing operations.  None of their properties is inductive.  What carries *)
(* them is how an operation ID is remembered: an ID without effects is     *)
(* unknown; an ID with effects has either its operation row, pointing at a *)
(* kept entry that holds the only answer ever given, or a tombstone.       *)

Entries == [op : Ops, user : Users \cup {"none"}, amount : Int, after : Int, kept : BOOLEAN]

Known(op) == operation[op] # NoOperation

Answer(op) == <<operation[op].request, ledger[operation[op].entry].amount, ledger[operation[op].entry].after>>

Fresh(op) == ~Known(op) /\ op \notin tombstone /\ effects[op] = 0 /\ answered[op] = {}

Applied(op) ==
    /\ Known(op) /\ op \notin tombstone
    /\ effects[op] = 1
    /\ operation[op].entry \in DOMAIN ledger
    /\ ledger[operation[op].entry].kept
    /\ ledger[operation[op].entry].op = op
    /\ answered[op] = {Answer(op)}

Cleaned(op) ==
    /\ ~Known(op) /\ op \in tombstone
    /\ effects[op] = 1
    /\ \E x \in answered[op] : answered[op] = {x}

Rows ==
    /\ balance \in [Users -> Int]
    /\ rate \in Rates
    /\ operation = [op \in Ops |-> operation[op]]
    /\ answered = [op \in Ops |-> answered[op]]
    /\ effects \in [Ops -> Nat]
    /\ ledger \in Seq(Entries)

\* The inductive invariant.
Memory ==
    /\ Rows
    /\ \A op \in Ops : Fresh(op) \/ Applied(op) \/ Cleaned(op)
    /\ \A e \in DOMAIN ledger : ledger[e].kept =>
          Known(ledger[e].op) /\ operation[ledger[e].op].entry = e

-----------------------------------------------------------------------------

\* Initially no operation ID is known.
LEMMA MemoryInit == CashInit => Memory
  BY DEF CashInit, Memory, Rows, Fresh, Known, NoOperation

\* Amounts written to the ledger are integers.
LEMMA AmountType == ASSUME NEW cny \in Int, NEW r \in Int PROVE MultiplyToAmount(cny, r) \in Int
  <1>1. RateUnit \in Nat \ {0}
    BY CashAssumption
  <1>2. 2 * cny * r + RateUnit \in Int /\ 2 * RateUnit \in Nat \ {0}
    BY <1>1
  <1> QED
    BY <1>2 DEF MultiplyToAmount

\* A claim says "created" only for a fresh ID: this is where the tombstone and
\* the operation row both count.
LEMMA CreatedIsFresh ==
  ASSUME Memory, NEW op \in Ops, NEW request, claimBillingOperationTx(op, request) = "created"
  PROVE  Fresh(op)
  BY DEF Memory, Applied, Cleaned, Known, claimBillingOperationTx

\* Finishing a fresh operation appends its entry and leaves it applied.
LEMMA FinishKeepsMemory ==
  ASSUME Memory, balance' \in [Users -> Int], rate' \in Rates,
         NEW op \in Ops, NEW request, NEW u \in Users \cup {"none"}, NEW amount \in Int, NEW after \in Int,
         Fresh(op), finishBillingOperationTx(op, request, u, amount, after)
  PROVE  Memory'
  <1> DEFINE entry == [op |-> op, user |-> u, amount |-> amount, after |-> after, kept |-> TRUE]
             n == Len(ledger) + 1
             row == [request |-> request, entry |-> n]
  <1>1. /\ ledger' = Append(ledger, entry)
        /\ operation' = [operation EXCEPT ![op] = row]
        /\ answered' = [answered EXCEPT ![op] = @ \cup {<<request, amount, after>>}]
        /\ effects' = [effects EXCEPT ![op] = @ + 1]
        /\ tombstone' = tombstone
    BY DEF finishBillingOperationTx
  <1>2. entry \in Entries /\ ledger \in Seq(Entries) /\ Rows
    BY DEF Entries, Memory, Rows
  <1>3. /\ ledger' \in Seq(Entries) /\ DOMAIN ledger = 1..Len(ledger)
        /\ DOMAIN ledger' = 1..n /\ n \in Nat
        /\ \A e \in DOMAIN ledger : ledger'[e] = ledger[e]
        /\ ledger'[n] = entry
    <2> HIDE DEF entry
    <2> QED BY <1>1, <1>2
  <1>4. Rows'
    <2> HIDE DEF row, n, entry
    <2>1. operation' = [o \in Ops |-> operation'[o]]
      BY Zenon, <1>1, <1>2 DEF Rows
    <2>2. answered' = [o \in Ops |-> answered'[o]]
      BY Zenon, <1>1, <1>2 DEF Rows
    <2>3. effects' \in [Ops -> Nat]
      BY <1>1, <1>2 DEF Rows
    <2> QED BY <2>1, <2>2, <2>3, <1>3 DEF Rows
  <1>5. operation'[op] = row /\ answered'[op] = {<<request, amount, after>>} /\ effects'[op] = 1
    BY <1>1, <1>2 DEF Rows, Fresh
  <1>6. ASSUME NEW o \in Ops, o # op
        PROVE  operation'[o] = operation[o] /\ answered'[o] = answered[o] /\ effects'[o] = effects[o]
    BY <1>1, <1>2, <1>6 DEF Rows
  <1>7. row # NoOperation
    BY <1>3 DEF NoOperation
  <1>8. Applied(op)'
    <2>1. operation'[op].entry = n /\ operation'[op].request = request
      BY <1>5
    <2>2. ledger'[n].kept /\ ledger'[n].op = op /\ ledger'[n].amount = amount /\ ledger'[n].after = after
      BY <1>3
    <2>3. n \in DOMAIN ledger'
      BY <1>3
    <2> QED BY <1>1, <1>5, <1>7, <2>1, <2>2, <2>3 DEF Applied, Known, Answer, Fresh
  <1>9. ASSUME NEW o \in Ops, o # op PROVE (Fresh(o) \/ Applied(o) \/ Cleaned(o))'
    <2>1. CASE Fresh(o)
      BY Zenon, <2>1, <1>1, <1>6, <1>9 DEF Fresh, Known
    <2>2. CASE Applied(o)
      <3>1. operation[o].entry \in DOMAIN ledger' /\ ledger'[operation[o].entry] = ledger[operation[o].entry]
        BY <2>2, <1>3 DEF Applied
      <3> QED BY Zenon, <2>2, <3>1, <1>1, <1>6, <1>9 DEF Applied, Known, Answer
    <2>3. CASE Cleaned(o)
      BY Zenon, <2>3, <1>1, <1>6, <1>9 DEF Cleaned, Known
    <2> QED BY <2>1, <2>2, <2>3 DEF Memory
  <1>10. ASSUME NEW e \in DOMAIN ledger', ledger'[e].kept
         PROVE  (Known(ledger[e].op) /\ operation[ledger[e].op].entry = e)'
    <2>1. CASE e = n
      BY <2>1, <1>3, <1>5, <1>7 DEF Known
    <2>2. CASE e # n
      <3>1. e \in DOMAIN ledger /\ ledger'[e] = ledger[e]
        BY <1>3, <2>2
      <3>2. Known(ledger[e].op) /\ operation[ledger[e].op].entry = e
        BY <3>1, <1>10 DEF Memory
      <3>3. ledger[e].op \in Ops /\ ledger[e].op # op
        <4>1. ledger[e] \in Entries
          BY <3>1, <1>2
        <4>2. ~Known(op)
          BY DEF Fresh
        <4> QED BY <4>1, <4>2, <3>2 DEF Entries
      <3> QED BY Zenon, <3>1, <3>2, <3>3, <1>6 DEF Known
    <2> QED BY <2>1, <2>2
  <1> QED BY <1>4, <1>8, <1>9, <1>10 DEF Memory

\* A replay answers what the entry says, which is what was answered before.
LEMMA ReplayKeepsMemory ==
  ASSUME Memory, NEW op \in Ops, NEW request, ReplayOperation(op, request)
  PROVE  Memory'
  <1>1. /\ Known(op) /\ operation[op].request = request
        /\ answered' = [answered EXCEPT ![op] = @ \cup {<<request, ledger[operation[op].entry].amount,
                                                         ledger[operation[op].entry].after>>}]
        /\ UNCHANGED <<balance, nextLot, lots, rate, operation, tombstone, ledger, effects>>
    BY DEF ReplayOperation, claimBillingOperationTx, Known
  <1>2. Applied(op)
    BY <1>1 DEF Memory, Fresh, Cleaned
  <1>3. answered' = answered
    <2>1. answered = [o \in Ops |-> answered[o]]
      BY DEF Memory, Rows
    <2>2. answered[op] = {<<request, ledger[operation[op].entry].amount, ledger[operation[op].entry].after>>}
      BY <1>1, <1>2 DEF Applied, Answer
    <2>3. answered' = [answered EXCEPT ![op] = answered[op]]
      BY Zenon, <1>1, <2>2
    <2> QED BY <2>1, <2>3
  <1>4. Rows'
    BY Zenon, <1>1, <1>3 DEF Memory, Rows
  <1>5. ASSUME NEW o \in Ops PROVE (Fresh(o) \/ Applied(o) \/ Cleaned(o))'
    <2>1. (Fresh(o)' <=> Fresh(o)) /\ (Applied(o)' <=> Applied(o)) /\ (Cleaned(o)' <=> Cleaned(o))
      BY <1>1, <1>3 DEF Fresh, Applied, Cleaned, Known, Answer
    <2> QED BY Zenon, <2>1 DEF Memory
  <1>6. (\A e \in DOMAIN ledger : ledger[e].kept =>
           Known(ledger[e].op) /\ operation[ledger[e].op].entry = e)'
    BY <1>1 DEF Memory, Known
  <1> QED BY <1>4, <1>5, <1>6 DEF Memory

\* The cleanup removes an operation row exactly when it removes its entry, and
\* leaves a tombstone.
LEMMA CleanupKeepsMemory ==
  ASSUME Memory, NEW last, NEW gone, NEW entries \in SUBSET CandidateEntries(last, gone),
         last \in DOMAIN ledger, deleteInformationCandidates(gone, entries)
  PROVE  Memory'
  <1> DEFINE cleaned == {ledger[e].op : e \in entries}
  <1>1. /\ tombstone' = tombstone \cup cleaned
        /\ operation' = [op \in Ops |-> IF op \in cleaned THEN NoOperation ELSE operation[op]]
        /\ ledger' = [e \in DOMAIN ledger |-> [ledger[e] EXCEPT !.kept = @ /\ e \notin entries]]
        /\ UNCHANGED <<balance, rate, answered, effects>>
    BY DEF deleteInformationCandidates
  <1>2. Rows /\ ledger \in Seq(Entries) /\ DOMAIN ledger = 1..Len(ledger) /\ Len(ledger) \in Nat
    BY DEF Memory, Rows
  <1>3. \A e \in DOMAIN ledger : ledger[e] \in Entries
    BY <1>2
  <1>4. \A e \in entries : e \in DOMAIN ledger /\ ledger[e].kept
    BY <1>2 DEF CandidateEntries
  <1>5. \A e \in DOMAIN ledger :
           /\ ledger'[e] \in Entries
           /\ ledger'[e].op = ledger[e].op /\ ledger'[e].amount = ledger[e].amount
           /\ ledger'[e].after = ledger[e].after
           /\ ledger'[e].kept = (ledger[e].kept /\ e \notin entries)
    BY Zenon, <1>1, <1>3 DEF Entries
  <1>6. DOMAIN ledger' = DOMAIN ledger /\ ledger' \in Seq(Entries)
    <2>1. ledger' = [e \in 1..Len(ledger) |-> ledger'[e]] /\ \A e \in 1..Len(ledger) : ledger'[e] \in Entries
      BY Zenon, <1>1, <1>2, <1>5
    <2>2. ledger' \in [1..Len(ledger) -> Entries]
      BY <2>1
    <2> QED BY <1>2, <2>1, <2>2
  <1>7. Rows'
    BY <1>1, <1>2, <1>6 DEF Rows
  <1>8. ASSUME NEW op \in Ops PROVE (Fresh(op) \/ Applied(op) \/ Cleaned(op))'
    <2>1. CASE op \in cleaned
      <3>1. PICK e \in entries : ledger[e].op = op
        BY <2>1
      <3>2. Known(op)
        BY <3>1, <1>4 DEF Memory
      <3>3. Applied(op)
        BY <3>2 DEF Memory, Fresh, Cleaned
      <3> QED BY Zenon, <2>1, <3>3, <1>1 DEF Applied, Cleaned, Known, Answer
    <2>2. CASE op \notin cleaned
      <3>1. operation'[op] = operation[op] /\ answered'[op] = answered[op] /\ effects'[op] = effects[op]
            /\ (op \in tombstone' <=> op \in tombstone)
        BY <2>2, <1>1
      <3>2. CASE Fresh(op)
        BY <3>1, <3>2 DEF Fresh, Known
      <3>3. CASE Cleaned(op)
        BY <3>1, <3>3 DEF Cleaned, Known
      <3>4. CASE Applied(op)
        <4> DEFINE e == operation[op].entry
        <4>1. e \in DOMAIN ledger /\ ledger[e].kept /\ ledger[e].op = op
          BY <3>4 DEF Applied
        <4>2. e \notin entries
          BY <4>1, <2>2
        <4>3. e \in DOMAIN ledger' /\ ledger'[e].kept /\ ledger'[e].op = op
              /\ ledger'[e].amount = ledger[e].amount /\ ledger'[e].after = ledger[e].after
          BY Zenon, <4>1, <4>2, <1>5, <1>6
        <4>4. operation'[op].entry = e /\ operation'[op].request = operation[op].request
          BY Zenon, <3>1
        <4> HIDE DEF e
        <4>5. Answer(op)' = Answer(op)
          BY <4>3, <4>4, <3>1 DEF Answer, e
        <4> QED BY Zenon, <3>1, <3>4, <4>3, <4>4, <4>5 DEF Applied, Known
      <3> QED BY <3>2, <3>3, <3>4 DEF Memory
    <2> QED BY <2>1, <2>2
  <1>9. ASSUME NEW e \in DOMAIN ledger', ledger'[e].kept
        PROVE  (Known(ledger[e].op) /\ operation[ledger[e].op].entry = e)'
    <2>1. e \in DOMAIN ledger /\ ledger[e].kept /\ e \notin entries /\ ledger'[e].op = ledger[e].op
      BY Zenon, <1>5, <1>6, <1>9
    <2>2. Known(ledger[e].op) /\ operation[ledger[e].op].entry = e /\ ledger[e].op \in Ops
      BY <2>1, <1>3 DEF Memory, Entries
    <2>3. ledger[e].op \notin cleaned
      <3> SUFFICES ASSUME NEW f \in entries, ledger[f].op = ledger[e].op PROVE FALSE
        OBVIOUS
      <3>1. f \in DOMAIN ledger /\ ledger[f].kept
        BY <1>4
      <3>2. operation[ledger[f].op].entry = f
        BY <3>1 DEF Memory
      <3> QED BY <3>2, <2>1, <2>2
    <2> QED BY <2>1, <2>2, <2>3, <1>1 DEF Known
  <1> QED BY <1>7, <1>8, <1>9 DEF Memory

\* Every step keeps the invariant.
LEMMA MemoryStep == Memory /\ [CashNext]_cashVars => Memory'
  <1> SUFFICES ASSUME Memory, [CashNext]_cashVars PROVE Memory'
    OBVIOUS
  <1>t. balance \in [Users -> Int] /\ rate \in Rates /\ Rates \subseteq Int /\ Amounts \subseteq Int
    BY CashAssumption DEF Memory, Rows
  <1>1. ASSUME NEW op \in Ops, NEW r \in Rates, SetRechargeRate(op, r) PROVE Memory'
    <2> DEFINE request == <<"recharge_rate", r>>
    <2>1. CASE /\ claimBillingOperationTx(op, request) = "created"
               /\ rate' = r
               /\ finishBillingOperationTx(op, request, "none", r, 0)
               /\ UNCHANGED <<balance, nextLot, lots>>
      <3>1. Fresh(op)
        BY <2>1, CreatedIsFresh
      <3>2. balance' \in [Users -> Int] /\ rate' \in Rates /\ r \in Int
        BY <2>1, <1>t
      <3> HIDE DEF request
      <3> QED BY <2>1, <3>1, <3>2, FinishKeepsMemory
    <2>2. CASE ReplayOperation(op, request)
      BY Zenon, <2>2, ReplayKeepsMemory
    <2> QED BY <1>1, <2>1, <2>2 DEF SetRechargeRate
  <1>2. ASSUME NEW op \in Ops, NEW u \in Users, NEW a \in Amounts, RechargeUser(op, u, a) PROVE Memory'
    <2> DEFINE request == <<"recharge", u, a>>
               usd == MultiplyToAmount(a, rate)
    <2>1. CASE /\ claimBillingOperationTx(op, request) = "created"
               /\ balance' = [balance EXCEPT ![u] = @ + usd]
               /\ finishBillingOperationTx(op, request, u, usd, balance[u] + usd)
               /\ UNCHANGED rate
      <3>1. Fresh(op)
        BY <2>1, CreatedIsFresh
      <3>2. usd \in Int
        BY <1>t, AmountType
      <3> HIDE DEF request, usd
      <3>3. balance' \in [Users -> Int] /\ rate' \in Rates /\ balance[u] + usd \in Int
        BY <2>1, <1>t, <3>2
      <3> QED BY Zenon, <2>1, <3>1, <3>2, <3>3, FinishKeepsMemory
    <2>2. CASE ReplayOperation(op, request)
      BY <2>2, ReplayKeepsMemory
    <2> QED BY <1>2, <2>1, <2>2 DEF RechargeUser
  <1>3. ASSUME NEW op \in Ops, NEW u \in Users, NEW a \in Int, AdjustUserBalance(op, u, a) PROVE Memory'
    <2> DEFINE request == <<"adjustment", u, a>>
               after == balance[u] + a
    <2>1. CASE /\ claimBillingOperationTx(op, request) = "created"
               /\ balance' = [balance EXCEPT ![u] = after]
               /\ finishBillingOperationTx(op, request, u, a, after)
               /\ UNCHANGED rate
      <3>1. Fresh(op)
        BY <2>1, CreatedIsFresh
      <3> HIDE DEF request
      <3>2. balance' \in [Users -> Int] /\ rate' \in Rates /\ after \in Int
        BY <2>1, <1>t
      <3> QED BY <2>1, <3>1, <3>2, FinishKeepsMemory
    <2>2. CASE ReplayOperation(op, request)
      BY <2>2, ReplayKeepsMemory
    <2> QED BY <1>3, <2>1, <2>2 DEF AdjustUserBalance
  <1>4. ASSUME NEW last \in DOMAIN ledger, RunInformationCleanupBatch(last) PROVE Memory'
    BY Zenon, <1>4, CleanupKeepsMemory DEF RunInformationCleanupBatch
  <1>5. ASSUME UNCHANGED cashVars PROVE Memory'
    BY <1>5 DEF Memory, Rows, Fresh, Applied, Cleaned, Known, Answer, cashVars
  <1>6. \A a \in Amounts \cup {-b : b \in Amounts} : a \in Int
    BY <1>t
  <1> QED BY Zenon, <1>1, <1>2, <1>3, <1>4, <1>5, <1>6 DEF CashNext

\* The memory of operation IDs is kept for ever.
THEOREM MemoryInvariant == CashSpec => []Memory
  BY MemoryInit, MemoryStep, PTL DEF CashSpec

\* An operation ID changes the state at most once, however often the request
\* is repeated and also after the cleanup deleted the operation row
\* (claimBillingOperationTx, deleteInformationCandidates).
THEOREM AppliedOnceHolds == CashSpec => []AppliedOnce
  <1>1. Memory => AppliedOnce
    BY DEF Memory, Fresh, Applied, Cleaned, AppliedOnce
  <1> QED BY <1>1, MemoryInvariant, PTL

\* All successful answers for an operation ID are the same, also when the
\* recharge rate has changed (replayBillingLedgerTx).
THEOREM AnswersAgreeHolds == CashSpec => []AnswersAgree
  <1>1. ASSUME Memory, NEW op \in Ops PROVE \A x, y \in answered[op] : x = y
    <2>1. answered[op] = {} \/ \E x : answered[op] = {x}
      BY Zenon, <1>1 DEF Memory, Fresh, Applied, Cleaned
    <2> QED BY Zenon, <2>1
  <1>2. Memory => AnswersAgree
    BY Zenon, <1>1 DEF AnswersAgree
  <1> QED BY <1>2, MemoryInvariant, PTL

\* A replay always finds the ledger entry it answers from
\* (billing_operations.result_ledger_entry_id).
THEOREM ReplayFindsEntryHolds == CashSpec => []ReplayFindsEntry
  <1>1. Memory => ReplayFindsEntry
    BY DEF Memory, Fresh, Applied, Cleaned, Known, ReplayFindsEntry
  <1> QED BY <1>1, MemoryInvariant, PTL

\* However often, and however late, a client resends a money operation, it
\* takes effect once and every answer says the same.
THEOREM OperationsIdempotentHolds == CashSpec => []OperationsIdempotent
  BY AppliedOnceHolds, AnswersAgreeHolds, PTL DEF OperationsIdempotent

-----------------------------------------------------------------------------
(* Subscriptions.                                                          *)

\* Products of natural numbers.
LEMMA Product == \A a, b \in Nat : a * b \in Nat
  OBVIOUS

\* Multiplying by a positive number keeps the order.
LEMMA ProductOrder ==
  ASSUME NEW d \in Nat \ {0}, NEW a \in Int, NEW b \in Int
  PROVE  /\ a * d \in Int /\ b * d \in Int
         /\ a <= b <=> a * d <= b * d
         /\ a < b <=> a * d < b * d
  OBVIOUS

\* The quotient PeriodAt computes is the number of whole slots elapsed.
LEMMA Quotient ==
  ASSUME NEW d \in Nat \ {0}, NEW a \in Nat
  PROVE  /\ a \div d \in Nat
         /\ (a \div d) * d <= a /\ a < (a \div d) * d + d
  OBVIOUS

\* billingExpiryDays in ticks.
LEMMA Expiry ==
  ASSUME NEW start \in Nat, NEW days \in Nat \ {0}, NEW count \in Int
  PROVE  /\ days * DayTicks \in Nat \ {0}
         /\ billingExpiryDays(start, days, count) = start + count * (days * DayTicks)
         /\ count \in Nat => billingExpiryDays(start, days, count) \in Nat
         /\ count \in Nat => billingExpiryDays(start, days, count) >= start
  <1>1. days * DayTicks \in Nat \ {0}
    BY SubscriptionsAssumption
  <1>2. days * count * DayTicks = count * (days * DayTicks)
    BY SubscriptionsAssumption
  <1>3. count \in Nat => count * (days * DayTicks) \in Nat
    BY <1>1, Product
  <1> DEFINE gap == count * (days * DayTicks)
  <1>4. billingExpiryDays(start, days, count) = start + gap
    BY <1>2 DEF billingExpiryDays
  <1>5. count \in Nat => gap \in Nat
    BY <1>3
  <1> HIDE DEF gap
  <1>6. /\ count \in Nat => start + gap \in Nat
        /\ count \in Nat => start + gap >= start
    BY <1>5
  <1> QED BY <1>1, <1>4, <1>6 DEF gap

\* The period that contains an instant: the slot of the grid that begins last
\* before it.
LEMMA Slot ==
  ASSUME NEW start \in Nat, NEW days \in Nat \ {0}, NEW at \in Nat, start <= at
  PROVE  LET slot == (at - start) \div (days * DayTicks) IN
         /\ slot \in Nat
         /\ \A count \in Nat : at < billingExpiryDays(start, days, count) => slot < count
         /\ \A k \in Nat : billingExpiryDays(billingExpiryDays(start, days, k), days, 1) <= at => k < slot
  <1> DEFINE slot == (at - start) \div (days * DayTicks)
             d == days * DayTicks
  <1>1. d \in Nat \ {0} /\ at - start \in Nat
    BY Expiry
  <1> HIDE DEF d
  <1>2. slot \in Nat /\ slot * d <= at - start /\ at - start < slot * d + d
    BY Zenon, <1>1, Quotient DEF d
  <1> HIDE DEF slot
  <1>3. ASSUME NEW count \in Nat, at < billingExpiryDays(start, days, count)
        PROVE  slot < count
    <2>1. at < start + count * d
      BY <1>3, Expiry DEF d
    <2>2. slot * d \in Int /\ count * d \in Int
      BY <1>1, <1>2, ProductOrder
    <2>3. slot * d < count * d
      BY <1>1, <1>2, <2>1, <2>2
    <2> QED BY <1>1, <1>2, <2>3, ProductOrder
  <1>4. ASSUME NEW k \in Nat, billingExpiryDays(billingExpiryDays(start, days, k), days, 1) <= at
        PROVE  k < slot
    <2>1. /\ billingExpiryDays(start, days, k) = start + k * d /\ billingExpiryDays(start, days, k) \in Nat
      BY Expiry DEF d
    <2>2. (start + k * d) + 1 * d <= at
      BY <1>4, <2>1, Expiry DEF d
    <2>3. slot * d \in Int /\ k * d \in Int
      BY <1>1, <1>2, ProductOrder
    <2>4. k * d < slot * d
      BY <1>1, <1>2, <2>2, <2>3
    <2> QED BY <1>1, <1>2, <2>4, ProductOrder
  <1> QED BY <1>2, <1>3, <1>4 DEF slot

-----------------------------------------------------------------------------
(* The rows of one subscription: b, its entitlements es and its periods ps. *)

SubFields == {"user", "enabled", "days", "allowance", "count", "number", "expires", "current", "plan",
              "config", "charge", "priority"}
Segments == [start : Nat, days : Nat \ {0}, allowance : Nat, count : Nat, first : Nat,
             end : Nat \cup {Never}, live : BOOLEAN]
PeriodRows == [start : Nat, end : Nat, allowance : Nat, remaining : Nat, number : Nat, ent : Nat, open : BOOLEAN]

Covers(e, at) == e.live /\ e.start <= at /\ After(e.end, at)

\* Live entitlements follow one another without a gap up to the expiry.
Chained(es, expires) ==
    /\ \A i, j \in 1..Len(es) : i < j /\ es[i].live /\ es[j].live => es[i].end # Never /\ es[i].end <= es[j].start
    /\ \A i \in 1..Len(es), at \in Nat :
           es[i].live /\ es[i].start <= at /\ After(expires, at) => \E k \in 1..Len(es) : Covers(es[k], at)
    /\ expires # Never => \A i \in 1..Len(es) : es[i].live => es[i].end # Never /\ es[i].end <= expires

EndsWithCount(e) == e.end = IF e.count = 0 THEN Never ELSE billingExpiryDays(e.start, e.days, e.count)

\* A period is a slot of its entitlement's grid.
OnGrid(p, e) ==
    /\ p.number >= e.first
    /\ p.start = billingExpiryDays(e.start, e.days, p.number - e.first)
    /\ p.end = billingExpiryDays(p.start, e.days, 1)
    /\ e.count > 0 => p.number < e.first + e.count

Precedes(p, q) == p.ent < q.ent \/ (p.ent = q.ent /\ p.number < q.number)

\* Periods are laid along the grids, each after the ones before it.
Laid(es, ps) ==
    /\ \A i \in 1..Len(ps) : ps[i].ent \in 1..Len(es) /\ OnGrid(ps[i], es[ps[i].ent])
    /\ \A i, j \in 1..Len(ps) : i < j => Precedes(ps[i], ps[j])

OpenOnly(ps, enabled) == \A i \in 1..Len(ps) : ps[i].open <=> (enabled /\ i = Len(ps))

Row(b, ps) ==
    /\ DOMAIN b = SubFields /\ b.expires \in Nat \cup {Never} /\ b.count \in Nat
    /\ b.current = Len(ps) /\ Len(ps) > 0 /\ b.enabled \in BOOLEAN

Granted(es) == es \in Seq(Segments) /\ \A i \in 1..Len(es) : EndsWithCount(es[i])

Sound(b, es, ps) ==
    /\ Row(b, ps) /\ Granted(es) /\ ps \in Seq(PeriodRows)
    /\ Chained(es, b.expires) /\ Laid(es, ps)
    /\ es[ps[Len(ps)].ent].live
    /\ OpenOnly(ps, b.enabled)

Close(ps) == [ps EXCEPT ![Len(ps)].open = FALSE]

\* A period that is closed is still a period.
LEMMA ClosedRow ==
  ASSUME NEW p \in PeriodRows
  PROVE  [p EXCEPT !.open = FALSE] \in PeriodRows
  BY Zenon DEF PeriodRows

\* Closing the last period changes nothing else.
LEMMA CloseKeeps ==
  ASSUME NEW ps \in Seq(PeriodRows), Len(ps) > 0, NEW es, Laid(es, ps), NEW enabled, OpenOnly(ps, enabled)
  PROVE  /\ Close(ps) \in Seq(PeriodRows) /\ Len(Close(ps)) = Len(ps)
         /\ Laid(es, Close(ps)) /\ OpenOnly(Close(ps), FALSE)
         /\ Close(ps)[Len(ps)].ent = ps[Len(ps)].ent
  <1>1. Len(ps) \in 1..Len(ps) /\ DOMAIN ps = 1..Len(ps) /\ Len(ps) \in Nat
    OBVIOUS
  <1>2. [ps[Len(ps)] EXCEPT !.open = FALSE] \in PeriodRows
    BY <1>1, ClosedRow
  <1>3. Close(ps) \in Seq(PeriodRows) /\ Len(Close(ps)) = Len(ps)
    <2> DEFINE last == [ps[Len(ps)] EXCEPT !.open = FALSE]
    <2>1. Close(ps) = [ps EXCEPT ![Len(ps)] = last] /\ last \in PeriodRows
      BY Zenon, <1>2 DEF Close
    <2> HIDE DEF last
    <2> QED BY <1>1, <2>1
  <1>4. \A i \in 1..Len(ps) : i # Len(ps) => Close(ps)[i] = ps[i]
    BY <1>1 DEF Close
  <1>5. Close(ps)[Len(ps)] = [ps[Len(ps)] EXCEPT !.open = FALSE]
    BY <1>1 DEF Close
  <1>6. /\ Close(ps)[Len(ps)].ent = ps[Len(ps)].ent /\ Close(ps)[Len(ps)].number = ps[Len(ps)].number
        /\ Close(ps)[Len(ps)].start = ps[Len(ps)].start /\ Close(ps)[Len(ps)].end = ps[Len(ps)].end
        /\ Close(ps)[Len(ps)].open = FALSE
    BY <1>1, <1>5 DEF PeriodRows
  <1>7. ASSUME NEW i \in 1..Len(ps)
        PROVE  /\ Close(ps)[i].ent = ps[i].ent /\ Close(ps)[i].number = ps[i].number
               /\ Close(ps)[i].start = ps[i].start /\ Close(ps)[i].end = ps[i].end
               /\ i # Len(ps) => Close(ps)[i].open = ps[i].open
    BY Zenon, <1>4, <1>6
  <1>8. Laid(es, Close(ps))
    <2>1. ASSUME NEW i \in 1..Len(ps)
          PROVE  Close(ps)[i].ent \in 1..Len(es) /\ OnGrid(Close(ps)[i], es[Close(ps)[i].ent])
      BY <1>7 DEF Laid, OnGrid
    <2>2. ASSUME NEW i \in 1..Len(ps), NEW j \in 1..Len(ps), i < j
          PROVE  Precedes(Close(ps)[i], Close(ps)[j])
      BY <1>7, <2>2 DEF Laid, Precedes
    <2> QED BY Zenon, <1>3, <2>1, <2>2 DEF Laid
  <1>9. OpenOnly(Close(ps), FALSE)
    <2>1. ASSUME NEW i \in 1..Len(ps) PROVE ~Close(ps)[i].open
      <3>1. CASE i = Len(ps)
        BY Zenon, <1>6, <3>1
      <3>2. CASE i # Len(ps)
        BY Zenon, <1>7, <3>2 DEF OpenOnly
      <3> QED BY <3>1, <3>2
    <2> QED BY Zenon, <1>3, <2>1 DEF OpenOnly
  <1> QED BY Zenon, <1>3, <1>6, <1>8, <1>9

\* Closing the last period keeps the entitlement and number of every period.
LEMMA CloseFields ==
  ASSUME NEW ps \in Seq(PeriodRows), Len(ps) > 0, NEW i \in 1..Len(ps)
  PROVE  Close(ps)[i].ent = ps[i].ent /\ Close(ps)[i].number = ps[i].number
  <1>1. Len(ps) \in 1..Len(ps) /\ DOMAIN ps = 1..Len(ps) /\ ps[i] \in PeriodRows
    OBVIOUS
  <1>2. Close(ps)[i] = IF i = Len(ps) THEN [ps[i] EXCEPT !.open = FALSE] ELSE ps[i]
    BY Zenon, <1>1 DEF Close
  <1> QED BY <1>1, <1>2 DEF PeriodRows

\* A subscription whose other columns change.
LEMMA RelabelSound ==
  ASSUME NEW b, NEW es, NEW ps, Sound(b, es, ps), NEW c, DOMAIN c = SubFields,
         c.expires = b.expires, c.count = b.count, c.current = b.current, c.enabled = b.enabled
  PROVE  Sound(c, es, ps)
  BY Zenon DEF Sound, Row

\* A subscription is disabled and its period closed.
LEMMA DisableSound ==
  ASSUME NEW b, NEW es, NEW ps, Sound(b, es, ps), NEW c, DOMAIN c = SubFields,
         c.expires = b.expires, c.count = b.count, c.current = b.current, c.enabled = FALSE
  PROVE  Sound(c, es, Close(ps))
  <1>1. ps \in Seq(PeriodRows) /\ Len(ps) > 0 /\ Laid(es, ps) /\ OpenOnly(ps, b.enabled)
    BY DEF Sound, Row
  <1>2. /\ Close(ps) \in Seq(PeriodRows) /\ Len(Close(ps)) = Len(ps)
        /\ Laid(es, Close(ps)) /\ OpenOnly(Close(ps), FALSE)
        /\ Close(ps)[Len(ps)].ent = ps[Len(ps)].ent
    BY Zenon, <1>1, CloseKeeps
  <1> QED BY Zenon, <1>2 DEF Sound, Row

\* A sequence with one more element.
LEMMA OneMore ==
  ASSUME NEW S, NEW xs \in Seq(S), NEW x \in S
  PROVE  /\ Append(xs, x) \in Seq(S) /\ Len(Append(xs, x)) = Len(xs) + 1 /\ Len(xs) \in Nat
         /\ Append(xs, x)[Len(xs) + 1] = x
         /\ \A i \in 1..Len(xs) : Append(xs, x)[i] = xs[i]
         /\ \A i \in 1..(Len(xs) + 1) : i \in 1..Len(xs) \/ i = Len(xs) + 1
  OBVIOUS

\* The fields of rows.
LEMMA SegmentTypes ==
  ASSUME NEW e \in Segments
  PROVE  /\ e.start \in Nat /\ e.days \in Nat \ {0} /\ e.count \in Nat /\ e.first \in Nat
         /\ e.end \in Nat \cup {Never}
  BY DEF Segments

\* The columns of a period.
LEMMA PeriodTypes ==
  ASSUME NEW p \in PeriodRows
  PROVE  p.start \in Nat /\ p.end \in Nat /\ p.number \in Nat /\ p.ent \in Nat
  BY DEF PeriodRows

\* A period on a grid begins no earlier than its entitlement and ends later.
LEMMA GridOrder ==
  ASSUME NEW p \in PeriodRows, NEW e \in Segments, OnGrid(p, e)
  PROVE  e.start <= p.start /\ p.start <= p.end /\ p.number - e.first \in Nat
  <1>1. p.number - e.first \in Nat
    BY SegmentTypes, PeriodTypes DEF OnGrid
  <1>2. /\ e.start \in Nat /\ e.days \in Nat \ {0} /\ p.start \in Nat /\ p.end \in Nat
        /\ p.number - e.first \in Int /\ 1 \in Int /\ 1 \in Nat
    BY <1>1, SegmentTypes, PeriodTypes
  <1>3. p.start >= e.start
    BY ZenonT(30), <1>1, <1>2, Expiry DEF OnGrid
  <1>4. p.end >= p.start
    BY ZenonT(30), <1>2, Expiry DEF OnGrid
  <1> QED BY <1>1, <1>2, <1>3, <1>4

\* The period opened for an instant: the slot of the covering entitlement.
OpenedAt(p, e, k, at) ==
    LET slot == (at - e.start) \div (e.days * DayTicks) IN
    /\ p \in PeriodRows /\ p.ent = k /\ p.open = TRUE
    /\ p.number = e.first + slot
    /\ p.start = billingExpiryDays(e.start, e.days, slot)
    /\ p.end = billingExpiryDays(p.start, e.days, 1)

\* It lies on the grid,
LEMMA OpenedOnGrid ==
  ASSUME NEW e \in Segments, EndsWithCount(e), NEW at \in Nat, Covers(e, at), NEW k, NEW p, OpenedAt(p, e, k, at)
  PROVE  OnGrid(p, e)
  <1> DEFINE slot == (at - e.start) \div (e.days * DayTicks)
  <1>1. /\ e.start \in Nat /\ e.days \in Nat \ {0} /\ e.count \in Nat /\ e.first \in Nat
        /\ e.start <= at /\ After(e.end, at)
    BY SegmentTypes DEF Covers
  <1>2. /\ slot \in Nat
        /\ \A count \in Nat : at < billingExpiryDays(e.start, e.days, count) => slot < count
    BY <1>1, Slot
  <1>3. /\ p.number = e.first + slot /\ p.start = billingExpiryDays(e.start, e.days, slot)
        /\ p.end = billingExpiryDays(p.start, e.days, 1)
    BY DEF OpenedAt
  <1> HIDE DEF slot
  <1>4. e.count > 0 => slot < e.count
    <2> SUFFICES ASSUME e.count > 0 PROVE slot < e.count
      OBVIOUS
    <2>0. e.count \in Int /\ e.count # 0
      BY <1>1
    <2>1. e.end = billingExpiryDays(e.start, e.days, e.count) /\ billingExpiryDays(e.start, e.days, e.count) \in Nat
      BY Zenon, <1>1, <2>0, Expiry DEF EndsWithCount
    <2>2. at < e.end
      BY <1>1, <2>1 DEF After, Never
    <2> QED BY <1>1, <1>2, <2>1, <2>2
  <1>5. p.number >= e.first /\ p.number - e.first = slot /\ (e.count > 0 => p.number < e.first + e.count)
    BY <1>1, <1>2, <1>3, <1>4
  <1> QED BY Zenon, <1>3, <1>5 DEF OnGrid

\* Periods are ordered by entitlement, then by number.
LEMMA PrecedesTransitive ==
  ASSUME NEW p, NEW q, NEW r, p.ent \in Nat, q.ent \in Nat, r.ent \in Nat,
         p.number \in Nat, q.number \in Nat, r.number \in Nat, Precedes(p, q), Precedes(q, r)
  PROVE  Precedes(p, r)
  BY DEF Precedes

\* Bounds that leave no room.
LEMMA OnlyOrder ==
  \A a, b, c, d, f \in Nat : ~(a > f /\ a <= b /\ b <= c /\ c <= d /\ d <= f)
  OBVIOUS

\* after every earlier one.
LEMMA OpenedLast ==
  ASSUME NEW b, NEW es, NEW ps, Sound(b, es, ps), NEW at \in Nat, ps[Len(ps)].end <= at,
         NEW k \in 1..Len(es), Covers(es[k], at), NEW p, OpenedAt(p, es[k], k, at),
         NEW i \in 1..Len(ps)
  PROVE  Precedes(ps[i], p)
  <1> DEFINE q == ps[Len(ps)]
             e == es[q.ent]
             slot == (at - es[k].start) \div (es[k].days * DayTicks)
  <1>1. /\ ps \in Seq(PeriodRows) /\ Len(ps) \in 1..Len(ps) /\ Laid(es, ps) /\ es \in Seq(Segments) /\ e.live
        /\ Chained(es, b.expires) /\ Len(ps) \in Nat
    BY DEF Sound, Row, Granted
  <1>2. q \in PeriodRows /\ q.ent \in 1..Len(es) /\ OnGrid(q, e) /\ e \in Segments /\ es[k] \in Segments
    BY <1>1 DEF Laid
  <1>3. e.start <= q.start /\ q.start <= q.end /\ q.number - e.first \in Nat
    BY <1>2, GridOrder
  <1>4. /\ e.start \in Nat /\ e.days \in Nat \ {0} /\ e.first \in Nat /\ q.start \in Nat /\ q.end \in Nat /\ q.ent \in Nat
        /\ q.number \in Nat /\ es[k].start \in Nat /\ es[k].days \in Nat \ {0} /\ es[k].first \in Nat
        /\ es[k].end \in Nat \cup {Never}
    BY Zenon, <1>2, SegmentTypes, PeriodTypes
  <1>5. p.ent = k /\ p.number = es[k].first + slot /\ p \in PeriodRows
    BY DEF OpenedAt
  <1>6. k \in Nat /\ ~(k < q.ent)
    <2>1. ASSUME k < q.ent PROVE FALSE
      <3>1. es[k].end # Never /\ es[k].end <= e.start
        BY <1>1, <1>2, <2>1 DEF Chained, Covers
      <3>2. es[k].end > at
        BY Zenon, <3>1 DEF Covers, After
      <3>3. q.end <= at /\ e.start \in Nat /\ q.start \in Nat /\ q.end \in Nat /\ es[k].end \in Nat
        BY Zenon, <1>4, <3>1
      <3> QED BY Zenon, OnlyOrder, <1>3, <3>1, <3>2, <3>3
    <2> QED BY <2>1
  <1>7. slot \in Nat /\ \A n \in Nat :
           billingExpiryDays(billingExpiryDays(es[k].start, es[k].days, n), es[k].days, 1) <= at => n < slot
    BY Zenon, <1>4, Slot DEF Covers
  <1>8. q.ent = k => q.number < p.number
    <2> SUFFICES ASSUME q.ent = k PROVE q.number < p.number
      OBVIOUS
    <2>1. billingExpiryDays(billingExpiryDays(e.start, e.days, q.number - e.first), e.days, 1) <= at
      BY <1>2 DEF OnGrid
    <2>2. q.number - e.first < slot
      BY <1>3, <1>7, <2>1
    <2> HIDE DEF q, slot
    <2> QED BY <1>4, <1>5, <1>7, <2>2
  <1> HIDE DEF slot
  <1>9. Precedes(q, p)
    BY <1>4, <1>5, <1>6, <1>8 DEF Precedes
  <1>10. CASE i = Len(ps)
    BY <1>9, <1>10
  <1>11. CASE i # Len(ps)
    <2>0. i < Len(ps)
      BY <1>1, <1>11
    <2>1. Precedes(ps[i], q)
      BY Zenon, <1>1, <2>0 DEF Laid
    <2>2. ps[i] \in PeriodRows
      BY <1>1
    <2>3. ps[i].ent \in Nat /\ ps[i].number \in Nat /\ p.ent \in Nat /\ p.number \in Nat
      BY <1>5, <2>2, PeriodTypes
    <2> DEFINE r == ps[i]
    <2>4. Precedes(r, q) /\ r.ent \in Nat /\ r.number \in Nat
      BY <2>1, <2>3
    <2> QED BY Zenon, <1>4, <1>9, <2>3, <2>4, PrecedesTransitive
  <1> QED BY <1>10, <1>11

\* The current period ran out and the one that contains the instant is opened.
LEMMA RollSound ==
  ASSUME NEW b, NEW es, NEW ps, Sound(b, es, ps), NEW at \in Nat, ps[Len(ps)].end <= at,
         NEW k \in 1..Len(es), Covers(es[k], at), NEW p, OpenedAt(p, es[k], k, at),
         NEW c, DOMAIN c = SubFields, c.expires = b.expires, c.count = b.count,
         c.current = Len(ps) + 1, c.enabled = TRUE
  PROVE  Sound(c, es, Append(Close(ps), p))
  <1> DEFINE cl == Close(ps)
             new == Append(cl, p)
             n == Len(ps)
  <1>1. /\ ps \in Seq(PeriodRows) /\ n > 0 /\ Laid(es, ps) /\ OpenOnly(ps, b.enabled) /\ Granted(es)
        /\ Row(b, ps) /\ Chained(es, b.expires)
    BY DEF Sound, Row
  <1>2. /\ cl \in Seq(PeriodRows) /\ Len(cl) = n
        /\ Laid(es, cl) /\ OpenOnly(cl, FALSE)
    BY Zenon, <1>1, CloseKeeps
  <1>3. p \in PeriodRows /\ p.ent = k /\ p.open = TRUE
    BY DEF OpenedAt
  <1> HIDE DEF cl
  <1>4. /\ new \in Seq(PeriodRows) /\ Len(new) = n + 1 /\ n \in Nat
        /\ new[n + 1] = p /\ \A i \in 1..n : new[i] = cl[i]
        /\ \A i \in 1..(n + 1) : i \in 1..n \/ i = n + 1
    BY <1>2, <1>3, OneMore
  <1>5. OnGrid(p, es[k]) /\ es[k].live
    <2>1. es[k] \in Segments /\ EndsWithCount(es[k])
      BY <1>1 DEF Granted
    <2> QED BY Zenon, <2>1, OpenedOnGrid DEF Covers
  <1>6. \A i \in 1..n : Precedes(cl[i], p)
    <2>1. \A i \in 1..n : Precedes(ps[i], p)
      BY Zenon, OpenedLast
    <2>2. \A i \in 1..n : cl[i].ent = ps[i].ent /\ cl[i].number = ps[i].number
      BY <1>1, CloseFields DEF cl
    <2> QED BY Zenon, <2>1, <2>2 DEF Precedes
  <1> HIDE DEF new, n
  <1>7. Laid(es, new)
    <2>1. ASSUME NEW i \in 1..(n + 1)
          PROVE  new[i].ent \in 1..Len(es) /\ OnGrid(new[i], es[new[i].ent])
      BY Zenon, <1>2, <1>3, <1>4, <1>5 DEF Laid
    <2>2. ASSUME NEW i \in 1..(n + 1), NEW j \in 1..(n + 1), i < j
          PROVE  Precedes(new[i], new[j])
      <3>1. i \in 1..n
        BY <1>4, <2>2
      <3> QED BY Zenon, <1>2, <1>4, <1>6, <2>2, <3>1 DEF Laid
    <2> QED BY Zenon, <1>4, <2>1, <2>2 DEF Laid
  <1>8. OpenOnly(new, TRUE)
    <2>1. ASSUME NEW i \in 1..(n + 1) PROVE new[i].open <=> i = n + 1
      <3>1. CASE i \in 1..n
        <4>1. i # n + 1 /\ new[i] = cl[i]
          BY <1>4, <3>1
        <4>2. ~cl[i].open
          BY Zenon, <1>2, <3>1 DEF OpenOnly
        <4> QED BY Zenon, <4>1, <4>2
      <3>2. CASE i = n + 1
        BY Zenon, <1>3, <1>4, <3>2
      <3> QED BY Zenon, <1>4, <3>1, <3>2
    <2> QED BY Zenon, <1>4, <2>1 DEF OpenOnly
  <1>9. Row(c, new)
    <2>1. Len(new) > 0 /\ c.current = Len(new)
      BY <1>4 DEF n
    <2> QED BY Zenon, <1>1, <2>1 DEF Row
  <1>10. es[new[Len(new)].ent].live
    BY Zenon, <1>3, <1>4, <1>5
  <1>11. Sound(c, es, new)
    BY Zenon, <1>1, <1>4, <1>7, <1>8, <1>9, <1>10 DEF Sound
  <1> QED BY <1>11 DEF new, cl

\* A renewal: a segment that begins at the expiry.
LEMMA RenewSound ==
  ASSUME NEW b, NEW es, NEW ps, Sound(b, es, ps), b.expires # Never,
         NEW e \in Segments, EndsWithCount(e), e.live, e.start = b.expires, e.count # 0,
         NEW c, DOMAIN c = SubFields, c.expires = e.end, c.count \in Nat,
         c.current = b.current, c.enabled = b.enabled
  PROVE  Sound(c, Append(es, e), ps)
  <1> DEFINE new == Append(es, e)
             n == Len(es)
  <1>1. /\ ps \in Seq(PeriodRows) /\ Laid(es, ps) /\ OpenOnly(ps, b.enabled) /\ Granted(es)
        /\ Row(b, ps) /\ Chained(es, b.expires) /\ es[ps[Len(ps)].ent].live /\ es \in Seq(Segments)
    BY DEF Sound, Granted
  <1>2. /\ new \in Seq(Segments) /\ Len(new) = n + 1 /\ n \in Nat
        /\ new[n + 1] = e /\ \A i \in 1..n : new[i] = es[i]
        /\ \A i \in 1..(n + 1) : i \in 1..n \/ i = n + 1
    BY <1>1, OneMore
  <1>3. e.end \in Nat /\ e.end >= e.start /\ e.start \in Nat /\ e.end # Never
    <2>1. e.start \in Nat /\ e.days \in Nat \ {0} /\ e.count \in Nat /\ e.count \in Int
      BY SegmentTypes
    <2>2. e.end \in Nat /\ e.end >= e.start
      BY Zenon, <2>1, Expiry DEF EndsWithCount
    <2> QED BY <2>1, <2>2 DEF Never
  <1> HIDE DEF new, n
  <1>4. \A i \in 1..n : i \in 1..(n + 1) /\ i < n + 1
    BY <1>2
  <1>5. n + 1 \in 1..(n + 1)
    BY <1>2
  <1>6. Granted(new)
    BY Zenon, <1>1, <1>2 DEF Granted, n
  <1>7. \A i \in 1..n : es[i].live => es[i].end # Never /\ es[i].end <= e.start /\ es[i].end \in Nat
    <2> SUFFICES ASSUME NEW i \in 1..n, es[i].live
                 PROVE  es[i].end # Never /\ es[i].end <= e.start /\ es[i].end \in Nat
      OBVIOUS
    <2>1. es[i] \in Segments
      BY <1>1 DEF n
    <2>2. es[i].end # Never /\ es[i].end <= e.start
      BY Zenon, <1>1 DEF Chained, n
    <2> QED BY <2>1, <2>2, SegmentTypes
  <1>8. Chained(new, e.end)
    <2>1. ASSUME NEW i \in 1..(n + 1), NEW j \in 1..(n + 1), i < j, new[i].live, new[j].live
          PROVE  new[i].end # Never /\ new[i].end <= new[j].start
      <3>1. i \in 1..n
        BY <1>2, <2>1
      <3>2. CASE j \in 1..n
        BY Zenon, <1>1, <1>2, <2>1, <3>1, <3>2 DEF Chained, n
      <3>3. CASE j = n + 1
        BY Zenon, <1>2, <1>7, <2>1, <3>1, <3>3
      <3> QED BY Zenon, <1>2, <3>2, <3>3
    <2>2. ASSUME NEW i \in 1..(n + 1), NEW at \in Nat, new[i].live, new[i].start <= at, After(e.end, at)
          PROVE  \E k \in 1..(n + 1) : Covers(new[k], at)
      <3>1. CASE e.start <= at
        BY Zenon, <1>2, <1>5, <2>2, <3>1 DEF Covers
      <3>2. CASE ~(e.start <= at)
        <4>1. After(e.start, at)
          BY <1>3, <3>2 DEF After
        <4>2. i # n + 1
          BY Zenon, <1>2, <2>2, <3>2
        <4>3. i \in 1..n
          BY Zenon, <1>2, <4>2
        <4>4. \E k \in 1..n : Covers(es[k], at)
          BY Zenon, <1>1, <1>2, <2>2, <4>1, <4>3 DEF Chained, n
        <4> QED BY Zenon, <1>2, <1>4, <4>4
      <3> QED BY <3>1, <3>2
    <2>3. ASSUME NEW i \in 1..(n + 1), new[i].live PROVE new[i].end # Never /\ new[i].end <= e.end
      <3>1. CASE i \in 1..n
        <4>1. es[i].live /\ new[i].end = es[i].end
          BY Zenon, <1>2, <2>3, <3>1
        <4> QED BY <1>3, <1>7, <3>1, <4>1
      <3>2. CASE i = n + 1
        BY <1>2, <1>3, <3>2
      <3> QED BY Zenon, <1>2, <3>1, <3>2
    <2> QED BY Zenon, <1>2, <2>1, <2>2, <2>3 DEF Chained
  <1>9. Laid(new, ps)
    <2>1. ASSUME NEW i \in 1..Len(ps)
          PROVE  ps[i].ent \in 1..(n + 1) /\ OnGrid(ps[i], new[ps[i].ent])
      BY Zenon, <1>1, <1>2, <1>4 DEF Laid, n
    <2> QED BY Zenon, <1>1, <1>2, <2>1 DEF Laid
  <1>10. new[ps[Len(ps)].ent].live
    <2>1. Len(ps) \in 1..Len(ps)
      BY <1>1 DEF Row
    <2> QED BY Zenon, <1>1, <1>2, <2>1 DEF Laid, n
  <1>11. Row(c, ps)
    BY Zenon, <1>1, <1>3 DEF Row
  <1>12. Sound(c, new, ps)
    BY Zenon, <1>1, <1>6, <1>8, <1>9, <1>10, <1>11 DEF Sound
  <1> QED BY <1>12 DEF new

\* What a subscription has before it is granted anew: the rows of its past, or
\* none.
Past(es, ps) ==
    /\ Granted(es) /\ ps \in Seq(PeriodRows) /\ Laid(es, ps) /\ OpenOnly(ps, FALSE)

Superseded(es) == [i \in DOMAIN es |-> [es[i] EXCEPT !.live = FALSE]]

\* Superseding the entitlements changes nothing but their live column.
LEMMA SupersededRows ==
  ASSUME NEW es, Granted(es)
  PROVE  /\ Superseded(es) \in Seq(Segments) /\ Len(Superseded(es)) = Len(es) /\ Len(es) \in Nat
         /\ \A i \in 1..Len(es) :
                /\ ~Superseded(es)[i].live
                /\ Superseded(es)[i].start = es[i].start /\ Superseded(es)[i].days = es[i].days
                /\ Superseded(es)[i].count = es[i].count /\ Superseded(es)[i].first = es[i].first
                /\ Superseded(es)[i].end = es[i].end
  <1>1. es \in Seq(Segments) /\ DOMAIN es = 1..Len(es) /\ Len(es) \in Nat
    BY DEF Granted
  <1>2. ASSUME NEW e \in Segments
        PROVE  /\ [e EXCEPT !.live = FALSE] \in Segments /\ [e EXCEPT !.live = FALSE].live = FALSE
               /\ [e EXCEPT !.live = FALSE].start = e.start /\ [e EXCEPT !.live = FALSE].days = e.days
               /\ [e EXCEPT !.live = FALSE].count = e.count /\ [e EXCEPT !.live = FALSE].first = e.first
               /\ [e EXCEPT !.live = FALSE].end = e.end
    BY Zenon DEF Segments
  <1>3. \A i \in 1..Len(es) : es[i] \in Segments /\ Superseded(es)[i] = [es[i] EXCEPT !.live = FALSE]
    BY <1>1 DEF Superseded
  <1>4. \A i \in 1..Len(es) : Superseded(es)[i] \in Segments
    BY Zenon, <1>2, <1>3
  <1>5. Superseded(es) = [i \in 1..Len(es) |-> Superseded(es)[i]]
    BY Zenon, <1>1 DEF Superseded
  <1>6. Superseded(es) \in Seq(Segments) /\ Len(Superseded(es)) = Len(es)
    <2> DEFINE old == Superseded(es)
    <2>1. old = [i \in 1..Len(es) |-> old[i]] /\ \A i \in 1..Len(es) : old[i] \in Segments
      BY <1>4, <1>5
    <2> HIDE DEF old
    <2>2. old \in Seq(Segments) /\ Len(old) = Len(es)
      BY <1>1, <2>1
    <2> QED BY <2>2 DEF old
  <1> QED BY ZenonT(30), <1>1, <1>2, <1>3, <1>6

\* Granting anew: all earlier segments are superseded, and the first period of
\* the new one is opened.
LEMMA ReopenSound ==
  ASSUME NEW es, NEW ps, Past(es, ps), NEW e \in Segments, EndsWithCount(e), e.live, e.first = 1,
         NEW p \in PeriodRows, p.ent = Len(es) + 1, p.number = 1, p.start = e.start,
         p.end = billingExpiryDays(e.start, e.days, 1), p.open = TRUE,
         NEW b, DOMAIN b = SubFields, b.expires = e.end, b.count \in Nat, b.current = Len(ps) + 1, b.enabled = TRUE
  PROVE  Sound(b, Append(Superseded(es), e), Append(ps, p))
  <1> DEFINE old == Superseded(es)
             segs == Append(old, e)
             rows == Append(ps, p)
             n == Len(es)
             m == Len(ps)
  <1>1. Granted(es) /\ ps \in Seq(PeriodRows) /\ Laid(es, ps) /\ OpenOnly(ps, FALSE)
    BY Zenon DEF Past
  <1>2. /\ old \in Seq(Segments) /\ Len(old) = n /\ n \in Nat
        /\ \A i \in 1..n :
                /\ ~old[i].live
                /\ old[i].start = es[i].start /\ old[i].days = es[i].days
                /\ old[i].count = es[i].count /\ old[i].first = es[i].first
                /\ old[i].end = es[i].end
    BY Zenon, <1>1, SupersededRows
  <1> HIDE DEF old
  <1>3. /\ segs \in Seq(Segments) /\ Len(segs) = n + 1
        /\ segs[n + 1] = e /\ \A i \in 1..n : segs[i] = old[i]
        /\ \A i \in 1..(n + 1) : i \in 1..n \/ i = n + 1
    BY <1>2, OneMore
  <1>4. /\ rows \in Seq(PeriodRows) /\ Len(rows) = m + 1 /\ m \in Nat
        /\ rows[m + 1] = p /\ \A i \in 1..m : rows[i] = ps[i]
        /\ \A i \in 1..(m + 1) : i \in 1..m \/ i = m + 1
    BY <1>1, OneMore
  <1>5. n + 1 \in 1..(n + 1) /\ \A i \in 1..n : i \in 1..(n + 1) /\ i < n + 1
    BY <1>2
  <1> HIDE DEF segs, rows, m
  <1>6. Granted(segs)
    <2>1. ASSUME NEW i \in 1..n PROVE EndsWithCount(segs[i])
      <3>0. segs[i] = old[i]
        BY Zenon, <1>3
      <3>1. /\ segs[i].start = es[i].start /\ segs[i].days = es[i].days
            /\ segs[i].count = es[i].count /\ segs[i].end = es[i].end
        BY Zenon, <1>2, <3>0
      <3>2. EndsWithCount(es[i])
        BY Zenon, <1>1 DEF Granted
      <3> QED BY <3>1, <3>2 DEF EndsWithCount
    <2> QED BY Zenon, <1>3, <2>1 DEF Granted
  <1>7. \A i \in 1..(n + 1) : segs[i].live => i = n + 1
    BY Zenon, <1>2, <1>3
  <1>8. Chained(segs, e.end)
    <2>1. ASSUME NEW i \in 1..(n + 1), NEW j \in 1..(n + 1), i < j, segs[i].live, segs[j].live PROVE FALSE
      <3>1. i = n + 1 /\ j = n + 1
        BY Zenon, <1>7, <2>1
      <3> QED BY <1>2, <2>1, <3>1
    <2>2. ASSUME NEW i \in 1..(n + 1), NEW at \in Nat, segs[i].live, segs[i].start <= at, After(e.end, at)
          PROVE  \E k \in 1..(n + 1) : Covers(segs[k], at)
      BY Zenon, <1>3, <1>5, <1>7, <2>2 DEF Covers
    <2>3. ASSUME NEW i \in 1..(n + 1), e.end # Never, segs[i].live PROVE segs[i].end # Never /\ segs[i].end <= e.end
      <3>1. segs[i] = e
        BY Zenon, <1>3, <1>7, <2>3
      <3> QED BY <2>3, <3>1, SegmentTypes
    <2> QED BY Zenon, <1>3, <2>1, <2>2, <2>3 DEF Chained
  <1>9. OnGrid(p, e)
    <2>1. e.start \in Nat /\ e.days \in Nat \ {0} /\ e.count \in Nat
      BY SegmentTypes
    <2>2. p.number - e.first = 0 /\ p.number >= e.first /\ (e.count > 0 => p.number < e.first + e.count)
      BY <2>1
    <2>3. billingExpiryDays(e.start, e.days, 0) = e.start
      BY <2>1, SubscriptionsAssumption DEF billingExpiryDays
    <2> QED BY Zenon, <2>2, <2>3 DEF OnGrid
  <1>10. Laid(segs, rows)
    <2>1. ASSUME NEW i \in 1..m
          PROVE  ps[i].ent \in 1..n /\ OnGrid(ps[i], segs[ps[i].ent])
      <3>1. ps[i].ent \in 1..n /\ OnGrid(ps[i], es[ps[i].ent])
        BY Zenon, <1>1 DEF Laid, m
      <3>2. ASSUME NEW k \in 1..n, OnGrid(ps[i], es[k]) PROVE OnGrid(ps[i], segs[k])
        <4>0. segs[k] = old[k]
          BY Zenon, <1>3
        <4>1. /\ segs[k].start = es[k].start /\ segs[k].days = es[k].days
              /\ segs[k].count = es[k].count /\ segs[k].first = es[k].first
          BY Zenon, <1>2, <4>0
        <4> QED BY Zenon, <3>2, <4>1 DEF OnGrid
      <3> QED BY Zenon, <3>1, <3>2
    <2>2. ASSUME NEW i \in 1..(m + 1)
          PROVE  rows[i].ent \in 1..(n + 1) /\ OnGrid(rows[i], segs[rows[i].ent])
      BY Zenon, <1>3, <1>4, <1>5, <1>9, <2>1
    <2>3. ASSUME NEW i \in 1..(m + 1), NEW j \in 1..(m + 1), i < j
          PROVE  Precedes(rows[i], rows[j])
      <3>1. i \in 1..m
        BY <1>4, <2>3
      <3>2. CASE j \in 1..m
        <4>1. rows[i] = ps[i] /\ rows[j] = ps[j]
          BY Zenon, <1>4, <3>1, <3>2
        <4>2. Precedes(ps[i], ps[j])
          BY Zenon, <1>1, <2>3, <3>1, <3>2 DEF Laid, m
        <4> QED BY Zenon, <4>1, <4>2
      <3>3. CASE j = m + 1
        <4>1. rows[i] = ps[i] /\ rows[j] = p /\ ps[i].ent < p.ent
          BY Zenon, <1>4, <1>5, <2>1, <3>1, <3>3
        <4> QED BY <4>1 DEF Precedes
      <3> QED BY Zenon, <1>4, <3>2, <3>3
    <2> QED BY Zenon, <1>3, <1>4, <2>2, <2>3 DEF Laid
  <1>11. OpenOnly(rows, TRUE)
    <2>1. ASSUME NEW i \in 1..(m + 1) PROVE rows[i].open <=> i = m + 1
      <3>1. CASE i \in 1..m
        <4>1. i # m + 1 /\ rows[i] = ps[i]
          BY <1>4, <3>1
        <4>2. ~ps[i].open
          BY Zenon, <1>1, <3>1 DEF OpenOnly, m
        <4> QED BY Zenon, <4>1, <4>2
      <3>2. CASE i = m + 1
        BY Zenon, <1>4, <3>2
      <3> QED BY Zenon, <1>4, <3>1, <3>2
    <2> QED BY Zenon, <1>4, <2>1 DEF OpenOnly
  <1>12. Row(b, rows)
    <2>1. Len(rows) > 0 /\ b.current = Len(rows) /\ e.end \in Nat \cup {Never}
      BY <1>4, SegmentTypes DEF m
    <2> QED BY Zenon, <2>1 DEF Row
  <1>13. segs[rows[Len(rows)].ent].live
    BY Zenon, <1>3, <1>4
  <1>14. Sound(b, segs, rows)
    BY Zenon, <1>4, <1>6, <1>8, <1>10, <1>11, <1>12, <1>13 DEF Sound
  <1> QED BY <1>14 DEF segs, rows, old

-----------------------------------------------------------------------------
(* Rolling.                                                                *)

\* What rolling leaves of a subscription's row.
Carry(c, b) ==
    /\ DOMAIN c = SubFields /\ c.user = b.user /\ c.expires = b.expires /\ c.count = b.count
    /\ c.plan = b.plan /\ c.config = b.config

\* Column updates.
LEMMA EndedColumns ==
  ASSUME NEW b, DOMAIN b = SubFields
  PROVE  LET c == [b EXCEPT !.enabled = FALSE]
         IN  Carry(c, b) /\ c.enabled = FALSE /\ c.current = b.current
  BY DEF SubFields, Carry

\* At most one entitlement contains an instant, so the query picks it.
LEMMA CoveringOne ==
  ASSUME NEW es \in Seq(Segments), NEW expires, Chained(es, expires), NEW at \in Nat,
         NEW i \in 1..Len(es), NEW j \in 1..Len(es), Covers(es[i], at), Covers(es[j], at)
  PROVE  i = j
  <1>1. ASSUME NEW k \in 1..Len(es), NEW l \in 1..Len(es), k < l, Covers(es[k], at), Covers(es[l], at)
        PROVE  FALSE
    <2>1. es[k].end # Never /\ es[k].end <= es[l].start
      BY Zenon, <1>1 DEF Chained, Covers
    <2>2. es[k].end > at /\ es[l].start <= at
      BY Zenon, <1>1, <2>1 DEF Covers, After
    <2>3. es[k] \in Segments /\ es[l] \in Segments
      OBVIOUS
    <2>4. es[k].end \in Nat /\ es[l].start \in Nat
      BY <2>1, <2>3, SegmentTypes
    <2> QED BY <2>1, <2>2, <2>4
  <1>2. ~(i < j) /\ ~(j < i)
    BY Zenon, <1>1
  <1> QED BY <1>2

\* The entitlements the query finds are those that cover the instant.
LEMMA CoveringIs ==
  ASSUME NEW s, ents[s] \in Seq(Segments), NEW at
  PROVE  Covering(s, at) = {i \in 1..Len(ents[s]) : Covers(ents[s][i], at)}
  <1>1. DOMAIN ents[s] = 1..Len(ents[s])
    OBVIOUS
  <1> QED BY Zenon, <1>1 DEF Covering, Covers

\* The query for the segment of an instant finds one, when there is one, and
\* there is only that one.
LEMMA SegmentFound ==
  ASSUME NEW s, NEW at \in Nat, Sound(sub[s], ents[s], periods[s]), Covering(s, at) # {}
  PROVE  /\ SegmentAt(s, at) \in 1..Len(ents[s]) /\ Covers(ents[s][SegmentAt(s, at)], at)
         /\ Covering(s, at) = {SegmentAt(s, at)}
  <1>1. ents[s] \in Seq(Segments) /\ Chained(ents[s], sub[s].expires)
    BY DEF Sound, Granted
  <1>2. Covering(s, at) = {i \in 1..Len(ents[s]) : Covers(ents[s][i], at)}
    BY <1>1, CoveringIs
  <1>3. PICK i \in Covering(s, at) : TRUE
    OBVIOUS
  <1>4. \A j \in Covering(s, at) : j = i
    BY Zenon, <1>1, <1>2, CoveringOne
  <1>5. ents[s][i].start \in Nat
    BY <1>1, <1>2, SegmentTypes
  <1>6. \A j \in Covering(s, at) : ents[s][j].start <= ents[s][i].start
    BY <1>4, <1>5
  <1>7. SegmentAt(s, at) \in Covering(s, at)
    BY ZenonT(30), <1>6 DEF SegmentAt
  <1> QED BY ZenonT(30), <1>2, <1>4, <1>7

\* PeriodAt is the slot that contains the instant.
LEMMA PeriodOpened ==
  ASSUME NEW s, NEW at \in Nat, Sound(sub[s], ents[s], periods[s]), Covering(s, at) # {}
  PROVE  OpenedAt(PeriodAt(s, at), ents[s][SegmentAt(s, at)], SegmentAt(s, at), at)
  <1> DEFINE k == SegmentAt(s, at)
             e == ents[s][k]
             slot == (at - e.start) \div (e.days * DayTicks)
             start == billingExpiryDays(e.start, e.days, slot)
             end == billingExpiryDays(start, e.days, 1)
  <1>1. k \in 1..Len(ents[s]) /\ Covers(e, at) /\ ents[s] \in Seq(Segments)
    BY ZenonT(30), SegmentFound DEF Sound, Granted
  <1>2. e \in Segments /\ k \in Nat
    BY <1>1
  <1>3. PeriodAt(s, at) = [start |-> start, end |-> end, allowance |-> e.allowance,
                           remaining |-> e.allowance, number |-> e.first + slot, ent |-> k, open |-> TRUE]
    BY Zenon DEF PeriodAt
  <1> HIDE DEF k
  <1>4. e.start \in Nat /\ e.days \in Nat \ {0} /\ e.first \in Nat /\ e.allowance \in Nat /\ e.start <= at
    BY Zenon, <1>1, <1>2 DEF Segments, Covers
  <1> HIDE DEF e
  <1>5. slot \in Nat
    BY Zenon, <1>4, Slot
  <1> HIDE DEF slot
  <1>6. slot \in Int /\ 1 \in Int /\ 1 \in Nat
    BY <1>5
  <1>7. start \in Nat
    BY Zenon, <1>4, <1>5, <1>6, Expiry
  <1> HIDE DEF start
  <1>8. end \in Nat
    BY Zenon, <1>4, <1>6, <1>7, Expiry
  <1> HIDE DEF end
  <1>9. e.first + slot \in Nat
    BY <1>4, <1>5
  <1>10. PeriodAt(s, at) \in PeriodRows
    BY <1>2, <1>3, <1>4, <1>7, <1>8, <1>9 DEF PeriodRows
  <1> DEFINE p == PeriodAt(s, at)
  <1> HIDE DEF p
  <1>11. p.ent = k /\ p.open = TRUE /\ p.number = e.first + slot /\ p.start = start /\ p.end = end
    BY <1>3 DEF p
  <1>12. p.end = billingExpiryDays(p.start, e.days, 1)
    BY Zenon, <1>11 DEF end
  <1> QED BY Zenon, <1>10, <1>11, <1>12 DEF OpenedAt, k, e, slot, start, p

\* Rolling a subscription leaves it sound.
LEMMA RolledRow ==
  ASSUME NEW s, NEW at \in Nat, Sound(sub[s], ents[s], periods[s]),
         Stale(s, at) /\ ~Ending(s, at) => Covering(s, at) # {}
  PROVE  /\ Sound(RolledSub(s, at), ents[s], RolledPeriods(s, at))
         /\ Carry(RolledSub(s, at), sub[s])
  <1> DEFINE b == sub[s]
             es == ents[s]
             ps == periods[s]
  <1>1. /\ DOMAIN b = SubFields /\ b.current = Len(ps) /\ Len(ps) > 0 /\ ps \in Seq(PeriodRows)
        /\ es \in Seq(Segments) /\ b.enabled \in BOOLEAN
    BY Zenon DEF Sound, Row, Granted
  <1>2. Closed(s) = Close(ps)
    BY Zenon, <1>1 DEF Closed, Close
  <1>3. CASE ~Stale(s, at)
    <2>1. RolledSub(s, at) = b /\ RolledPeriods(s, at) = ps
      BY Zenon, <1>3 DEF RolledSub, RolledPeriods
    <2> QED BY Zenon, <1>1, <2>1 DEF Carry
  <1>4. CASE Ending(s, at)
    <2>1. RolledSub(s, at) = [b EXCEPT !.enabled = FALSE] /\ RolledPeriods(s, at) = Close(ps)
      BY Zenon, <1>2, <1>4 DEF RolledSub, RolledPeriods, Ending
    <2>2. /\ Carry(RolledSub(s, at), b) /\ RolledSub(s, at).enabled = FALSE
          /\ RolledSub(s, at).current = b.current
      BY Zenon, <1>1, <2>1, EndedColumns
    <2>3. Sound(RolledSub(s, at), es, Close(ps))
      BY Zenon, <2>2, DisableSound DEF Carry
    <2> QED BY Zenon, <2>1, <2>2, <2>3
  <1>5. CASE Stale(s, at) /\ ~Ending(s, at)
    <2> DEFINE k == SegmentAt(s, at)
               p == PeriodAt(s, at)
    <2>1. k \in 1..Len(es) /\ Covers(es[k], at)
      BY Zenon, <1>5, SegmentFound
    <2>2. OpenedAt(p, es[k], k, at)
      BY Zenon, <1>5, PeriodOpened
    <2>3. /\ RolledSub(s, at) = [b EXCEPT !.current = Len(ps) + 1, !.number = p.number,
                                          !.days = es[k].days, !.allowance = p.allowance]
          /\ RolledPeriods(s, at) = Append(Close(ps), p)
      BY Zenon, <1>2, <1>5 DEF RolledSub, RolledPeriods
    <2> HIDE DEF k, p
    <2>4. /\ Carry(RolledSub(s, at), b) /\ RolledSub(s, at).enabled = b.enabled
          /\ RolledSub(s, at).current = Len(ps) + 1
      <3> DEFINE c == RolledSub(s, at)
                 cur == Len(ps) + 1
                 num == p.number
                 days == es[k].days
                 all == p.allowance
      <3>1. c = [b EXCEPT !.current = cur, !.number = num, !.days = days, !.allowance = all]
        BY <2>3
      <3> HIDE DEF c, cur, num, days, all
      <3>2. Carry(c, b) /\ c.enabled = b.enabled /\ c.current = cur
        BY <1>1, <3>1 DEF SubFields, Carry
      <3> QED BY <3>2 DEF c, cur
    <2>5. b.enabled = TRUE /\ ps[Len(ps)].end <= at
      BY Zenon, <1>1, <1>5 DEF Stale, Current
    <2> DEFINE c == RolledSub(s, at)
    <2>6. /\ DOMAIN c = SubFields /\ c.expires = b.expires /\ c.count = b.count
          /\ c.current = Len(ps) + 1 /\ c.enabled = TRUE
      BY Zenon, <2>4, <2>5 DEF Carry
    <2> HIDE DEF c, b, es, ps
    <2>7. Sound(b, es, ps)
      BY DEF b, es, ps
    <2>8. Sound(c, es, Append(Close(ps), p))
      BY Zenon, <2>1, <2>2, <2>5, <2>6, <2>7, RollSound
    <2> USE DEF c, b, es, ps
    <2> QED BY Zenon, <2>3, <2>4, <2>8
  <1> QED BY Zenon, <1>3, <1>4, <1>5 DEF Ending

-----------------------------------------------------------------------------
(* The invariant of subscriptions, plans and pages.                        *)

SubDomains ==
    /\ now \in Nat /\ config \in Nat /\ rate \in Rates /\ balance \in [Users -> Int]
    /\ DOMAIN sub = Subs /\ DOMAIN ents = Subs /\ DOMAIN periods = Subs
    /\ DOMAIN plan = Plans /\ DOMAIN quote = Clients

RowSound(s) ==
    IF Exists(s) THEN Sound(sub[s], ents[s], periods[s]) ELSE ents[s] = <<>> /\ periods[s] = <<>>

\* The plan of a subscription exists, and its configuration version was given
\* out by the sequence.
RowLinked(s) ==
    Exists(s) => /\ sub[s].config \in Nat /\ sub[s].config <= config
                 /\ sub[s].plan = NoPlan \/ (sub[s].plan \in Plans /\ plan[sub[s].plan] # NoPlanRow)

PlanRecords == [terms : Terms, version : Nat \ {0}, active : BOOLEAN, deleted : BOOLEAN]
PlanSound(p) == plan[p] # NoPlanRow => plan[p] \in PlanRecords

\* A page whose versions are the stored ones shows what is stored.
QuoteSound(c) ==
    quote[c] # NoQuote =>
        LET q == quote[c] IN
        /\ q.plan \in Plans /\ plan[q.plan] # NoPlanRow
        /\ q.version \in Nat /\ q.version <= plan[q.plan].version
        /\ q.version = plan[q.plan].version => q.terms = plan[q.plan].terms
        /\ q.sub \in Subs => /\ q.config \in Nat /\ q.config <= config
                             /\ Exists(q.sub)
                             /\ sub[q.sub].config = q.config =>
                                    sub[q.sub].plan = q.plan /\ sub[q.sub].expires = q.expires

SubscriptionsInv ==
    /\ SubDomains
    /\ \A s \in Subs : RowSound(s) /\ RowLinked(s)
    /\ \A p \in Plans : PlanSound(p)
    /\ \A c \in Clients : QuoteSound(c)

\* A subscription row is not the absence of one.
LEMMA RowExists ==
  ASSUME NEW b, DOMAIN b = SubFields
  PROVE  b # NoSub
  <1>1. "enabled" \in DOMAIN b /\ "enabled" \notin DOMAIN NoSub
    BY DEF SubFields, NoSub
  <1> QED BY Zenon, <1>1

\* A plan row is not the absence of one.
LEMMA PlanExists ==
  ASSUME NEW r \in PlanRecords
  PROVE  r # NoPlanRow /\ r.version \in Nat \ {0} /\ r.terms \in Terms
  BY DEF PlanRecords, NoPlanRow

\* No subscription, plan or page exists at the start.
LEMMA SubscriptionsInitially == SubscriptionsInit => SubscriptionsInv
  <1> SUFFICES ASSUME SubscriptionsInit PROVE SubscriptionsInv
    OBVIOUS
  <1>1. SubDomains
    BY DEF SubscriptionsInit, CashInit, SubDomains
  <1>2. \A s \in Subs : RowSound(s) /\ RowLinked(s)
    BY Zenon DEF SubscriptionsInit, RowSound, RowLinked, Exists
  <1>3. \A p \in Plans : PlanSound(p)
    BY Zenon DEF SubscriptionsInit, PlanSound
  <1>4. \A c \in Clients : QuoteSound(c)
    BY Zenon DEF SubscriptionsInit, QuoteSound
  <1> QED BY Zenon, <1>1, <1>2, <1>3, <1>4 DEF SubscriptionsInv

\* An enabled subscription has one open period, its current one.
LEMMA OpenIsCurrent ==
  ASSUME SubscriptionsInv
  PROVE  OneOpenPeriod
  <1> SUFFICES ASSUME NEW s \in Subs
               PROVE  {i \in DOMAIN periods[s] : periods[s][i].open} =
                      IF Exists(s) /\ sub[s].enabled THEN {sub[s].current} ELSE {}
    BY Zenon DEF OneOpenPeriod
  <1>1. RowSound(s)
    BY Zenon DEF SubscriptionsInv
  <1>2. CASE ~Exists(s)
    <2>1. periods[s] = <<>>
      BY Zenon, <1>1, <1>2 DEF RowSound
    <2>2. DOMAIN periods[s] = {}
      BY <2>1
    <2> QED BY Zenon, <1>2, <2>2
  <1>3. CASE Exists(s)
    <2> DEFINE ps == periods[s]
    <2>1. /\ ps \in Seq(PeriodRows) /\ sub[s].current = Len(ps) /\ Len(ps) > 0
          /\ OpenOnly(ps, sub[s].enabled)
      BY Zenon, <1>1, <1>3 DEF RowSound, Sound, Row
    <2>2. DOMAIN ps = 1..Len(ps) /\ Len(ps) \in 1..Len(ps)
      BY <2>1
    <2>3. \A i \in DOMAIN ps : ps[i].open <=> (sub[s].enabled /\ i = sub[s].current)
      BY Zenon, <2>1, <2>2 DEF OpenOnly
    <2>4. sub[s].current \in DOMAIN ps
      BY Zenon, <2>1, <2>2
    <2> HIDE DEF ps
    <2>5. {i \in DOMAIN ps : ps[i].open} = IF sub[s].enabled THEN {sub[s].current} ELSE {}
      <3>1. CASE sub[s].enabled
        BY Zenon, <2>3, <2>4, <3>1
      <3>2. CASE ~sub[s].enabled
        BY Zenon, <2>3, <3>2
      <3> QED BY <3>1, <3>2
    <2> QED BY Zenon, <1>3, <2>5 DEF ps
  <1> QED BY <1>2, <1>3

\* No period of an entitlement is given out twice.
LEMMA PeriodsApart ==
  ASSUME SubscriptionsInv
  PROVE  EntitlementNotExceeded
  <1>1. ASSUME NEW s \in Subs, NEW i \in DOMAIN periods[s], NEW j \in DOMAIN periods[s]
        PROVE  LET a == periods[s][i]
                   e == ents[s][a.ent]
               IN  /\ a.start = billingExpiryDays(e.start, e.days, a.number - e.first)
                   /\ a.number >= e.first
                   /\ e.count > 0 => a.number < e.first + e.count
                   /\ a.ent = periods[s][j].ent /\ a.number = periods[s][j].number => i = j
    <2> DEFINE ps == periods[s]
               es == ents[s]
    <2>1. RowSound(s)
      BY Zenon DEF SubscriptionsInv
    <2>2. Exists(s)
      <3>1. periods[s] # <<>>
        OBVIOUS
      <3> QED BY Zenon, <2>1, <3>1 DEF RowSound
    <2>3. ps \in Seq(PeriodRows) /\ Laid(es, ps)
      BY Zenon, <2>1, <2>2 DEF RowSound, Sound
    <2>4. i \in 1..Len(ps) /\ j \in 1..Len(ps) /\ ps[i] \in PeriodRows /\ ps[j] \in PeriodRows
      BY <2>3
    <2>5. OnGrid(ps[i], es[ps[i].ent])
      BY Zenon, <2>3, <2>4 DEF Laid
    <2>6. ASSUME ps[i].ent = ps[j].ent, ps[i].number = ps[j].number PROVE i = j
      <3>1. (i < j => Precedes(ps[i], ps[j])) /\ (j < i => Precedes(ps[j], ps[i]))
        BY Zenon, <2>3, <2>4 DEF Laid
      <3>2. ~Precedes(ps[i], ps[j]) /\ ~Precedes(ps[j], ps[i])
        BY <2>4, <2>6, PeriodTypes DEF Precedes
      <3>3. ~(i < j) /\ ~(j < i)
        BY Zenon, <3>1, <3>2
      <3> QED BY <2>4, <3>3
    <2> QED BY Zenon, <2>5, <2>6 DEF OnGrid
  <1> QED BY Zenon, <1>1, OpenIsCurrent DEF EntitlementNotExceeded

\* Every instant of a running subscription's future lies in one entitlement.
LEMMA SegmentsCover ==
  ASSUME SubscriptionsInv
  PROVE  RollFindsSegment
  <1> SUFFICES ASSUME NEW s \in Subs, Exists(s), sub[s].enabled, NEW at \in Current(s).start..Horizon,
                      After(sub[s].expires, at)
               PROVE  \E i \in Covering(s, at) : Covering(s, at) = {i}
    BY Zenon DEF RollFindsSegment
  <1> DEFINE ps == periods[s]
             es == ents[s]
             p == ps[Len(ps)]
  <1>1. Sound(sub[s], es, ps)
    BY Zenon DEF SubscriptionsInv, RowSound
  <1>2. /\ ps \in Seq(PeriodRows) /\ Laid(es, ps) /\ Chained(es, sub[s].expires) /\ es \in Seq(Segments)
        /\ es[p.ent].live /\ Len(ps) > 0 /\ sub[s].current = Len(ps)
    BY ZenonT(30), <1>1 DEF Sound, Granted, Row
  <1>3. Len(ps) \in 1..Len(ps) /\ p \in PeriodRows
    BY <1>2
  <1>4. p.ent \in 1..Len(es) /\ OnGrid(p, es[p.ent])
    BY ZenonT(30), <1>2, <1>3 DEF Laid
  <1>5. es[p.ent] \in Segments
    BY <1>2, <1>4
  <1>6. es[p.ent].start <= p.start /\ es[p.ent].start \in Nat /\ p.start \in Nat
    BY Zenon, <1>3, <1>4, <1>5, GridOrder, SegmentTypes, PeriodTypes
  <1>7. at \in Current(s).start..Horizon /\ Current(s) = p
    BY Zenon, <1>2 DEF Current
  <1>8. at \in Nat /\ p.start <= at
    BY <1>6, <1>7, ClockAssumption
  <1>9. es[p.ent].start <= at
    BY <1>6, <1>8
  <1>10. \E k \in 1..Len(es) : Covers(es[k], at)
    BY Zenon, <1>2, <1>4, <1>8, <1>9 DEF Chained
  <1>11. Covering(s, at) # {}
    BY Zenon, <1>2, <1>10, CoveringIs
  <1>12. Covering(s, at) = {SegmentAt(s, at)}
    BY Zenon, <1>1, <1>8, <1>11, SegmentFound
  <1> QED BY Zenon, <1>12

-----------------------------------------------------------------------------
(* Steps.                                                                  *)

\* A step leaves the identity of a subscription, or gives it a new
\* configuration version.
RowKept(s) == (~Exists(s) /\ sub'[s] = NoSub) \/ (Exists(s) /\ Carry(sub'[s], sub[s]))
RowRenewed(s) ==
    /\ DOMAIN sub'[s] = SubFields /\ config' = config + 1 /\ sub'[s].config = config + 1
    /\ sub'[s].plan = NoPlan \/ (sub'[s].plan \in Plans /\ plan'[sub'[s].plan] # NoPlanRow)

\* A plan keeps its terms unless its version grows.
PlanKept(p) ==
    plan[p] # NoPlanRow => /\ plan'[p] # NoPlanRow /\ plan'[p].version \in Nat
                           /\ plan[p].version <= plan'[p].version
                           /\ plan'[p].version = plan[p].version => plan'[p].terms = plan[p].terms

\* The plan and configuration version of a subscription stay linked.
LEMMA LinksKept ==
  ASSUME SubscriptionsInv, config' = config \/ config' = config + 1,
         \A s \in Subs : RowKept(s) \/ RowRenewed(s), \A p \in Plans : PlanKept(p),
         NEW s \in Subs
  PROVE  RowLinked(s)'
  <1>1. RowLinked(s) /\ config \in Nat
    BY Zenon DEF SubscriptionsInv, SubDomains
  <1>2. CASE RowRenewed(s)
    <2>1. config + 1 \in Nat /\ config + 1 <= config + 1
      BY <1>1
    <2> QED BY Zenon, <1>2, <2>1 DEF RowRenewed, RowLinked
  <1>3. CASE RowKept(s)
    <2>1. CASE sub'[s] = NoSub
      BY Zenon, <2>1 DEF RowLinked, Exists
    <2>2. CASE Exists(s) /\ Carry(sub'[s], sub[s])
      <3>1. /\ sub[s].config \in Nat /\ sub[s].config <= config
            /\ sub[s].plan = NoPlan \/ (sub[s].plan \in Plans /\ plan[sub[s].plan] # NoPlanRow)
        BY Zenon, <1>1, <2>2 DEF RowLinked
      <3>2. sub[s].config <= config'
        BY <1>1, <3>1
      <3>3. sub[s].plan = NoPlan \/ (sub[s].plan \in Plans /\ plan'[sub[s].plan] # NoPlanRow)
        BY Zenon, <3>1 DEF PlanKept
      <3>4. sub'[s].config = sub[s].config /\ sub'[s].plan = sub[s].plan
        BY Zenon, <2>2 DEF Carry
      <3> QED BY Zenon, <3>1, <3>2, <3>3, <3>4 DEF RowLinked
    <2> QED BY Zenon, <1>3, <2>1, <2>2 DEF RowKept
  <1> QED BY Zenon, <1>2, <1>3

\* A page that is not read again still shows what is stored, or shows an old
\* version.
LEMMA QuotesKept ==
  ASSUME SubscriptionsInv, config' = config \/ config' = config + 1,
         \A s \in Subs : RowKept(s) \/ RowRenewed(s), \A p \in Plans : PlanKept(p),
         NEW c \in Clients, quote'[c] = quote[c]
  PROVE  QuoteSound(c)'
  <1> DEFINE q == quote[c]
  <1> SUFFICES ASSUME q # NoQuote PROVE QuoteSound(c)'
    BY Zenon DEF QuoteSound
  <1>1. /\ q.plan \in Plans /\ plan[q.plan] # NoPlanRow
        /\ q.version \in Nat /\ q.version <= plan[q.plan].version
        /\ q.version = plan[q.plan].version => q.terms = plan[q.plan].terms
    BY Zenon DEF SubscriptionsInv, QuoteSound
  <1>2. plan[q.plan].version \in Nat
    BY Zenon, <1>1, PlanExists DEF SubscriptionsInv, PlanSound
  <1> HIDE DEF q
  <1>3. /\ plan'[q.plan] # NoPlanRow /\ plan'[q.plan].version \in Nat
        /\ plan[q.plan].version <= plan'[q.plan].version
        /\ plan'[q.plan].version = plan[q.plan].version => plan'[q.plan].terms = plan[q.plan].terms
    BY Zenon, <1>1 DEF PlanKept
  <1>4. q.version <= plan'[q.plan].version
    BY <1>1, <1>2, <1>3
  <1>5. ASSUME q.version = plan'[q.plan].version PROVE q.terms = plan'[q.plan].terms
    <2>1. q.version = plan[q.plan].version
      BY <1>1, <1>2, <1>3, <1>5
    <2> QED BY Zenon, <1>1, <1>3, <1>5, <2>1
  <1>6. ASSUME q.sub \in Subs
        PROVE  /\ q.config \in Nat /\ q.config <= config' /\ sub'[q.sub] # NoSub
               /\ sub'[q.sub].config = q.config =>
                      sub'[q.sub].plan = q.plan /\ sub'[q.sub].expires = q.expires
    <2>1. /\ q.config \in Nat /\ q.config <= config /\ Exists(q.sub)
          /\ sub[q.sub].config = q.config => sub[q.sub].plan = q.plan /\ sub[q.sub].expires = q.expires
      BY Zenon, <1>6 DEF SubscriptionsInv, QuoteSound, q
    <2>2. config \in Nat
      BY Zenon DEF SubscriptionsInv, SubDomains
    <2>3. q.config <= config' /\ q.config # config + 1
      BY <2>1, <2>2
    <2>4. CASE RowRenewed(q.sub)
      <3>1. DOMAIN sub'[q.sub] = SubFields /\ sub'[q.sub].config = config + 1
        BY Zenon, <2>4 DEF RowRenewed
      <3>2. sub'[q.sub] # NoSub
        BY Zenon, <3>1, RowExists
      <3> QED BY Zenon, <2>1, <2>3, <3>1, <3>2
    <2>5. CASE RowKept(q.sub)
      <3>1. /\ DOMAIN sub'[q.sub] = SubFields /\ sub'[q.sub].config = sub[q.sub].config
            /\ sub'[q.sub].plan = sub[q.sub].plan /\ sub'[q.sub].expires = sub[q.sub].expires
        BY Zenon, <2>1, <2>5 DEF RowKept, Carry
      <3>2. sub'[q.sub] # NoSub
        BY Zenon, <3>1, RowExists
      <3> QED BY Zenon, <2>1, <2>3, <3>1, <3>2
    <2> QED BY Zenon, <1>6, <2>4, <2>5
  <1>7. quote'[c] = q
    BY DEF q
  <1> QED BY Zenon, <1>1, <1>3, <1>4, <1>5, <1>6, <1>7 DEF QuoteSound, Exists

\* A subscription a step does not touch.
LEMMA RowStays ==
  ASSUME SubscriptionsInv, NEW s \in Subs, sub'[s] = sub[s]
  PROVE  /\ RowKept(s)
         /\ ents'[s] = ents[s] /\ periods'[s] = periods[s] => RowSound(s)'
  <1>1. RowSound(s)
    BY Zenon DEF SubscriptionsInv
  <1>2. Exists(s) => DOMAIN sub[s] = SubFields
    BY Zenon, <1>1 DEF RowSound, Sound, Row
  <1> QED BY Zenon, <1>1, <1>2 DEF RowSound, RowKept, Carry, Exists

\* A subscription whose entitlements stay and whose row is replaced.
LEMMA RowReplaced ==
  ASSUME NEW s \in Subs, Sound(sub'[s], ents'[s], periods'[s])
  PROVE  RowSound(s)'
  <1>1. DOMAIN sub'[s] = SubFields
    BY Zenon DEF Sound, Row
  <1> QED BY Zenon, <1>1, RowExists DEF RowSound, Exists

\* Rolling the subscriptions of a user.
LEMMA UserRolled ==
  ASSUME SubscriptionsInv, NEW u, NEW at \in Nat, RollSucceeds(u, at), NEW s \in SubsOf(u)
  PROVE  /\ s \in Subs /\ Exists(s)
         /\ Sound(RolledSub(s, at), ents[s], RolledPeriods(s, at))
         /\ Carry(RolledSub(s, at), sub[s])
  <1>1. s \in Subs /\ Exists(s)
    BY Zenon DEF SubsOf
  <1>2. Sound(sub[s], ents[s], periods[s])
    BY Zenon, <1>1 DEF SubscriptionsInv, RowSound
  <1>3. Stale(s, at) /\ ~Ending(s, at) => Covering(s, at) # {}
    BY Zenon DEF RollSucceeds
  <1> QED BY Zenon, <1>1, <1>2, <1>3, RolledRow

\* Rolling the subscriptions of one user, seen from any subscription.
LEMMA RollStep ==
  ASSUME SubscriptionsInv, NEW u, NEW at \in Nat, rollBillingSubscriptionsTx(u, at), ents' = ents,
         NEW s \in Subs
  PROVE  RowKept(s) /\ RowSound(s)'
  <1>1. RollSucceeds(u, at)
    BY Zenon DEF rollBillingSubscriptionsTx
  <1>2. CASE s \in SubsOf(u)
    <2>1. sub'[s] = RolledSub(s, at) /\ periods'[s] = RolledPeriods(s, at)
      BY Zenon, <1>2 DEF rollBillingSubscriptionsTx
    <2>2. Exists(s) /\ Sound(sub'[s], ents'[s], periods'[s]) /\ Carry(sub'[s], sub[s])
      BY Zenon, <1>1, <1>2, <2>1, UserRolled
    <2> QED BY Zenon, <2>2, RowReplaced DEF RowKept
  <1>3. CASE s \notin SubsOf(u)
    <2>1. sub'[s] = sub[s] /\ periods'[s] = periods[s]
      BY Zenon, <1>3 DEF rollBillingSubscriptionsTx
    <2> QED BY Zenon, <2>1, RowStays
  <1> QED BY <1>2, <1>3

\* Instants are natural numbers.
LEMMA InstantTypes ==
  ASSUME SubscriptionsInv, NEW at \in Instants
  PROVE  at \in Nat
  BY DEF SubscriptionsInv, SubDomains, Instants

\* What every step is shown to do.
StepSound ==
    /\ SubDomains'
    /\ config' = config \/ config' = config + 1
    /\ \A s \in Subs : (RowKept(s) \/ RowRenewed(s)) /\ RowSound(s)'
    /\ \A p \in Plans : PlanKept(p) /\ PlanSound(p)'
    /\ \A c \in Clients : quote'[c] = quote[c] \/ QuoteSound(c)'

\* Such a step keeps the invariant.
LEMMA StepKeeps ==
  ASSUME SubscriptionsInv, StepSound
  PROVE  SubscriptionsInv'
  <1>1. \A s \in Subs : RowSound(s)' /\ RowLinked(s)'
    BY Zenon, LinksKept DEF StepSound
  <1>2. \A c \in Clients : QuoteSound(c)'
    BY Zenon, QuotesKept DEF StepSound
  <1> QED BY Zenon, <1>1, <1>2 DEF StepSound, SubscriptionsInv

\* A step that leaves the plans alone.
LEMMA PlansStay ==
  ASSUME SubscriptionsInv, plan' = plan, NEW p \in Plans
  PROVE  PlanKept(p) /\ PlanSound(p)'
  <1>1. PlanSound(p)
    BY Zenon DEF SubscriptionsInv
  <1>2. plan[p] # NoPlanRow => plan[p].version \in Nat
    BY Zenon, <1>1, PlanExists DEF PlanSound
  <1>3. plan[p] # NoPlanRow => plan[p].version <= plan[p].version
    BY <1>2
  <1> QED BY Zenon, <1>1, <1>2, <1>3 DEF PlanKept, PlanSound

\* The rows a reopened subscription is given.
LEMMA GrantedTypes ==
  ASSUME NEW e,
         \E at \in Nat, days \in Nat \ {0}, allowance \in Nat, count \in Nat, first \in Nat :
             e = Entitlement(at, days, allowance, count, first)
  PROVE  e \in Segments /\ EndsWithCount(e) /\ e.live = TRUE
  <1>0. PICK at \in Nat, days \in Nat \ {0}, allowance \in Nat, count \in Nat, first \in Nat :
            e = Entitlement(at, days, allowance, count, first)
    OBVIOUS
  <1> DEFINE end == IF count = 0 THEN Never ELSE billingExpiryDays(at, days, count)
  <1>1. e = [start |-> at, days |-> days, allowance |-> allowance, count |-> count, first |-> first,
             end |-> end, live |-> TRUE]
    BY Zenon, <1>0 DEF Entitlement
  <1>2. count \in Int
    OBVIOUS
  <1>3. end \in Nat \cup {Never}
    BY Zenon, <1>2, Expiry
  <1>4. end = IF count = 0 THEN Never ELSE billingExpiryDays(at, days, count)
    OBVIOUS
  <1> HIDE DEF end
  <1>5. e \in Segments
    BY <1>1, <1>3 DEF Segments
  <1>6. /\ e.live = TRUE /\ e.first = first /\ e.start = at /\ e.count = count /\ e.days = days
        /\ e.allowance = allowance /\ e.end = end
    BY <1>1
  <1>7. EndsWithCount(e)
    BY Zenon, <1>4, <1>6 DEF EndsWithCount
  <1> QED BY Zenon, <1>5, <1>6, <1>7

\* The rows a subscription leaves behind when it is reopened.
LEMMA LeftBehind ==
  ASSUME SubscriptionsInv, NEW s \in Subs
  PROVE  LET ps == IF Exists(s) THEN Closed(s) ELSE periods[s]
         IN  Past(ents[s], ps) /\ Len(ps) = Len(periods[s])
  <1>1. RowSound(s)
    BY Zenon DEF SubscriptionsInv
  <1>2. CASE Exists(s)
    <2>1. /\ Sound(sub[s], ents[s], periods[s]) /\ sub[s].current = Len(periods[s])
          /\ periods[s] \in Seq(PeriodRows) /\ Len(periods[s]) > 0 /\ Laid(ents[s], periods[s])
          /\ OpenOnly(periods[s], sub[s].enabled) /\ Granted(ents[s])
      BY Zenon, <1>1, <1>2 DEF RowSound, Sound, Row
    <2>2. Closed(s) = Close(periods[s])
      BY Zenon, <2>1 DEF Closed, Close
    <2>3. /\ Close(periods[s]) \in Seq(PeriodRows) /\ Len(Close(periods[s])) = Len(periods[s])
          /\ Laid(ents[s], Close(periods[s])) /\ OpenOnly(Close(periods[s]), FALSE)
      BY Zenon, <2>1, CloseKeeps
    <2> QED BY Zenon, <1>2, <2>1, <2>2, <2>3 DEF Past
  <1>3. CASE ~Exists(s)
    <2>1. ents[s] = <<>> /\ periods[s] = <<>>
      BY Zenon, <1>1, <1>3 DEF RowSound
    <2>2. Granted(<<>>)
      BY DEF Granted
    <2>3. Laid(<<>>, <<>>) /\ OpenOnly(<<>>, FALSE) /\ <<>> \in Seq(PeriodRows)
      BY DEF Laid, OpenOnly
    <2> QED BY Zenon, <1>3, <2>1, <2>2, <2>3 DEF Past
  <1> QED BY Zenon, <1>2, <1>3

Reopening(s, u, days, allowance, count, at, p) ==
    /\ s \in Subs /\ days \in Nat \ {0} /\ allowance \in Nat /\ count \in Nat /\ at \in Nat
    /\ p = NoPlan \/ (p \in Plans /\ plan[p] # NoPlanRow)
    /\ plan' = plan
    /\ reopenBillingSubscriptionTx(s, u, days, allowance, count, at, p)

ReopenedAs(s, days, allowance, count, at) ==
    /\ config' = config + 1 /\ DOMAIN sub' = Subs /\ DOMAIN ents' = Subs /\ DOMAIN periods' = Subs
    /\ \A r \in Subs : (RowKept(r) \/ RowRenewed(r)) /\ RowSound(r)'
    /\ ents'[s] = Append(Superseded(ents[s]), Entitlement(at, days, allowance, count, 1))

\* A subscription that starts again has one live entitlement and one open
\* period; every other subscription stays as it is.
LEMMA Reopens ==
  ASSUME SubscriptionsInv, NEW s, NEW u, NEW days, NEW allowance, NEW count, NEW at, NEW p,
         Reopening(s, u, days, allowance, count, at, p)
  PROVE  ReopenedAs(s, days, allowance, count, at)
  <1>0. s \in Subs /\ days \in Nat \ {0} /\ allowance \in Nat /\ count \in Nat /\ at \in Nat
    BY Zenon DEF Reopening
  <1>a. p = NoPlan \/ (p \in Plans /\ plan[p] # NoPlanRow)
    BY Zenon DEF Reopening
  <1>b. plan' = plan /\ reopenBillingSubscriptionTx(s, u, days, allowance, count, at, p)
    BY Zenon DEF Reopening
  <1> USE <1>0, <1>a, <1>b
  <1> DEFINE e == Entitlement(at, days, allowance, count, 1)
             ps == IF Exists(s) THEN Closed(s) ELSE periods[s]
             opened == [start |-> at, end |-> billingExpiryDays(at, days, 1), allowance |-> allowance,
                        remaining |-> allowance, number |-> 1, ent |-> Len(ents[s]) + 1, open |-> TRUE]
             row == [user |-> u, enabled |-> TRUE, days |-> days, allowance |-> allowance,
                     count |-> count, number |-> 1, expires |-> e.end,
                     current |-> Len(periods[s]) + 1, plan |-> p, config |-> config + 1,
                     charge |-> IF Exists(s) THEN sub[s].charge ELSE TRUE,
                     priority |-> IF Exists(s) THEN sub[s].priority ELSE 1]
  <1>1. DOMAIN sub = Subs /\ DOMAIN ents = Subs /\ DOMAIN periods = Subs /\ config \in Nat
    BY Zenon DEF SubscriptionsInv, SubDomains
  <1>2. /\ ents' = [ents EXCEPT ![s] = Append(Superseded(@), e)]
        /\ periods' = [periods EXCEPT ![s] = Append(ps, opened)]
        /\ sub' = [sub EXCEPT ![s] = row]
        /\ config' = config + 1
    BY Zenon DEF reopenBillingSubscriptionTx, Superseded
  <1>3. Past(ents[s], ps) /\ Len(ps) = Len(periods[s])
    BY Zenon, LeftBehind
  <1>4. /\ e \in Segments /\ EndsWithCount(e) /\ e.live = TRUE /\ e.first = 1 /\ e.start = at
        /\ e.count = count /\ e.days = days
    <2>1. e.first = 1 /\ e.start = at /\ e.count = count /\ e.days = days
      BY DEF Entitlement
    <2>2. 1 \in Nat /\ e = Entitlement(at, days, allowance, count, 1)
      OBVIOUS
    <2> HIDE DEF e
    <2>3. \E f \in Nat : e = Entitlement(at, days, allowance, count, f)
      BY Zenon, <2>2
    <2>4. e \in Segments /\ EndsWithCount(e) /\ e.live = TRUE
      BY ZenonT(30), <2>3, GrantedTypes
    <2> QED BY Zenon, <2>1, <2>4
  <1>5. Len(ents[s]) \in Nat
    BY <1>3 DEF Past, Granted
  <1>6. billingExpiryDays(at, days, 1) \in Nat
    <2>1. 1 \in Nat /\ 1 \in Int
      OBVIOUS
    <2> QED BY Zenon, <2>1, Expiry
  <1> HIDE DEF e, ps
  <1>7. /\ opened \in PeriodRows /\ opened.ent = Len(ents[s]) + 1 /\ opened.number = 1
        /\ opened.start = e.start /\ opened.end = billingExpiryDays(e.start, e.days, 1) /\ opened.open = TRUE
    <2> DEFINE k == Len(ents[s]) + 1
               end == billingExpiryDays(at, days, 1)
    <2>1. k \in Nat /\ end \in Nat
      BY <1>5, <1>6
    <2> HIDE DEF k, end
    <2>2. /\ opened \in PeriodRows /\ opened.ent = k /\ opened.number = 1
          /\ opened.start = at /\ opened.end = end /\ opened.open = TRUE
      BY <2>1 DEF PeriodRows, k, end
    <2> QED BY Zenon, <1>4, <2>2 DEF k, end
  <1> HIDE DEF opened
  <1>8. /\ DOMAIN row = SubFields /\ row.expires = e.end /\ row.count = count /\ row.enabled = TRUE
        /\ row.current = Len(periods[s]) + 1 /\ row.plan = p /\ row.config = config + 1
    BY Zenon DEF SubFields
  <1> HIDE DEF row
  <1>9. Sound(row, Append(Superseded(ents[s]), e), Append(ps, opened))
    BY Zenon, <1>3, <1>4, <1>7, <1>8, ReopenSound
  <1>10. /\ sub'[s] = row /\ ents'[s] = Append(Superseded(ents[s]), e) /\ periods'[s] = Append(ps, opened)
         /\ \A r \in Subs : r # s => sub'[r] = sub[r] /\ ents'[r] = ents[r] /\ periods'[r] = periods[r]
         /\ DOMAIN sub' = Subs /\ DOMAIN ents' = Subs /\ DOMAIN periods' = Subs
    BY Zenon, <1>1, <1>2
  <1>11. RowRenewed(s) /\ RowSound(s)'
    BY ZenonT(30), <1>2, <1>8, <1>9, <1>10, RowReplaced DEF RowRenewed
  <1>12. ASSUME NEW r \in Subs PROVE (RowKept(r) \/ RowRenewed(r)) /\ RowSound(r)'
    BY Zenon, <1>10, <1>11, RowStays
  <1> QED BY Zenon, <1>2, <1>10, <1>12 DEF e, ReopenedAs

\* The terms of a plan.
LEMMA TermTypes ==
  ASSUME NEW t \in Terms
  PROVE  t.price \in Nat /\ t.days \in Nat \ {0} /\ t.allowance \in Nat /\ t.min \in Nat
  BY SubscriptionsAssumption

\* The number of periods bought.
LEMMA CountTypes ==
  ASSUME NEW n \in PeriodCounts
  PROVE  n \in Nat
  BY SubscriptionsAssumption

\* What a step leaves of the rest of the store.
LEMMA DomainsKept ==
  ASSUME SubscriptionsInv, now' = now, rate' = rate, balance' = balance, config' \in Nat,
         DOMAIN sub' = Subs, DOMAIN ents' = Subs, DOMAIN periods' = Subs,
         DOMAIN plan' = Plans, DOMAIN quote' = Clients
  PROVE  SubDomains'
  BY Zenon DEF SubscriptionsInv, SubDomains

\* PutSubscription starts a subscription again.
LEMMA PutStep ==
  ASSUME SubscriptionsInv, NEW op, NEW s \in Subs, NEW u, NEW t \in Terms, NEW n \in PeriodCounts,
         NEW at \in Instants, PutSubscription(op, s, u, t, n, at)
  PROVE  StepSound
  <1>1. /\ reopenBillingSubscriptionTx(s, u, t.days, t.allowance, n, at, NoPlan)
        /\ balance' = balance /\ rate' = rate /\ now' = now /\ plan' = plan /\ quote' = quote
    BY Zenon DEF PutSubscription
  <1>2. t.days \in Nat \ {0} /\ t.allowance \in Nat /\ n \in Nat /\ at \in Nat
    BY Zenon, TermTypes, CountTypes, InstantTypes
  <1>3. /\ config' = config + 1 /\ DOMAIN sub' = Subs /\ DOMAIN ents' = Subs /\ DOMAIN periods' = Subs
        /\ \A r \in Subs : (RowKept(r) \/ RowRenewed(r)) /\ RowSound(r)'
    <2> DEFINE days == t.days
               allowance == t.allowance
    <2>1. Reopening(s, u, days, allowance, n, at, NoPlan)
      BY Zenon, <1>1, <1>2 DEF Reopening
    <2> HIDE DEF days, allowance
    <2>2. ReopenedAs(s, days, allowance, n, at)
      BY Zenon, <2>1, Reopens
    <2> QED BY Zenon, <2>2 DEF ReopenedAs
  <1>4. config \in Nat /\ DOMAIN plan = Plans /\ DOMAIN quote = Clients
    BY Zenon DEF SubscriptionsInv, SubDomains
  <1>5. config' \in Nat
    BY <1>3, <1>4
  <1>6. SubDomains'
    BY Zenon, <1>1, <1>3, <1>4, <1>5, DomainsKept
  <1>7. \A p \in Plans : PlanKept(p) /\ PlanSound(p)'
    BY Zenon, <1>1, PlansStay
  <1> QED BY Zenon, <1>1, <1>3, <1>6, <1>7 DEF StepSound

\* DeleteSubscription closes the open period with the subscription.
LEMMA DeleteStep ==
  ASSUME SubscriptionsInv, NEW op, NEW s \in Subs, NEW at, DeleteSubscription(op, s, at)
  PROVE  StepSound
  <1> DEFINE b == sub[s]
             c == sub'[s]
  <1>1. /\ Exists(s) /\ config' = config + 1 /\ ents' = ents
        /\ periods' = IF b.enabled THEN [periods EXCEPT ![s] = Closed(s)] ELSE periods
        /\ sub' = [sub EXCEPT ![s].enabled = FALSE, ![s].plan = NoPlan, ![s].config = config + 1]
        /\ balance' = balance /\ rate' = rate /\ now' = now /\ plan' = plan /\ quote' = quote
    BY Zenon DEF DeleteSubscription
  <1>2. /\ config \in Nat /\ DOMAIN plan = Plans /\ DOMAIN quote = Clients
        /\ DOMAIN sub = Subs /\ DOMAIN ents = Subs /\ DOMAIN periods = Subs
    BY Zenon DEF SubscriptionsInv, SubDomains
  <1>3. Sound(b, ents[s], periods[s])
    BY Zenon, <1>1 DEF SubscriptionsInv, RowSound
  <1>4. DOMAIN b = SubFields /\ b.enabled \in BOOLEAN /\ b.current = Len(periods[s])
    BY Zenon, <1>3 DEF Sound, Row
  <1>5. /\ DOMAIN c = SubFields /\ c.expires = b.expires /\ c.count = b.count /\ c.current = b.current
        /\ c.enabled = FALSE /\ c.plan = NoPlan /\ c.config = config + 1
    BY <1>1, <1>2, <1>4 DEF SubFields
  <1>6. DOMAIN sub' = Subs /\ DOMAIN ents' = Subs /\ DOMAIN periods' = Subs /\ config' \in Nat
    BY <1>1, <1>2
  <1>7. \A r \in Subs : r # s => sub'[r] = sub[r] /\ ents'[r] = ents[r] /\ periods'[r] = periods[r]
    BY <1>1, <1>2
  <1>8. Sound(c, ents'[s], periods'[s])
    <2>1. Closed(s) = Close(periods[s])
      BY Zenon, <1>4 DEF Closed, Close
    <2>2. CASE b.enabled
      <3>1. periods'[s] = Close(periods[s])
        BY Zenon, <1>1, <1>2, <2>1, <2>2
      <3> HIDE DEF b, c
      <3>2. Sound(c, ents[s], Close(periods[s]))
        BY Zenon, <1>3, <1>5, DisableSound
      <3> QED BY Zenon, <1>1, <3>1, <3>2
    <2>3. CASE b.enabled = FALSE
      <3>1. periods' = periods
        BY Zenon, <1>1, <2>3
      <3> HIDE DEF b, c
      <3>2. Sound(c, ents[s], periods[s])
        BY Zenon, <1>3, <1>5, <2>3, RelabelSound
      <3> QED BY Zenon, <1>1, <3>1, <3>2
    <2> QED BY Zenon, <1>4, <2>2, <2>3
  <1>9. RowRenewed(s) /\ RowSound(s)'
    BY Zenon, <1>1, <1>5, <1>8, RowReplaced DEF RowRenewed
  <1>10. \A r \in Subs : (RowKept(r) \/ RowRenewed(r)) /\ RowSound(r)'
    BY Zenon, <1>7, <1>9, RowStays
  <1>11. SubDomains'
    BY Zenon, <1>1, <1>2, <1>6, DomainsKept
  <1>12. \A p \in Plans : PlanKept(p) /\ PlanSound(p)'
    BY Zenon, <1>1, PlansStay
  <1> QED BY Zenon, <1>1, <1>10, <1>11, <1>12 DEF StepSound

\* SetBillingSubscriptionPreferences rolls, then writes two columns.
LEMMA PreferencesStep ==
  ASSUME SubscriptionsInv, NEW op, NEW s \in Subs, NEW n, NEW on, NEW at \in Instants,
         SetBillingSubscriptionPreferences(op, s, n, on, at)
  PROVE  StepSound
  <1> DEFINE u == sub[s].user
             b == RolledSub(s, at)
             c == [b EXCEPT !.priority = n, !.charge = on]
  <1>1. /\ Exists(s) /\ RollSucceeds(u, at) /\ config' = config /\ ents' = ents
        /\ sub' = [r \in Subs |-> IF r = s THEN c ELSE IF r \in SubsOf(u) THEN RolledSub(r, at) ELSE sub[r]]
        /\ periods' = [r \in Subs |-> IF r \in SubsOf(u) THEN RolledPeriods(r, at) ELSE periods[r]]
        /\ balance' = balance /\ rate' = rate /\ now' = now /\ plan' = plan /\ quote' = quote
    BY Zenon DEF SetBillingSubscriptionPreferences
  <1>2. /\ config \in Nat /\ DOMAIN plan = Plans /\ DOMAIN quote = Clients /\ DOMAIN ents = Subs
    BY Zenon DEF SubscriptionsInv, SubDomains
  <1>3. at \in Nat /\ s \in SubsOf(u)
    BY Zenon, <1>1, InstantTypes DEF SubsOf
  <1>4. Sound(b, ents[s], RolledPeriods(s, at)) /\ Carry(b, sub[s])
    BY Zenon, <1>1, <1>3, UserRolled
  <1> HIDE DEF b
  <1>5. Carry(c, b) /\ c.current = b.current /\ c.enabled = b.enabled
    <2>1. DOMAIN b = SubFields
      BY Zenon, <1>4 DEF Carry
    <2> QED BY <2>1 DEF SubFields, Carry
  <1> HIDE DEF c
  <1>6. Sound(c, ents[s], RolledPeriods(s, at))
    BY Zenon, <1>4, <1>5, RelabelSound DEF Carry
  <1>7. RowKept(s) /\ RowSound(s)'
    <2>1. sub'[s] = c /\ periods'[s] = RolledPeriods(s, at) /\ ents'[s] = ents[s]
      BY Zenon, <1>1, <1>3
    <2>2. Carry(c, sub[s])
      BY Zenon, <1>4, <1>5 DEF Carry
    <2> QED BY Zenon, <1>1, <1>6, <2>1, <2>2, RowReplaced DEF RowKept
  <1>8. ASSUME NEW r \in Subs, r # s PROVE RowKept(r) /\ RowSound(r)'
    <2>1. CASE r \in SubsOf(u)
      <3>1. sub'[r] = RolledSub(r, at) /\ periods'[r] = RolledPeriods(r, at)
        BY Zenon, <1>1, <1>8, <2>1
      <3>2. Exists(r) /\ Sound(sub'[r], ents'[r], periods'[r]) /\ Carry(sub'[r], sub[r])
        BY Zenon, <1>1, <1>3, <2>1, <3>1, UserRolled
      <3> QED BY Zenon, <3>2, RowReplaced DEF RowKept
    <2>2. CASE r \notin SubsOf(u)
      <3>1. sub'[r] = sub[r] /\ periods'[r] = periods[r]
        BY Zenon, <1>1, <1>8, <2>2
      <3> QED BY Zenon, <1>1, <3>1, RowStays
    <2> QED BY <2>1, <2>2
  <1>9. DOMAIN sub' = Subs /\ DOMAIN ents' = Subs /\ DOMAIN periods' = Subs
    BY Zenon, <1>1, <1>2
  <1>10. SubDomains'
    BY Zenon, <1>1, <1>2, <1>9, DomainsKept
  <1>11. \A p \in Plans : PlanKept(p) /\ PlanSound(p)'
    BY Zenon, <1>1, PlansStay
  <1> QED BY Zenon, <1>1, <1>7, <1>8, <1>10, <1>11 DEF StepSound

\* The steps that leave every subscription.
LEMMA RowsStay ==
  ASSUME SubscriptionsInv, sub' = sub, ents' = ents, periods' = periods
  PROVE  /\ \A r \in Subs : (RowKept(r) \/ RowRenewed(r)) /\ RowSound(r)'
         /\ DOMAIN sub' = Subs /\ DOMAIN ents' = Subs /\ DOMAIN periods' = Subs
  BY Zenon, RowStays DEF SubscriptionsInv, SubDomains

\* CreateBillingPlan adds a plan with version 1.
LEMMA CreateStep ==
  ASSUME SubscriptionsInv, NEW op, NEW p \in Plans, NEW t \in Terms, CreateBillingPlan(op, p, t)
  PROVE  StepSound
  <1> DEFINE new == [terms |-> t, version |-> 1, active |-> TRUE, deleted |-> FALSE]
  <1>1. /\ plan[p] = NoPlanRow /\ plan' = [plan EXCEPT ![p] = new]
        /\ balance' = balance /\ rate' = rate /\ now' = now /\ quote' = quote
        /\ sub' = sub /\ ents' = ents /\ periods' = periods /\ config' = config
    BY Zenon DEF CreateBillingPlan
  <1>2. config \in Nat /\ DOMAIN plan = Plans /\ DOMAIN quote = Clients
    BY Zenon DEF SubscriptionsInv, SubDomains
  <1>3. new \in PlanRecords
    BY DEF PlanRecords
  <1> HIDE DEF new
  <1>4. DOMAIN plan' = Plans /\ plan'[p] = new /\ \A q \in Plans : q # p => plan'[q] = plan[q]
    BY Zenon, <1>1, <1>2
  <1>5. ASSUME NEW q \in Plans PROVE PlanKept(q) /\ PlanSound(q)'
    <2>1. PlanSound(q)
      BY Zenon DEF SubscriptionsInv
    <2>2. plan[q] # NoPlanRow => plan[q].version \in Nat
      BY Zenon, <2>1, PlanExists DEF PlanSound
    <2>3. plan[q] # NoPlanRow => plan[q].version <= plan[q].version
      BY <2>2
    <2>4. plan[q] # NoPlanRow => plan'[q] = plan[q]
      BY Zenon, <1>1, <1>4
    <2> QED BY Zenon, <1>3, <1>4, <2>1, <2>2, <2>3, <2>4 DEF PlanKept, PlanSound
  <1>6. SubDomains'
    BY Zenon, <1>1, <1>2, <1>4, RowsStay, DomainsKept
  <1> QED BY Zenon, <1>1, <1>5, <1>6, RowsStay DEF StepSound

\* A plan row that changes.
LEMMA PlanChanged ==
  ASSUME SubscriptionsInv, NEW p \in Plans, plan[p] # NoPlanRow, NEW t \in Terms, NEW active \in BOOLEAN,
         NEW deleted \in BOOLEAN, NEW v \in Nat, plan[p].version <= v,
         v = plan[p].version => t = plan[p].terms,
         plan' = [plan EXCEPT ![p].terms = t, ![p].active = active, ![p].deleted = deleted, ![p].version = v]
  PROVE  DOMAIN plan' = Plans /\ \A q \in Plans : PlanKept(q) /\ PlanSound(q)'
  <1>1. DOMAIN plan = Plans
    BY Zenon DEF SubscriptionsInv, SubDomains
  <1>2. plan[p] \in PlanRecords
    BY Zenon DEF SubscriptionsInv, PlanSound
  <1>3. plan'[p].version = v /\ plan'[p].terms = t /\ plan'[p] \in PlanRecords
    <2>1. plan[p].version \in Nat \ {0}
      BY <1>2 DEF PlanRecords
    <2>2. v \in Nat \ {0}
      BY <2>1
    <2> QED BY Zenon, <1>1, <1>2, <2>2 DEF PlanRecords
  <1>4. DOMAIN plan' = Plans /\ \A q \in Plans : q # p => plan'[q] = plan[q]
    BY <1>1
  <1>5. PlanKept(p) /\ PlanSound(p)'
    <2>1. plan'[p] # NoPlanRow
      BY Zenon, <1>3, PlanExists
    <2> QED BY Zenon, <1>3, <2>1 DEF PlanKept, PlanSound
  <1>6. ASSUME NEW q \in Plans, q # p PROVE PlanKept(q) /\ PlanSound(q)'
    <2>1. PlanSound(q)
      BY Zenon DEF SubscriptionsInv
    <2>2. plan[q] # NoPlanRow => plan[q].version \in Nat
      BY Zenon, <2>1, PlanExists DEF PlanSound
    <2>3. plan[q] # NoPlanRow => plan[q].version <= plan[q].version
      BY <2>2
    <2> QED BY Zenon, <1>4, <1>6, <2>1, <2>2, <2>3 DEF PlanKept, PlanSound
  <1> QED BY Zenon, <1>4, <1>5, <1>6

\* UpdateBillingPlan raises the version when the terms change.
LEMMA UpdateStep ==
  ASSUME SubscriptionsInv, NEW op, NEW p \in Plans, NEW t \in Terms, NEW active \in BOOLEAN,
         UpdateBillingPlan(op, p, t, active)
  PROVE  StepSound
  <1> DEFINE changed == plan[p].terms # t \/ plan[p].active # active
             v == IF changed THEN plan[p].version + 1 ELSE plan[p].version
  <1>1. /\ plan[p] # NoPlanRow
        /\ plan' = [plan EXCEPT ![p].terms = t, ![p].active = active,
                                ![p].version = IF changed THEN @ + 1 ELSE @]
        /\ balance' = balance /\ rate' = rate /\ now' = now /\ quote' = quote
        /\ sub' = sub /\ ents' = ents /\ periods' = periods /\ config' = config
    BY Zenon DEF UpdateBillingPlan
  <1>2. config \in Nat /\ DOMAIN plan = Plans /\ DOMAIN quote = Clients
    BY Zenon DEF SubscriptionsInv, SubDomains
  <1>3. plan[p] \in PlanRecords
    BY Zenon, <1>1 DEF SubscriptionsInv, PlanSound
  <1>4. plan[p].version \in Nat /\ plan[p].deleted \in BOOLEAN
    BY <1>3 DEF PlanRecords
  <1>5. v \in Nat /\ plan[p].version <= v /\ (v = plan[p].version => t = plan[p].terms)
    BY <1>4
  <1>6. plan' = [plan EXCEPT ![p].terms = t, ![p].active = active, ![p].deleted = plan[p].deleted,
                             ![p].version = v]
    <2> HIDE DEF changed
    <2> QED BY ZenonT(30), <1>1, <1>2, <1>3 DEF PlanRecords
  <1> HIDE DEF v
  <1>7. DOMAIN plan' = Plans /\ \A q \in Plans : PlanKept(q) /\ PlanSound(q)'
    <2> DEFINE d == plan[p].deleted
    <2>1. /\ d \in BOOLEAN
          /\ plan' = [plan EXCEPT ![p].terms = t, ![p].active = active, ![p].deleted = d, ![p].version = v]
      BY Zenon, <1>4, <1>6
    <2> HIDE DEF d
    <2> QED BY Zenon, <1>1, <1>5, <2>1, PlanChanged
  <1>8. SubDomains'
    BY Zenon, <1>1, <1>2, <1>7, RowsStay, DomainsKept
  <1> QED BY Zenon, <1>1, <1>7, <1>8, RowsStay DEF StepSound

\* DeleteBillingPlan raises the versions of the subscriptions it detaches.
LEMMA DeletePlanStep ==
  ASSUME SubscriptionsInv, NEW op, NEW p \in Plans, DeleteBillingPlan(op, p)
  PROVE  StepSound
  <1> DEFINE detached == {s \in Subs : Exists(s) /\ sub[s].plan = p}
             v == plan[p].version + 1
             t == plan[p].terms
  <1>1. /\ plan[p] # NoPlanRow
        /\ plan' = [plan EXCEPT ![p].active = FALSE, ![p].deleted = TRUE, ![p].version = @ + 1]
        /\ sub' = [s \in Subs |-> IF s \in detached THEN [sub[s] EXCEPT !.plan = NoPlan, !.config = config + 1]
                                  ELSE sub[s]]
        /\ config' = IF detached = {} THEN config ELSE config + 1
        /\ balance' = balance /\ rate' = rate /\ now' = now /\ quote' = quote
        /\ ents' = ents /\ periods' = periods
    BY Zenon DEF DeleteBillingPlan
  <1>2. /\ config \in Nat /\ DOMAIN plan = Plans /\ DOMAIN quote = Clients /\ DOMAIN ents = Subs
        /\ DOMAIN periods = Subs
    BY Zenon DEF SubscriptionsInv, SubDomains
  <1>3. plan[p] \in PlanRecords
    BY Zenon, <1>1 DEF SubscriptionsInv, PlanSound
  <1>4. v \in Nat /\ plan[p].version <= v /\ (v = plan[p].version => t = plan[p].terms) /\ t \in Terms
    BY <1>3 DEF PlanRecords
  <1>5. plan' = [plan EXCEPT ![p].terms = t, ![p].active = FALSE, ![p].deleted = TRUE, ![p].version = v]
    <2>1. plan' = [plan EXCEPT ![p].active = FALSE, ![p].deleted = TRUE, ![p].version = v]
      BY Zenon, <1>1
    <2> HIDE DEF v
    <2> QED BY Zenon, <1>2, <1>3, <2>1 DEF PlanRecords
  <1> HIDE DEF v, t
  <1>6. DOMAIN plan' = Plans /\ \A q \in Plans : PlanKept(q) /\ PlanSound(q)'
    <2>1. TRUE \in BOOLEAN /\ FALSE \in BOOLEAN
      OBVIOUS
    <2> QED BY Zenon, <1>1, <1>4, <1>5, <2>1, PlanChanged
  <1>7. (config' = config \/ config' = config + 1) /\ config' \in Nat
    <2>1. config' = config \/ config' = config + 1
      BY Zenon, <1>1
    <2> QED BY <1>2, <2>1
  <1>8. ASSUME NEW s \in Subs PROVE (RowKept(s) \/ RowRenewed(s)) /\ RowSound(s)'
    <2>1. CASE s \notin detached
      <3>1. sub'[s] = sub[s] /\ ents'[s] = ents[s] /\ periods'[s] = periods[s]
        BY Zenon, <1>1, <2>1
      <3> QED BY Zenon, <3>1, RowStays
    <2>2. CASE s \in detached
      <3> DEFINE b == sub[s]
                 c == [b EXCEPT !.plan = NoPlan, !.config = config + 1]
      <3>1. sub'[s] = c /\ config' = config + 1 /\ Exists(s) /\ ents'[s] = ents[s] /\ periods'[s] = periods[s]
        BY Zenon, <1>1, <2>2
      <3>2. Sound(b, ents[s], periods[s])
        BY Zenon, <3>1 DEF SubscriptionsInv, RowSound
      <3>3. DOMAIN b = SubFields
        BY Zenon, <3>2 DEF Sound, Row
      <3> HIDE DEF b
      <3>4. /\ DOMAIN c = SubFields /\ c.expires = b.expires /\ c.count = b.count /\ c.current = b.current
            /\ c.enabled = b.enabled /\ c.plan = NoPlan /\ c.config = config + 1
        BY <3>3 DEF SubFields
      <3> HIDE DEF c
      <3>5. Sound(c, ents[s], periods[s])
        BY Zenon, <3>2, <3>4, RelabelSound
      <3> QED BY Zenon, <3>1, <3>4, <3>5, RowReplaced DEF RowRenewed
    <2> QED BY <2>1, <2>2
  <1>9. DOMAIN sub' = Subs
    BY Zenon, <1>1
  <1>10. SubDomains'
    BY Zenon, <1>1, <1>2, <1>6, <1>7, <1>9, DomainsKept
  <1> QED BY Zenon, <1>1, <1>6, <1>7, <1>8, <1>10 DEF StepSound

\* debitBillingPlanCashTx takes what it is asked to.
LEMMA Debited ==
  ASSUME SubscriptionsInv, NEW u \in Users, NEW total \in Nat, Debit(u, total)
  PROVE  balance' \in [Users -> Int] /\ rate' = rate /\ balance[u] - balance'[u] = total
  <1>1. balance \in [Users -> Int]
    BY Zenon DEF SubscriptionsInv, SubDomains
  <1>2. balance' = [balance EXCEPT ![u] = @ - total] /\ rate' = rate
    BY Zenon DEF Debit
  <1> QED BY <1>1, <1>2

\* What a purchase or a renewal leaves well formed.
LEMMA BoughtDomains ==
  ASSUME SubscriptionsInv, now' = now, rate' = rate, balance' \in [Users -> Int], config' = config + 1,
         DOMAIN sub' = Subs, DOMAIN ents' = Subs, DOMAIN periods' = Subs, plan' = plan, quote' = quote
  PROVE  SubDomains'
  <1>1. config + 1 \in Nat
    BY DEF SubscriptionsInv, SubDomains
  <1> QED BY ZenonT(30), <1>1 DEF SubscriptionsInv, SubDomains

\* A purchase charges and grants what the page showed: its version is the
\* stored one.
LEMMA PurchaseStep ==
  ASSUME SubscriptionsInv, NEW op, NEW c \in Clients, NEW s \in Subs, NEW n \in PeriodCounts \ {0},
         NEW at \in Instants, PurchaseBillingPlan(op, c, s, n, at)
  PROVE  /\ StepSound
         /\ balance[ClientUser[c]] - balance'[ClientUser[c]] = quote[c].terms.price * n
         /\ ents'[s][Len(ents'[s])].allowance = quote[c].terms.allowance
  <1> DEFINE u == ClientUser[c]
             p == quote[c].plan
             t == plan[p].terms
             days == t.days
             allowance == t.allowance
             total == t.price * n
  <1>1. /\ p # NoPlan /\ plan[p].version = quote[c].version
        /\ reopenBillingSubscriptionTx(s, u, days, allowance, n, at, p) /\ Debit(u, total)
        /\ now' = now /\ plan' = plan /\ quote' = quote
    BY Zenon DEF PurchaseBillingPlan
  <1>2. /\ p \in Plans /\ plan[p] # NoPlanRow /\ quote[c].terms = t
    <2>1. NoQuote.plan = NoPlan
      BY DEF NoQuote
    <2>2. quote[c] # NoQuote
      BY Zenon, <1>1, <2>1
    <2> QED BY ZenonT(30), <1>1, <2>2 DEF SubscriptionsInv, QuoteSound
  <1>3. t \in Terms
    BY Zenon, <1>2, PlanExists DEF SubscriptionsInv, PlanSound
  <1> HIDE DEF p, t
  <1>4. /\ days \in Nat \ {0} /\ allowance \in Nat /\ n \in Nat /\ at \in Nat /\ t.price \in Nat
    BY Zenon, <1>3, TermTypes, CountTypes, InstantTypes
  <1>5. total \in Nat /\ u \in Users
    BY <1>4, Product, SubscriptionsAssumption
  <1> HIDE DEF days, allowance, u
  <1>6. /\ config' = config + 1 /\ DOMAIN sub' = Subs /\ DOMAIN ents' = Subs /\ DOMAIN periods' = Subs
        /\ \A r \in Subs : (RowKept(r) \/ RowRenewed(r)) /\ RowSound(r)'
        /\ ents'[s] = Append(Superseded(ents[s]), Entitlement(at, days, allowance, n, 1))
    <2>1. Reopening(s, u, days, allowance, n, at, p)
      BY Zenon, <1>1, <1>2, <1>4 DEF Reopening
    <2>2. ReopenedAs(s, days, allowance, n, at)
      BY Zenon, <2>1, Reopens
    <2> QED BY Zenon, <2>2 DEF ReopenedAs
  <1>7. balance' \in [Users -> Int] /\ rate' = rate /\ balance[u] - balance'[u] = total
    <2> HIDE DEF total
    <2> QED BY Zenon, <1>1, <1>5, Debited
  <1>8. SubDomains'
    BY Zenon, <1>1, <1>6, <1>7, BoughtDomains
  <1>9. \A q \in Plans : PlanKept(q) /\ PlanSound(q)'
    BY Zenon, <1>1, PlansStay
  <1>10. StepSound
    BY Zenon, <1>1, <1>6, <1>8, <1>9 DEF StepSound
  <1>11. ents'[s][Len(ents'[s])].allowance = allowance
    <2> DEFINE e == Entitlement(at, days, allowance, n, 1)
               old == Superseded(ents[s])
    <2>1. Granted(ents[s])
      BY Zenon, LeftBehind DEF Past
    <2>2. old \in Seq(Segments)
      BY Zenon, <2>1, SupersededRows
    <2>3. e.allowance = allowance
      BY DEF Entitlement
    <2> HIDE DEF e, old
    <2>4. Append(old, e)[Len(Append(old, e))] = e
      BY <2>2
    <2> QED BY Zenon, <1>6, <2>3, <2>4 DEF e, old
  <1> QED BY Zenon, <1>2, <1>7, <1>10, <1>11 DEF u, allowance

\* A renewal charges and grants what the page showed, from the expiry it
\* showed: both its versions are the stored ones.
LEMMA RenewStep ==
  ASSUME SubscriptionsInv, NEW op, NEW c \in Clients, NEW n \in PeriodCounts \ {0}, NEW at \in Instants,
         RenewBillingSubscription(op, c, n, at)
  PROVE  /\ StepSound
         /\ balance[ClientUser[c]] - balance'[ClientUser[c]] = quote[c].terms.price * n
         /\ LET e == ents'[quote[c].sub][Len(ents'[quote[c].sub])]
            IN  e.allowance = quote[c].terms.allowance /\ e.start = quote[c].expires
  <1> DEFINE u == ClientUser[c]
             s == quote[c].sub
             p == sub[s].plan
             t == plan[p].terms
             rolled == RolledSub(s, at)
             rows == RolledPeriods(s, at)
             e == Entitlement(rolled.expires, t.days, t.allowance, n, rolled.count + 1)
             b == [rolled EXCEPT !.count = @ + n, !.expires = e.end, !.config = config + 1]
             total == t.price * n
  <1>1. /\ s \in Subs /\ Exists(s) /\ sub[s].user = u /\ p # NoPlan
        /\ plan[p].version = quote[c].version /\ sub[s].config = quote[c].config
        /\ RollSucceeds(u, at) /\ rolled.expires # Never
        /\ ents' = [ents EXCEPT ![s] = Append(@, e)]
        /\ sub' = [r \in Subs |-> IF r = s THEN b ELSE IF r \in SubsOf(u) THEN RolledSub(r, at) ELSE sub[r]]
        /\ periods' = [r \in Subs |-> IF r \in SubsOf(u) THEN RolledPeriods(r, at) ELSE periods[r]]
        /\ config' = config + 1 /\ Debit(u, total)
        /\ now' = now /\ plan' = plan /\ quote' = quote
    BY Zenon DEF RenewBillingSubscription
  <1>2. config \in Nat /\ DOMAIN ents = Subs
    BY Zenon DEF SubscriptionsInv, SubDomains
  <1>3. p \in Plans /\ plan[p] # NoPlanRow
    BY Zenon, <1>1 DEF SubscriptionsInv, RowLinked
  <1>4. quote[c].terms = t /\ quote[c].expires = sub[s].expires
    <2>1. quote[c] # NoQuote
      BY Zenon, <1>1, SubscriptionsAssumption
    <2>2. sub[s].plan = quote[c].plan /\ sub[s].expires = quote[c].expires
      BY Zenon, <1>1, <2>1 DEF SubscriptionsInv, QuoteSound
    <2>3. quote[c].version = plan[quote[c].plan].version => quote[c].terms = plan[quote[c].plan].terms
      BY Zenon, <2>1 DEF SubscriptionsInv, QuoteSound
    <2> QED BY ZenonT(30), <1>1, <2>2, <2>3
  <1>5. t \in Terms
    BY Zenon, <1>3, PlanExists DEF SubscriptionsInv, PlanSound
  <1>6. at \in Nat /\ s \in SubsOf(u)
    BY Zenon, <1>1, InstantTypes DEF SubsOf
  <1>7. Sound(rolled, ents[s], rows) /\ Carry(rolled, sub[s])
    BY ZenonT(30), <1>1, <1>6, UserRolled
  <1>8. /\ rolled.expires \in Nat /\ rolled.count \in Nat /\ DOMAIN rolled = SubFields
        /\ ents[s] \in Seq(Segments)
    BY Zenon, <1>1, <1>7 DEF Sound, Row, Granted
  <1> HIDE DEF t, rolled
  <1>9. /\ t.days \in Nat \ {0} /\ t.allowance \in Nat /\ n \in Nat /\ n # 0 /\ t.price \in Nat
    BY ZenonT(30), <1>5, TermTypes, CountTypes
  <1>10. total \in Nat /\ u \in Users /\ rolled.count + 1 \in Nat
    BY <1>8, <1>9, Product, SubscriptionsAssumption
  <1>11. /\ e \in Segments /\ EndsWithCount(e) /\ e.live = TRUE
         /\ e.start = rolled.expires /\ e.allowance = t.allowance /\ e.count = n
    <2> DEFINE first == rolled.count + 1
    <2>1. e.start = rolled.expires /\ e.allowance = t.allowance /\ e.count = n
      BY DEF Entitlement
    <2>2. e = Entitlement(rolled.expires, t.days, t.allowance, n, first) /\ first \in Nat
      BY Zenon, <1>10
    <2> HIDE DEF first, e
    <2>3. \E f \in Nat : e = Entitlement(rolled.expires, t.days, t.allowance, n, f)
      BY Zenon, <2>2
    <2>4. \E x \in Nat, d \in Nat \ {0}, a \in Nat, k \in Nat, f \in Nat : e = Entitlement(x, d, a, k, f)
      BY Zenon, <1>8, <1>9, <2>3
    <2>5. e \in Segments /\ EndsWithCount(e) /\ e.live = TRUE
      BY Zenon, <2>4, GrantedTypes
    <2> QED BY Zenon, <2>1, <2>5
  <1> HIDE DEF e
  <1>12. /\ DOMAIN b = SubFields /\ b.expires = e.end /\ b.count \in Nat /\ b.current = rolled.current
         /\ b.enabled = rolled.enabled /\ b.plan = rolled.plan /\ b.config = config + 1
    BY <1>8, <1>9 DEF SubFields
  <1> HIDE DEF b
  <1>13. Sound(b, Append(ents[s], e), rows)
    <2>1. e.count # 0
      BY Zenon, <1>9, <1>11
    <2> HIDE DEF s, rows
    <2> QED BY Zenon, <1>1, <1>7, <1>11, <1>12, <2>1, RenewSound
  <1>14. sub'[s] = b /\ ents'[s] = Append(ents[s], e) /\ periods'[s] = rows
    BY Zenon, <1>1, <1>2, <1>6
  <1>15. RowRenewed(s) /\ RowSound(s)'
    <2>1. b.plan = p
      BY Zenon, <1>7, <1>12 DEF Carry
    <2>2. RowSound(s)'
      <3> HIDE DEF s, rows
      <3>1. Sound(sub'[s], ents'[s], periods'[s])
        BY Zenon, <1>13, <1>14
      <3>2. quote' = quote
        BY Zenon, <1>1
      <3>3. s' = s
        BY <3>2 DEF s
      <3>4. \A r \in Subs : Sound(sub'[r], ents'[r], periods'[r]) => RowSound(r)'
        BY Zenon, RowReplaced
      <3>5. ASSUME NEW r \in Subs, r = s PROVE RowSound(s)'
        <4>1. RowSound(r)'
          BY Zenon, <3>1, <3>4, <3>5
        <4> QED BY <4>1, <3>3, <3>5 DEF RowSound, Exists
      <3> QED BY Zenon, <1>1, <3>5
    <2> QED BY Zenon, <1>1, <1>3, <1>12, <1>14, <2>1, <2>2 DEF RowRenewed
  <1>16. ASSUME NEW r \in Subs, r # s PROVE RowKept(r) /\ RowSound(r)'
    <2>0. ents'[r] = ents[r]
      BY Zenon, <1>1, <1>2, <1>16
    <2>1. CASE r \in SubsOf(u)
      <3>1. sub'[r] = RolledSub(r, at) /\ periods'[r] = RolledPeriods(r, at)
        BY Zenon, <1>1, <1>16, <2>1
      <3>2. Exists(r) /\ Sound(sub'[r], ents'[r], periods'[r]) /\ Carry(sub'[r], sub[r])
        BY Zenon, <1>1, <1>6, <2>0, <2>1, <3>1, UserRolled
      <3> QED BY Zenon, <3>2, RowReplaced DEF RowKept
    <2>2. CASE r \notin SubsOf(u)
      <3>1. sub'[r] = sub[r] /\ periods'[r] = periods[r]
        BY Zenon, <1>1, <1>16, <2>2
      <3> QED BY Zenon, <2>0, <3>1, RowStays
    <2> QED BY <2>1, <2>2
  <1>17. DOMAIN sub' = Subs /\ DOMAIN ents' = Subs /\ DOMAIN periods' = Subs
    BY Zenon, <1>1, <1>2
  <1>18. balance' \in [Users -> Int] /\ rate' = rate /\ balance[u] - balance'[u] = total
    <2> HIDE DEF total, u
    <2> QED BY Zenon, <1>1, <1>10, Debited
  <1>19. SubDomains'
    BY Zenon, <1>1, <1>17, <1>18, BoughtDomains
  <1>20. \A q \in Plans : PlanKept(q) /\ PlanSound(q)'
    BY Zenon, <1>1, PlansStay
  <1>21. StepSound
    BY Zenon, <1>1, <1>15, <1>16, <1>19, <1>20 DEF StepSound
  <1>22. ents'[s][Len(ents'[s])] = e
    <2>1. Append(ents[s], e)[Len(Append(ents[s], e))] = e
      BY <1>8, <1>11
    <2> QED BY Zenon, <1>14, <2>1
  <1>23. e.start = sub[s].expires
    BY Zenon, <1>7, <1>11 DEF Carry
  <1> QED BY Zenon, <1>4, <1>11, <1>18, <1>21, <1>22, <1>23

\* A step that may change a page, and what subscriptions roll to.
LEMMA RolledStep ==
  ASSUME SubscriptionsInv, NEW u, NEW at \in Nat, rollBillingSubscriptionsTx(u, at),
         balance' = balance, rate' = rate, now' = now, plan' = plan, ents' = ents, config' = config,
         DOMAIN quote' = Clients, \A c \in Clients : quote'[c] = quote[c] \/ QuoteSound(c)'
  PROVE  StepSound
  <1>1. \A s \in Subs : RowKept(s) /\ RowSound(s)'
    BY Zenon, RollStep
  <1>2. DOMAIN sub' = Subs /\ DOMAIN periods' = Subs
    BY Zenon DEF rollBillingSubscriptionsTx
  <1>3. DOMAIN ents' = Subs /\ DOMAIN plan' = Plans /\ config' \in Nat
    BY Zenon DEF SubscriptionsInv, SubDomains
  <1>4. SubDomains'
    BY Zenon, <1>2, <1>3, DomainsKept
  <1>5. \A p \in Plans : PlanKept(p) /\ PlanSound(p)'
    BY Zenon, PlansStay
  <1> QED BY Zenon, <1>1, <1>4, <1>5 DEF StepSound

\* What a page shows of a subscription is what is stored: rolling keeps the
\* columns it shows.
LEMMA StateStep ==
  ASSUME SubscriptionsInv, NEW c \in Clients, NEW s \in Subs, GetBillingState(c, s)
  PROVE  StepSound
  <1> DEFINE u == ClientUser[c]
             p == sub[s].plan
             q == IF p = NoPlan THEN NoQuote
                  ELSE [sub |-> s, plan |-> p, version |-> plan[p].version,
                        config |-> sub[s].config, terms |-> plan[p].terms, expires |-> sub[s].expires]
  <1>1. /\ rollBillingSubscriptionsTx(u, now) /\ s \in SubsOf(u)
        /\ quote' = [quote EXCEPT ![c] = q]
        /\ now' = now /\ plan' = plan /\ ents' = ents /\ config' = config
    BY Zenon DEF GetBillingState
  <1>2. balance' = balance /\ rate' = rate
    BY DEF GetBillingState, cashVars
  <1>3. now \in Nat /\ DOMAIN quote = Clients
    BY Zenon DEF SubscriptionsInv, SubDomains
  <1>4. DOMAIN quote' = Clients /\ quote'[c] = q /\ \A d \in Clients : d # c => quote'[d] = quote[d]
    BY Zenon, <1>1, <1>3
  <1>5. QuoteSound(c)'
    <2>1. CASE p = NoPlan
      BY Zenon, <1>4, <2>1 DEF QuoteSound
    <2>2. CASE p # NoPlan
      <3>1. /\ q.sub = s /\ q.plan = p /\ q.version = plan[p].version /\ q.config = sub[s].config
            /\ q.terms = plan[p].terms /\ q.expires = sub[s].expires
        BY Zenon, <2>2
      <3>2. Exists(s) /\ RowLinked(s)
        BY Zenon, <1>1 DEF SubsOf, SubscriptionsInv
      <3>3. p \in Plans /\ plan[p] # NoPlanRow /\ sub[s].config \in Nat /\ sub[s].config <= config
        BY Zenon, <2>2, <3>2 DEF RowLinked
      <3>4. plan[p].version \in Nat
        BY Zenon, <3>3, PlanExists DEF SubscriptionsInv, PlanSound
      <3>5. plan[p].version <= plan[p].version
        BY <3>4
      <3>6. RowKept(s)
        BY Zenon, <1>1, <1>3, RollStep
      <3>7. /\ DOMAIN sub'[s] = SubFields /\ sub'[s].plan = p /\ sub'[s].expires = sub[s].expires
            /\ sub'[s].config = sub[s].config
        BY Zenon, <3>2, <3>6 DEF RowKept, Carry
      <3>8. sub'[s] # NoSub
        BY Zenon, <3>7, RowExists
      <3> DEFINE v == quote'[c]
      <3>9. /\ v.sub = s /\ v.plan = p /\ v.version = plan'[p].version /\ v.config = sub'[s].config
            /\ v.terms = plan'[p].terms /\ v.expires = sub'[s].expires
        BY Zenon, <1>1, <1>4, <3>1, <3>7
      <3>10. p \in Plans /\ plan'[p] # NoPlanRow /\ plan'[p].version \in Nat /\ plan'[p].version <= plan'[p].version
        BY Zenon, <1>1, <3>3, <3>4, <3>5
      <3>11. sub'[s].config \in Nat /\ sub'[s].config <= config' /\ sub'[s].plan = p
        BY Zenon, <1>1, <3>3, <3>7
      <3> HIDE DEF v, q, p
      <3>12. /\ v.plan \in Plans /\ plan'[v.plan] # NoPlanRow
             /\ v.version \in Nat /\ v.version <= plan'[v.plan].version
             /\ v.terms = plan'[v.plan].terms
             /\ v.config \in Nat /\ v.config <= config' /\ sub'[v.sub] # NoSub
             /\ sub'[v.sub].plan = v.plan /\ sub'[v.sub].expires = v.expires
        BY Zenon, <3>8, <3>9, <3>10, <3>11
      <3> QED BY ZenonT(30), <3>12 DEF v, QuoteSound, Exists
    <2> QED BY <2>1, <2>2
  <1>6. \A d \in Clients : quote'[d] = quote[d] \/ QuoteSound(d)'
    BY Zenon, <1>4, <1>5
  <1> HIDE DEF u
  <1> QED BY Zenon, <1>1, <1>2, <1>3, <1>4, <1>6, RolledStep

\* An admission rolls with the instant the request arrived at.
LEMMA AdmissionStep ==
  ASSUME SubscriptionsInv, NEW u, NEW at \in Instants, RollForAdmission(u, at)
  PROVE  StepSound
  <1>1. /\ rollBillingSubscriptionsTx(u, at)
        /\ now' = now /\ plan' = plan /\ ents' = ents /\ config' = config /\ quote' = quote
    BY Zenon DEF RollForAdmission
  <1>2. balance' = balance /\ rate' = rate
    BY DEF RollForAdmission, cashVars
  <1>3. at \in Nat /\ DOMAIN quote' = Clients /\ \A c \in Clients : quote'[c] = quote[c]
    BY Zenon, <1>1, InstantTypes DEF SubscriptionsInv, SubDomains
  <1> QED BY Zenon, <1>1, <1>2, <1>3, RolledStep

\* A step that leaves subscriptions and plans alone.
LEMMA QuietStep ==
  ASSUME SubscriptionsInv, SubDomains', sub' = sub, ents' = ents, periods' = periods, plan' = plan,
         config' = config, \A c \in Clients : quote'[c] = quote[c] \/ QuoteSound(c)'
  PROVE  StepSound
  <1>1. \A p \in Plans : PlanKept(p) /\ PlanSound(p)'
    BY Zenon, PlansStay
  <1> QED BY Zenon, <1>1, RowsStay DEF StepSound

\* A page that lists the catalogue shows no subscription.
LEMMA ListStep ==
  ASSUME SubscriptionsInv, NEW c \in Clients, NEW p \in Plans, ListBillingPlans(c, p)
  PROVE  StepSound
  <1> DEFINE q == [sub |-> "none", plan |-> p, version |-> plan[p].version, config |-> 0,
                   terms |-> plan[p].terms, expires |-> Never]
             v == quote'[c]
  <1>1. /\ plan[p] # NoPlanRow /\ quote' = [quote EXCEPT ![c] = q]
        /\ now' = now /\ plan' = plan /\ sub' = sub /\ ents' = ents /\ periods' = periods /\ config' = config
    BY Zenon DEF ListBillingPlans
  <1>2. balance' = balance /\ rate' = rate
    BY DEF ListBillingPlans, cashVars
  <1>3. DOMAIN quote = Clients /\ DOMAIN plan = Plans /\ config \in Nat
    BY Zenon DEF SubscriptionsInv, SubDomains
  <1>4. DOMAIN quote' = Clients /\ quote'[c] = q /\ \A d \in Clients : d # c => quote'[d] = quote[d]
    BY Zenon, <1>1, <1>3
  <1>5. QuoteSound(c)'
    <2>1. q.sub = NoQuote.sub /\ q.plan = p /\ q.version = plan[p].version /\ q.terms = plan[p].terms
      BY DEF NoQuote
    <2>2. plan[p].version \in Nat
      BY Zenon, <1>1, PlanExists DEF SubscriptionsInv, PlanSound
    <2>3. plan[p].version <= plan[p].version
      BY <2>2
    <2> HIDE DEF q
    <2>4. v.sub = NoQuote.sub /\ v.plan = p /\ v.version = plan'[p].version /\ v.terms = plan'[p].terms
      BY Zenon, <1>1, <1>4, <2>1
    <2>5. v.sub \notin Subs
      BY Zenon, <2>4, SubscriptionsAssumption
    <2>6. /\ v.plan \in Plans /\ plan'[v.plan] # NoPlanRow
          /\ v.version \in Nat /\ v.version <= plan'[v.plan].version
          /\ v.terms = plan'[v.plan].terms
      <3> HIDE DEF v
      <3> QED BY Zenon, <1>1, <2>2, <2>3, <2>4
    <2> QED BY Zenon, <2>5, <2>6 DEF QuoteSound
  <1>6. SubDomains'
    BY Zenon, <1>1, <1>2, <1>3, <1>4, DomainsKept, RowsStay
  <1>7. \A d \in Clients : quote'[d] = quote[d] \/ QuoteSound(d)'
    BY Zenon, <1>4, <1>5
  <1> QED BY Zenon, <1>1, <1>6, <1>7, QuietStep

\* The sweep closes the period of a subscription it disables.
LEMMA ExpireStep ==
  ASSUME SubscriptionsInv, NEW u, NEW at, ExpireBillingSubscriptions(u, at)
  PROVE  StepSound
  <1>1. /\ sub' = [s \in Subs |-> IF s \in SubsOf(u) /\ Expired(s, at)
                                  THEN [sub[s] EXCEPT !.enabled = FALSE] ELSE sub[s]]
        /\ periods' = [s \in Subs |-> IF s \in SubsOf(u) /\ Expired(s, at) THEN Closed(s) ELSE periods[s]]
        /\ now' = now /\ plan' = plan /\ ents' = ents /\ config' = config /\ quote' = quote
    BY Zenon DEF ExpireBillingSubscriptions
  <1>2. balance' = balance /\ rate' = rate
    BY DEF ExpireBillingSubscriptions, cashVars
  <1>3. DOMAIN quote = Clients /\ DOMAIN plan = Plans /\ DOMAIN ents = Subs /\ config \in Nat
    BY Zenon DEF SubscriptionsInv, SubDomains
  <1>4. ASSUME NEW s \in Subs PROVE RowKept(s) /\ RowSound(s)'
    <2>1. CASE s \in SubsOf(u) /\ Expired(s, at)
      <3> DEFINE b == sub[s]
                 d == [b EXCEPT !.enabled = FALSE]
      <3>1. sub'[s] = d /\ periods'[s] = Closed(s) /\ ents'[s] = ents[s]
        BY Zenon, <1>1, <2>1
      <3>2. Exists(s)
        BY Zenon, <2>1 DEF SubsOf
      <3>3. Sound(b, ents[s], periods[s])
        BY Zenon, <3>2 DEF SubscriptionsInv, RowSound
      <3>4. DOMAIN b = SubFields /\ b.current = Len(periods[s])
        BY Zenon, <3>3 DEF Sound, Row
      <3>5. Closed(s) = Close(periods[s])
        BY Zenon, <3>4 DEF Closed, Close
      <3> HIDE DEF b
      <3>6. Carry(d, b) /\ d.current = b.current /\ d.enabled = FALSE
        BY <3>4 DEF SubFields, Carry
      <3> HIDE DEF d
      <3>7. /\ DOMAIN d = SubFields /\ d.expires = b.expires /\ d.count = b.count
            /\ d.current = b.current /\ d.enabled = FALSE
        BY Zenon, <3>6 DEF Carry
      <3>8. Sound(d, ents[s], Close(periods[s]))
        BY Zenon, <3>3, <3>7, DisableSound
      <3>9. Sound(sub'[s], ents'[s], periods'[s])
        BY Zenon, <3>1, <3>5, <3>8
      <3>10. RowSound(s)'
        BY Zenon, <3>9, RowReplaced
      <3> QED BY Zenon, <3>1, <3>2, <3>6, <3>10 DEF RowKept, b
    <2>2. CASE ~(s \in SubsOf(u) /\ Expired(s, at))
      <3>1. sub'[s] = sub[s] /\ periods'[s] = periods[s] /\ ents'[s] = ents[s]
        BY Zenon, <1>1, <2>2
      <3> QED BY Zenon, <3>1, RowStays
    <2> QED BY <2>1, <2>2
  <1>5. DOMAIN sub' = Subs /\ DOMAIN periods' = Subs
    BY Zenon, <1>1
  <1>6. SubDomains'
    BY Zenon, <1>1, <1>2, <1>3, <1>5, DomainsKept
  <1>7. \A p \in Plans : PlanKept(p) /\ PlanSound(p)'
    BY Zenon, <1>1, PlansStay
  <1> QED BY Zenon, <1>1, <1>4, <1>6, <1>7 DEF StepSound

\* Money that comes in is a whole amount, and a request sent again moves none.
LEMMA FundStep ==
  ASSUME SubscriptionsInv, NEW op, FundAccount(op) \/ ResendWrite(op)
  PROVE  StepSound
  <1>1. now' = now /\ plan' = plan /\ sub' = sub /\ ents' = ents /\ periods' = periods /\ config' = config /\ quote' = quote
    BY DEF FundAccount, ResendWrite, subVars
  <1>2. balance \in [Users -> Int] /\ rate \in Rates
    BY Zenon DEF SubscriptionsInv, SubDomains
  <1>3. balance' \in [Users -> Int] /\ rate' = rate
    <2>1. CASE balance' = balance /\ rate' = rate
      BY Zenon, <1>2, <2>1
    <2>2. ASSUME NEW u \in Users, NEW a \in Amounts, rate' = rate,
                 balance' = [balance EXCEPT ![u] = @ + MultiplyToAmount(a, rate)]
          PROVE  balance' \in [Users -> Int] /\ rate' = rate
      <3> DEFINE usd == MultiplyToAmount(a, rate)
      <3>1. a \in Nat /\ rate \in Nat /\ RateUnit \in Nat /\ RateUnit > 0
        BY <1>2, CashAssumption
      <3>2. a * rate \in Nat
        BY Zenon, <3>1, Product
      <3>3. usd \in Int
        BY <3>1, <3>2 DEF MultiplyToAmount
      <3> HIDE DEF usd
      <3> QED BY <1>2, <2>2, <3>3 DEF usd
    <2>3. ResendWrite(op) => balance' = balance /\ rate' = rate
      BY Zenon DEF ResendWrite, ReplayOperation
    <2>4. ASSUME NEW u \in Users, NEW a \in Amounts, RechargeUser(op, u, a)
          PROVE  \/ balance' = balance /\ rate' = rate
                 \/ balance' = [balance EXCEPT ![u] = @ + MultiplyToAmount(a, rate)] /\ rate' = rate
      BY Zenon, <2>4 DEF RechargeUser, ReplayOperation
    <2> QED BY Zenon, <2>1, <2>2, <2>3, <2>4 DEF FundAccount
  <1>4. SubDomains'
    BY Zenon, <1>1, <1>2, <1>3 DEF SubscriptionsInv, SubDomains
  <1> QED BY Zenon, <1>1, <1>4, QuietStep

\* The clock moves, or nothing does.
LEMMA TickStep ==
  ASSUME SubscriptionsInv, Tick \/ UNCHANGED allSubVars
  PROVE  StepSound
  <1>1. /\ plan' = plan /\ sub' = sub /\ ents' = ents /\ periods' = periods /\ config' = config
        /\ quote' = quote /\ balance' = balance /\ rate' = rate
    BY DEF Tick, allSubVars, cashVars, subVars
  <1>2. now' = now \/ now' = now + 1
    BY DEF Tick, Advance, allSubVars, subVars
  <1>3. now \in Nat
    BY Zenon DEF SubscriptionsInv, SubDomains
  <1>4. now' \in Nat
    BY <1>2, <1>3
  <1>5. SubDomains'
    BY Zenon, <1>1, <1>4 DEF SubscriptionsInv, SubDomains
  <1> QED BY Zenon, <1>1, <1>5, QuietStep

\* Every step keeps the invariant.
LEMMA SubscriptionsStep ==
  ASSUME SubscriptionsInv, [SubscriptionsNext]_allSubVars
  PROVE  SubscriptionsInv'
  <1>1. ASSUME NEW op \in Ops, SubscriptionWrite(op) PROVE StepSound
    BY Zenon, <1>1, PutStep, DeleteStep, PreferencesStep, CreateStep, UpdateStep, DeletePlanStep,
       PurchaseStep, RenewStep DEF SubscriptionWrite
  <1>2. SubscriptionRead => StepSound
    BY Zenon, StateStep, AdmissionStep, ListStep, ExpireStep DEF SubscriptionRead
  <1>3. StepSound
    BY Zenon, <1>1, <1>2, FundStep, TickStep DEF SubscriptionsNext
  <1> QED BY Zenon, <1>3, StepKeeps

\* However the transactions of pages, admissions, owners and the sweep
\* interleave, with instants of any age, the periods opened for an entitlement
\* are distinct slots of its grid within what was bought, one open at a time.
THEOREM EntitlementNotExceededHolds == SubscriptionsSpec => []EntitlementNotExceeded
  <1>1. SubscriptionsInv /\ [SubscriptionsNext]_allSubVars => SubscriptionsInv'
    BY Zenon, SubscriptionsStep
  <1>2. SubscriptionsInv => EntitlementNotExceeded
    BY Zenon, PeriodsApart
  <1> QED BY <1>1, <1>2, SubscriptionsInitially, PTL DEF SubscriptionsSpec

\* A running subscription has exactly one entitlement for every instant from
\* its current period to its expiry: no roll fails for want of one.
THEOREM RollFindsSegmentHolds == SubscriptionsSpec => []RollFindsSegment
  <1>1. SubscriptionsInv /\ [SubscriptionsNext]_allSubVars => SubscriptionsInv'
    BY Zenon, SubscriptionsStep
  <1>2. SubscriptionsInv => RollFindsSegment
    BY Zenon, SegmentsCover
  <1> QED BY <1>1, <1>2, SubscriptionsInitially, PTL DEF SubscriptionsSpec

\* A purchase or a renewal charges the price the page showed, for the terms it
\* showed, and a renewal continues the expiry it showed, whatever happened
\* between reading the page and sending it.
THEOREM PaidAsQuotedHolds == SubscriptionsSpec => PaidAsQuoted
  <1> DEFINE Paid ==
          \A c \in Clients, op \in Ops, n \in PeriodCounts \ {0} :
              /\ \A s \in Subs, at \in Instants : PurchaseBillingPlan(op, c, s, n, at) =>
                    /\ balance[ClientUser[c]] - balance'[ClientUser[c]] = quote[c].terms.price * n
                    /\ ents'[s][Len(ents'[s])].allowance = quote[c].terms.allowance
              /\ \A at \in Instants : RenewBillingSubscription(op, c, n, at) =>
                    LET e == ents'[quote[c].sub][Len(ents'[quote[c].sub])] IN
                    /\ balance[ClientUser[c]] - balance'[ClientUser[c]] = quote[c].terms.price * n
                    /\ e.allowance = quote[c].terms.allowance
                    /\ e.start = quote[c].expires
  <1>1. SubscriptionsInv /\ [SubscriptionsNext]_allSubVars => SubscriptionsInv'
    BY Zenon, SubscriptionsStep
  <1>2. SubscriptionsInv => Paid
    <2> SUFFICES ASSUME SubscriptionsInv, NEW c \in Clients, NEW op \in Ops, NEW n \in PeriodCounts \ {0}
                 PROVE
              /\ \A s \in Subs, at \in Instants : PurchaseBillingPlan(op, c, s, n, at) =>
                    /\ balance[ClientUser[c]] - balance'[ClientUser[c]] = quote[c].terms.price * n
                    /\ ents'[s][Len(ents'[s])].allowance = quote[c].terms.allowance
              /\ \A at \in Instants : RenewBillingSubscription(op, c, n, at) =>
                    LET e == ents'[quote[c].sub][Len(ents'[quote[c].sub])] IN
                    /\ balance[ClientUser[c]] - balance'[ClientUser[c]] = quote[c].terms.price * n
                    /\ e.allowance = quote[c].terms.allowance
                    /\ e.start = quote[c].expires
      BY Zenon
    <2>1. ASSUME NEW s \in Subs, NEW at \in Instants, PurchaseBillingPlan(op, c, s, n, at)
          PROVE  /\ balance[ClientUser[c]] - balance'[ClientUser[c]] = quote[c].terms.price * n
                 /\ ents'[s][Len(ents'[s])].allowance = quote[c].terms.allowance
      BY Zenon, <2>1, PurchaseStep
    <2>2. ASSUME NEW at \in Instants, RenewBillingSubscription(op, c, n, at)
          PROVE  LET e == ents'[quote[c].sub][Len(ents'[quote[c].sub])] IN
                 /\ balance[ClientUser[c]] - balance'[ClientUser[c]] = quote[c].terms.price * n
                 /\ e.allowance = quote[c].terms.allowance
                 /\ e.start = quote[c].expires
      BY Zenon, <2>2, RenewStep
    <2> QED BY Zenon, <2>1, <2>2
  <1> HIDE DEF Paid
  <1>3. SubscriptionsSpec => [][Paid]_allSubVars
    BY <1>1, <1>2, SubscriptionsInitially, PTL DEF SubscriptionsSpec
  <1> QED BY <1>3 DEF Paid, PaidAsQuoted

=============================================================================
