------------------------------- MODULE Billing -------------------------------
(***************************************************************************)
(* Who pays for a request.  Admission binds the funding sources a user has *)
(* at that moment (group layers with their account pools, subscription     *)
(* periods, cash lots up to a cutoff); settlement, which may come much     *)
(* later, draws on what is left of exactly those sources.  Code:           *)
(* internal/store/billing.go (reserveBillingTx, settleBillingTx,           *)
(* releaseBillingTx), billing_funding.go, billing_layers.go and            *)
(* information.go for the cleanup of what nothing refers to any more.      *)
(*                                                                         *)
(* The module composes Subscriptions (with Cash) and Groups.  Admission,   *)
(* settlement, release and cleanup hold the global quota lock and the      *)
(* account, so each is one step; administrative writes hold the account or *)
(* the group.  Every model is in the scope of every source, and requests   *)
(* priced at zero by configuration (internal_zero) are left out.           *)
(***************************************************************************)
EXTENDS Subscriptions, Groups, SequencesExt

CONSTANTS
    Requests,       \* request IDs
    Upstreams,      \* upstream accounts
    Costs,          \* what a request may turn out to cost
    CashPriorities  \* priorities a user may give to the cash balance

NoRequest == [state |-> "none"]
NoUpstream == "none"            \* NULL in usage_requests.upstream_account_id
Personal == [group |-> NoGroup, period |-> 0, accounts |-> {}]
Unpaid == [layer |-> Personal, group |-> 0, sources |-> <<>>, cash |-> 0,
           lots |-> <<>>, uncovered |-> 0]

ASSUME BillingAssumption ==
    /\ Costs \subseteq Nat
    /\ CashPriorities \subseteq 1..100

VARIABLES
    request,    \* usage_requests and billing_reservations with their sources and layers
    pool,       \* upstream accounts a group offers and its members may use
    cash,       \* billing_accounts.cash_priority and cash_source_disabled
    erased      \* subscription periods removed by the cleanup

billingVars == <<request, pool, cash, erased>>
allVars == <<allSubVars, groupVars, billingVars>>

Is(r, state) == request[r].state = state
Reserved(r) == Is(r, "reserved")
Settled(r) == Is(r, "settled")

-----------------------------------------------------------------------------
(* Admission.                                                              *)

Positive(n) == IF n > 0 THEN n ELSE 0

\* What a group period can still pay for a member: the rest of the group's
\* limit and of the member's own (groupMemberRemainingTx).
GroupAvailable(p, u) ==
    LET rest == Positive(p.limit - p.used)
    IN  IF p.member = NoLimit THEN rest ELSE Least(rest, Positive(p.member - p.by[u]))

groupPeriodActive(x, at) ==
    ~x.archived /\ Cur(x).start <= at /\ at < Cur(x).end /\ After(x.expires, at)

\* The second half of userFundingGroupsTx: those that can pay, in the order of
\* the memberships.
FundingMembers(u) == SetToSortSeq(FundingGroups(u), LAMBDA g, h : GroupBefore(u, g, h))

UsableGroups(u, at) ==
    SelectSeq(FundingMembers(u),
              LAMBDA g : LET x == rollGroupTx(group[g], at)
                         IN  groupPeriodActive(x, at) /\ GroupAvailable(Cur(x), u) > 0)

Before(a, b) ==
    \/ a.priority < b.priority
    \/ /\ a.priority = b.priority
       /\ \/ a.type = "subscription" /\ b.type = "cash"
          \/ a.type = b.type /\ a.days > b.days
          \/ a.type = b.type /\ a.days = b.days /\ a.remaining > b.remaining

\* The personal sources in the order in which they will be charged.
snapshotBillingFundingTx(u, at) ==
    LET rolled(s) == RolledSub(s, at)
        period(s) == RolledPeriods(s, at)[rolled(s).current]
        usable == {s \in SubsOf(u) : /\ rolled(s).enabled /\ rolled(s).charge
                                     /\ period(s).open /\ period(s).remaining > 0
                                     /\ period(s).start <= at /\ period(s).end > at}
        subscriptions ==
            {[type |-> "subscription", sub |-> s, period |-> rolled(s).current, cutoff |-> 0,
              priority |-> rolled(s).priority, days |-> rolled(s).days,
              remaining |-> period(s).remaining] : s \in usable}
        balanceSource ==
            IF ~cash[u].disabled /\ balance[u] > 0 /\ nextLot[u] > 1
            THEN {[type |-> "cash", sub |-> "none", period |-> 0, cutoff |-> nextLot[u] - 1,
                   priority |-> cash[u].priority, days |-> 0, remaining |-> balance[u]]}
            ELSE {}
    IN  SetToSortSeq(subscriptions \cup balanceSource, Before)

\* One layer per usable group whose pool is not empty, and the personal layer
\* last when there are personal sources.
fundingLayersTx(u, at, personal) ==
    LET layer(g) == [group |-> g, period |-> Len(rollGroupTx(group[g], at).periods), accounts |-> pool[g]]
        offered == SelectSeq(UsableGroups(u, at), LAMBDA g : pool[g] # {})
    IN  [i \in DOMAIN offered |-> layer(offered[i])] \o (IF personal THEN <<Personal>> ELSE <<>>)

\* reserveBillingTx.  Without a source or a layer the request is refused.
ReserveRequest(r, u, at) ==
    LET sources == snapshotBillingFundingTx(u, at)
        layers == fundingLayersTx(u, at, sources # <<>>)
    IN  /\ request[r] = NoRequest
        /\ FundingRollSucceeds(u, at)
        /\ rollBillingSubscriptionsTx(u, at)
        /\ layers # <<>>
        /\ group' = FundingRolled(u, at)
        /\ request' = [request EXCEPT ![r] =
                         [state |-> "reserved", usage |-> "in_progress", user |-> u, sources |-> sources,
                          layers |-> layers, account |-> NoUpstream, cost |-> 0, paid |-> Unpaid]]
        /\ UNCHANGED <<cashVars, now, plan, ents, config, quote, membership, mirror, clearing, claimed,
                       pool, cash, erased>>

\* The request ends: the usage row gets the serving account and the tokens,
\* here already priced with the admission-time snapshot.
CompleteRequest(r, account, cost) ==
    /\ Reserved(r) /\ request[r].usage = "in_progress"
    /\ request' = [request EXCEPT ![r].usage = "terminal", ![r].account = account, ![r].cost = cost]
    /\ UNCHANGED <<allSubVars, groupVars, pool, cash, erased>>

\* ReleaseRequest, only while the usage row is in progress.
ReleaseRequest(r) ==
    /\ Reserved(r) /\ request[r].usage = "in_progress"
    /\ request' = [request EXCEPT ![r].usage = "terminal", ![r].state = "released"]
    /\ UNCHANGED <<allSubVars, groupVars, pool, cash, erased>>

-----------------------------------------------------------------------------
(* Settlement.                                                             *)

\* The layers that may pay for the serving account; when no layer contains it,
\* the first layer.
settlementLayerCandidates(q) ==
    LET fits(l) == q.account # NoUpstream /\ (l = Personal \/ q.account \in l.accounts)
        fitting == SelectSeq(q.layers, fits)
    IN  IF fitting # <<>> THEN fitting ELSE <<q.layers[1]>>

BindFirstFunded(q) ==
    LET groups == SelectSeq(q.layers, LAMBDA l : l # Personal)
        funded == SelectSeq(groups, LAMBDA l : GroupAvailable(group[l.group].periods[l.period], q.user) > 0)
    IN  IF funded # <<>> THEN funded[1] ELSE IF groups # <<>> THEN groups[1] ELSE Personal

\* The first candidate group that still has funds for the member, else the
\* first candidate group, else the personal layer.
bindSettlementLayerTx(q) ==
    LET groups == SelectSeq(settlementLayerCandidates(q), LAMBDA l : l # Personal)
        funded == SelectSeq(groups, LAMBDA l : GroupAvailable(group[l.group].periods[l.period], q.user) > 0)
    IN  IF funded # <<>> THEN funded[1] ELSE IF groups # <<>> THEN groups[1] ELSE Personal

\* Lots credited after the admission are out of reach.
CashCutoff(u, src) == src.cutoff

UpTo(u, cutoff) == {i \in DOMAIN lots[u] : i <= cutoff}

\* What is left of a bound source.
Available(q, k) ==
    LET src == q.sources[k]
    IN  IF src.type = "cash" THEN LotsTotal(lots[q.user], UpTo(q.user, CashCutoff(q.user, src)))
        ELSE periods[src.sub][src.period].remaining

AvailableBefore(q, k) == SumFunctionOnSet([j \in DOMAIN q.sources |-> Available(q, j)], 1..(k - 1))

TakenLastFirst(q, need, k) ==
    Least(Available(q, k),
          Positive(need - SumFunctionOnSet([j \in DOMAIN q.sources |-> Available(q, j)],
                                           (k + 1)..Len(q.sources))))

\* The loop over the sources: each pays what the earlier ones left open.
Taken(q, need, k) == Least(Available(q, k), Positive(need - AvailableBefore(q, k)))

Sum(f) == SumFunctionOnSet(f, DOMAIN f)

CashSource(q) == {k \in DOMAIN q.sources : q.sources[k].type = "cash"}

\* What each lot pays when the cash source pays `needed'.
FromLots(q, needed) ==
    [i \in DOMAIN lots[q.user] |->
        LET k == CHOOSE j \in CashSource(q) : TRUE
        IN  IF CashSource(q) = {} THEN 0
            ELSE Deduction(lots[q.user], CashCutoff(q.user, q.sources[k]), needed, i)]

\* The amounts of one settlement, as billing_charge_allocations keeps them.
Payment(q) ==
    LET layer == bindSettlementLayerTx(q)
        fromGroup == IF layer = Personal THEN 0
                     ELSE Least(q.cost, GroupAvailable(group[layer.group].periods[layer.period], q.user))
        need == q.cost - fromGroup
        taken == [k \in DOMAIN q.sources |-> Taken(q, need, k)]
        cashTaken == SumFunctionOnSet(taken, CashSource(q))
    IN  [layer |-> layer, group |-> fromGroup, sources |-> taken, cash |-> cashTaken,
         lots |-> FromLots(q, cashTaken), uncovered |-> need - Sum(taken)]

\* The loop reads every source it reaches; a missing period fails it.
SourcesPresent(q) ==
    \A k \in DOMAIN q.sources :
        k \notin CashSource(q) /\ q.cost - Payment(q).group > AvailableBefore(q, k)
            => <<q.sources[k].sub, q.sources[k].period>> \notin erased

CurrentPeriodsCharged(q, paid) ==
    LET from(s, i) == Sum([k \in DOMAIN q.sources |->
                             IF q.sources[k].sub = s /\ sub[s].current = i THEN paid.sources[k] ELSE 0])
    IN  [s \in Subs |-> [i \in DOMAIN periods[s] |-> [periods[s][i] EXCEPT !.remaining = @ - from(s, i)]]]

PeriodsCharged(q, paid) ==
    LET from(s, i) == Sum([k \in DOMAIN q.sources |->
                             IF q.sources[k].sub = s /\ q.sources[k].period = i THEN paid.sources[k] ELSE 0])
    IN  [s \in Subs |-> [i \in DOMAIN periods[s] |-> [periods[s][i] EXCEPT !.remaining = @ - from(s, i)]]]

LotsCharged(q, paid) ==
    [lots EXCEPT ![q.user] = [i \in DOMAIN @ |-> [@[i] EXCEPT !.remaining = @ - paid.lots[i]]]]

GroupCharged(q, paid) ==
    LET l == paid.layer
    IN  IF l = Personal THEN group
        ELSE [group EXCEPT ![l.group].periods[l.period].used = @ + paid.group,
                           ![l.group].periods[l.period].by[q.user] = @ + paid.group]

\* settleBillingTx.  A settled request is left alone, so it is no step; the
\* debit fails when the balance is smaller than the cash taken from lots.
SettleBilling(r) ==
    LET q == request[r]
        paid == Payment(q)
    IN  /\ Reserved(r) /\ q.usage = "terminal"
        /\ SourcesPresent(q)
        /\ balance[q.user] >= paid.cash
        /\ group' = GroupCharged(q, paid)
        /\ periods' = PeriodsCharged(q, paid)
        /\ lots' = LotsCharged(q, paid)
        /\ balance' = [balance EXCEPT ![q.user] = @ - paid.cash]
        /\ request' = [request EXCEPT ![r].state = "settled", ![r].paid = paid]
        /\ UNCHANGED <<nextLot, rate, operation, tombstone, ledger, answered, effects,
                       now, plan, sub, ents, config, quote, membership, mirror, clearing, claimed,
                       pool, cash, erased>>

-----------------------------------------------------------------------------
(* Cleanup.                                                                *)

\* Requests that have ended and lots and periods that only they refer to.
\* The cutoff instant and the LIMIT may leave out any of them.
Finished == {r \in Requests : Settled(r) \/ Is(r, "released")}

Kept(rs) == {r \in Requests \ rs : request[r] # NoRequest /\ ~Is(r, "cleaned")}

BoundLot(r, u, i) ==
    /\ Reserved(r) /\ request[r].user = u
    /\ \E k \in DOMAIN request[r].sources : request[r].sources[k].cutoff >= i

PaidByLot(r, u, i) ==
    request[r].user = u /\ i \in DOMAIN request[r].paid.lots /\ request[r].paid.lots[i] > 0

InfoLots(rs) ==
    {<<u, i>> \in CandidateLots(Len(ledger)) :
        \A r \in Kept(rs) : ~BoundLot(r, u, i) /\ ~PaidByLot(r, u, i)}

InfoPeriodsUnbound(rs) ==
    {<<s, i>> \in UNION {{s} \X DOMAIN periods[s] : s \in Subs} :
        /\ ~periods[s][i].open /\ periods[s][i].end < now
        /\ ~(sub[s].enabled /\ sub[s].current = i)}

InfoPeriods(rs) ==
    {<<s, i>> \in UNION {{s} \X DOMAIN periods[s] : s \in Subs} :
        /\ ~periods[s][i].open /\ periods[s][i].end < now
        /\ ~(sub[s].enabled /\ sub[s].current = i)
        /\ \A r \in Kept(rs) : \A k \in DOMAIN request[r].sources :
              <<s, i>> # <<request[r].sources[k].sub, request[r].sources[k].period>>}

\* One batch; what becomes of operations and their entries is in module Cash.
CleanUp(rs, gone, ps) ==
    /\ rs # {} \/ gone # {} \/ ~(ps \subseteq erased)
    /\ deleteInformationCandidates(gone, {})
    /\ request' = [r \in Requests |-> IF r \in rs THEN [request[r] EXCEPT !.state = "cleaned"] ELSE request[r]]
    /\ erased' = erased \cup ps
    /\ UNCHANGED <<subVars, groupVars, pool, cash>>

-----------------------------------------------------------------------------
(* The writes of the other modules, and the ones only billing cares about. *)

SetBillingCashPreferences(op, u, priority, disabled) ==
    LET req == <<"cash_preferences", u, priority, disabled>> IN
    /\ claimBillingOperationTx(op, req) = "created"
    /\ cash' = [cash EXCEPT ![u] = [priority |-> priority, disabled |-> disabled]]
    /\ finishBillingOperationTx(op, req, u, 0, balance[u])
    /\ UNCHANGED <<balance, nextLot, lots, rate, subVars, groupVars, request, pool, erased>>

SetGroupUpstreamAccounts(g, accounts) ==
    /\ Claim
    /\ Present(g) /\ ~group[g].archived
    /\ pool' = [pool EXCEPT ![g] = accounts]
    /\ UNCHANGED <<allSubVars, group, membership, mirror, clearing, request, cash, erased>>

MoneyWrite(op) ==
    /\ \/ \E u \in Users, a \in Amounts : RechargeUser(op, u, a)
       \/ \E u \in Users, a \in Amounts : AdjustUserBalance(op, u, -a)
    /\ UNCHANGED <<subVars, groupVars, billingVars>>

OwnerWrite(op) ==
    /\ \/ \E s \in Subs, t \in Terms, n \in PeriodCounts, at \in Instants :
             Exists(s) /\ PutSubscription(op, s, sub[s].user, t, n, at)
       \/ \E s \in Subs, at \in Instants : DeleteSubscription(op, s, at)
       \/ \E s \in Subs, n \in SubPriorities, on \in BOOLEAN, at \in Instants :
             SetBillingSubscriptionPreferences(op, s, n, on, at)
    /\ UNCHANGED <<groupVars, billingVars>>

LimitWrite ==
    /\ \E g \in Groups, at \in Instants :
          \/ \E t \in GroupTerms : PutGroup(g, t, NoStart, at)
          \/ \E u \in Users : RemoveMembers(g, {u}, at)
    /\ UNCHANGED <<cashVars, plan, sub, ents, periods, config, quote, billingVars>>

BillingTick == Advance /\ UNCHANGED <<cashVars, plan, sub, ents, periods, config, quote, groupVars, billingVars>>

BillingNext ==
    \/ \E r \in Requests :
          \/ \E u \in Users, at \in Instants : ReserveRequest(r, u, at)
          \/ \E account \in Upstreams \cup {NoUpstream}, cost \in Costs : CompleteRequest(r, account, cost)
          \/ ReleaseRequest(r)
          \/ SettleBilling(r)
    \/ \E op \in Ops :
          \/ MoneyWrite(op) \/ OwnerWrite(op)
          \/ \E u \in Users, n \in CashPriorities, off \in BOOLEAN :
                SetBillingCashPreferences(op, u, n, off)
    \/ LimitWrite
    \/ \E g \in Groups, accounts \in SUBSET Upstreams : SetGroupUpstreamAccounts(g, accounts)
    \/ \E rs \in SUBSET Finished :
          \E gone \in SUBSET InfoLots(rs), ps \in SUBSET InfoPeriods(rs) : CleanUp(rs, gone, ps)
    \/ BillingTick

-----------------------------------------------------------------------------
(* Properties.                                                             *)

Paid(r) == IF request[r] = NoRequest THEN Unpaid ELSE request[r].paid

PaidFrom(r, s, i) ==
    Sum([k \in DOMAIN Paid(r).sources |->
            IF request[r].sources[k].sub = s /\ request[r].sources[k].period = i THEN Paid(r).sources[k] ELSE 0])

PaidFromGroup(r, g, i) ==
    IF Paid(r).layer.group = g /\ Paid(r).layer.period = i THEN Paid(r).group ELSE 0

\* The allocations of the settled requests explain every counter: what a
\* subscription period has lost, what a group period has used in all and for
\* each member; and a settled cost is the sum of its parts.  Group edits, rolls,
\* replaced subscriptions and the cleanup all happen in between.  The lots of an
\* account add up to its balance all the while (LotsReconcile).
BooksReconcile ==
    /\ LotsReconcile
    /\ \A s \in Subs : \A i \in DOMAIN periods[s] :
          periods[s][i].allowance - periods[s][i].remaining = Sum([r \in Requests |-> PaidFrom(r, s, i)])
    /\ \A g \in Groups : \A i \in DOMAIN group[g].periods :
          LET p == group[g].periods[i] IN
          /\ p.used = Sum([r \in Requests |-> PaidFromGroup(r, g, i)])
          /\ p.used = Sum(p.by)
    /\ \A r \in Requests : Settled(r) =>
          request[r].cost = Paid(r).group + Sum(Paid(r).sources) + Paid(r).uncovered

\* A settlement pays as the admission recorded, however long ago that was and
\* whatever other requests took from the same sources in between: it charges a
\* source only when the ones ordered before it are empty, leaves a rest
\* uncovered only when all of them and what the paying group may give to the
\* member are used up, and takes nothing from money credited after the
\* admission (cash_lot_cutoff).
SettlesAsAdmitted ==
    [][\A r \in Requests : Reserved(r) /\ request'[r].state = "settled" =>
          LET q == request[r]
              paid == request'[r].paid
              empty(k) == Available(q, k)' = 0
          IN  /\ \A i \in DOMAIN lots[q.user] :
                    lots'[q.user][i] # lots[q.user][i] =>
                        \E k \in CashSource(q) : i <= q.sources[k].cutoff
              /\ \A j, k \in DOMAIN q.sources : j < k /\ paid.sources[k] > 0 => empty(j)
              /\ paid.uncovered > 0 =>
                    /\ \A k \in DOMAIN q.sources : empty(k)
                    /\ paid.layer # Personal =>
                          GroupAvailable(group'[paid.layer.group].periods[paid.layer.period], q.user) = 0]_allVars

\* No settlement takes a group period over its limit or a member over the
\* member limit as they stand at that moment, although several requests were
\* admitted against the same rest and the owner may have lowered the limits.
GroupNeverOverrun ==
    \A g \in Groups : \A i \in DOMAIN group[g].periods :
        LET p == group[g].periods[i]
            q == group'[g].periods[i]
        IN  /\ q.used > p.used => q.used <= q.limit
            /\ \A u \in Users : q.by[u] > p.by[u] /\ q.member # NoLimit => q.by[u] <= q.member

\* A group pays only for an account of the pool it offered at admission, except
\* when no layer of the request contains the account that served it.
GroupPaysForItsPool ==
    \A r \in Requests : Settled(r) /\ Paid(r).group > 0 =>
        \/ request[r].account \in Paid(r).layer.accounts
        \/ \A k \in DOMAIN request[r].layers :
              /\ request[r].account \notin request[r].layers[k].accounts
              /\ request[r].layers[k] = Personal => request[r].account = NoUpstream

\* A group pays for what it offered and within its limits: GroupPaysForItsPool
\* after every step and GroupNeverOverrun by it.
GroupPaysAsOffered == [][GroupPaysForItsPool' /\ GroupNeverOverrun]_allVars

\* A request that has ended can always be settled: the periods it was bound to
\* are still there and the balance covers what its lots hold.  Otherwise the
\* hourly retry would fail on it for ever.
SettlementPossible ==
    \A r \in Requests : Reserved(r) /\ request[r].usage = "terminal" =>
        SourcesPresent(request[r]) /\ balance[request[r].user] >= Payment(request[r]).cash

\* Personal sources are charged in the order day, week, month, cash.
DayWeekMonthCash ==
    \A r \in Requests : Settled(r) =>
        \A j, k \in DOMAIN request[r].sources : j < k =>
            LET a == request[r].sources[j]
                b == request[r].sources[k]
            IN  b.type = "cash" \/ (a.type = "subscription" /\ a.days <= b.days)

=============================================================================
