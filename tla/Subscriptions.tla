---------------------------- MODULE Subscriptions ----------------------------
(***************************************************************************)
(* Subscriptions: the plan catalogue, the entitlements a subscription was  *)
(* granted (purchased segments of a fixed number of periods), and the      *)
(* period that carries the allowance at the moment.  Code:                 *)
(* internal/store/billing.go, billing_plans.go, billing_entitlements.go    *)
(* and billing_preferences.go.                                             *)
(*                                                                         *)
(* Every action is one transaction under the row lock of the billing       *)
(* account; `at' is the instant it works with (module Clock).  A day has   *)
(* DayTicks instants.                                                      *)
(***************************************************************************)
EXTENDS Cash, Clock

CONSTANTS
    Subs,           \* subscription IDs
    Plans,          \* plan IDs
    Terms,          \* what a plan may offer: [price, days, allowance, min]
    PeriodCounts,   \* period counts an owner or a buyer may ask for, 0 = no end
    Clients,        \* open pages of users, each showing what it last read
    ClientUser,     \* the user of a page
    SubPriorities,  \* priorities a user may give a subscription
    DayTicks        \* instants in a day

NoSub == [user |-> "none"]
NoPlan == "no plan" \* NULL in plan_id
NoPlanRow == [version |-> 0]
NoQuote == [sub |-> "none", plan |-> NoPlan]

ASSUME SubscriptionsAssumption ==
    /\ Terms \subseteq [price : Nat, days : Nat \ {0}, allowance : Nat \ {0}, min : Nat \ {0}]
    /\ PeriodCounts \subseteq Nat
    /\ ClientUser \in [Clients -> Users]
    /\ SubPriorities \subseteq 1..100
    /\ DayTicks \in Nat \ {0}
    /\ NoPlan \notin Plans /\ NoQuote.sub \notin Subs

VARIABLES
    plan,       \* billing_plans
    sub,        \* billing_subscriptions
    ents,       \* billing_subscription_entitlements of a subscription, oldest first
    periods,    \* billing_subscription_periods of a subscription, oldest first
    config,     \* billing_subscription_config_versions (a sequence)
    quote       \* what a page shows: the plan, its version, the subscription

subVars == <<now, plan, sub, ents, periods, config, quote>>
allSubVars == <<cashVars, subVars>>

-----------------------------------------------------------------------------
(* Rolling: closing an elapsed period and opening the one that contains at. *)

Exists(s) == sub[s] # NoSub
Current(s) == periods[s][sub[s].current]
SubsOf(u) == {s \in Subs : Exists(s) /\ sub[s].user = u}

billingExpiryDays(start, days, count) == start + days * count * DayTicks

\* The lock-and-select of rollBillingEntitlementsTx.
Stale(s, at) == sub[s].enabled /\ Current(s).end <= at

Ending(s, at) == Stale(s, at) /\ ~After(sub[s].expires, at)

CoveringAfterStart(s, at) ==
    {i \in DOMAIN ents[s] : ents[s][i].live /\ ents[s][i].start < at /\ After(ents[s][i].end, at)}

\* The entitlements that contain an instant, and the one the query picks.
Covering(s, at) ==
    {i \in DOMAIN ents[s] : ents[s][i].live /\ ents[s][i].start <= at /\ After(ents[s][i].end, at)}

SegmentAt(s, at) ==
    CHOOSE i \in Covering(s, at) : \A j \in Covering(s, at) : ents[s][j].start <= ents[s][i].start

PeriodFromInstant(s, at) ==
    LET i == SegmentAt(s, at)
        e == ents[s][i]
    IN  [start |-> at, end |-> billingExpiryDays(at, e.days, 1), allowance |-> e.allowance,
         remaining |-> e.allowance, number |-> sub[s].number + 1, ent |-> i, open |-> TRUE]

\* The period of the segment that contains at, computed without a loop.
PeriodAt(s, at) ==
    LET i == SegmentAt(s, at)
        e == ents[s][i]
        elapsed == (at - e.start) \div (e.days * DayTicks)
        start == billingExpiryDays(e.start, e.days, elapsed)
    IN  [start |-> start, end |-> billingExpiryDays(start, e.days, 1), allowance |-> e.allowance,
         remaining |-> e.allowance, number |-> e.first + elapsed, ent |-> i, open |-> TRUE]

Closed(s) == [periods[s] EXCEPT ![sub[s].current].open = FALSE]

\* Rolling fails, and with it the whole transaction, when a running
\* subscription has no entitlement for the instant.
RollSucceeds(u, at) ==
    \A s \in SubsOf(u) : Stale(s, at) /\ ~Ending(s, at) => Covering(s, at) # {}

RolledPeriods(s, at) ==
    IF ~Stale(s, at) THEN periods[s]
    ELSE IF Ending(s, at) THEN Closed(s)
    ELSE Append(Closed(s), PeriodAt(s, at))

RolledSub(s, at) ==
    IF ~Stale(s, at) THEN sub[s]
    ELSE IF Ending(s, at) THEN [sub[s] EXCEPT !.enabled = FALSE]
    ELSE [sub[s] EXCEPT !.current = Len(periods[s]) + 1, !.number = PeriodAt(s, at).number,
                        !.days = ents[s][SegmentAt(s, at)].days,
                        !.allowance = PeriodAt(s, at).allowance]

rollBillingSubscriptionsTx(u, at) ==
    /\ RollSucceeds(u, at)
    /\ sub' = [s \in Subs |-> IF s \in SubsOf(u) THEN RolledSub(s, at) ELSE sub[s]]
    /\ periods' = [s \in Subs |-> IF s \in SubsOf(u) THEN RolledPeriods(s, at) ELSE periods[s]]

-----------------------------------------------------------------------------
(* Granting.                                                               *)

\* insertBillingEntitlementTx.
Entitlement(start, days, allowance, count, first) ==
    [start |-> start, days |-> days, allowance |-> allowance, count |-> count, first |-> first,
     end |-> IF count = 0 THEN Never ELSE billingExpiryDays(start, days, count), live |-> TRUE]

\* reopenBillingSubscriptionTx: a new or an existing subscription starts again
\* at `at', the entitlements it had are superseded, its open period is closed.
reopenBillingSubscriptionTx(s, u, days, allowance, count, at, p) ==
    LET segment == Entitlement(at, days, allowance, count, 1)
        opened == [start |-> at, end |-> billingExpiryDays(at, days, 1), allowance |-> allowance,
                   remaining |-> allowance, number |-> 1, ent |-> Len(ents[s]) + 1, open |-> TRUE]
    IN  /\ Exists(s) => sub[s].user = u /\ at >= Current(s).start
        /\ ents' = [ents EXCEPT ![s] = Append([i \in DOMAIN @ |-> [@[i] EXCEPT !.live = FALSE]], segment)]
        /\ periods' = [periods EXCEPT ![s] = Append(IF Exists(s) THEN Closed(s) ELSE @, opened)]
        /\ config' = config + 1
        /\ sub' = [sub EXCEPT ![s] =
                     [user |-> u, enabled |-> TRUE, days |-> days, allowance |-> allowance,
                      count |-> count, number |-> 1, expires |-> segment.end,
                      current |-> Len(periods[s]) + 1, plan |-> p, config |-> config + 1,
                      charge |-> IF Exists(s) THEN sub[s].charge ELSE TRUE,
                      priority |-> IF Exists(s) THEN sub[s].priority ELSE 1]]

\* An owner grants or replaces a subscription.
PutSubscription(op, s, u, t, count, at) ==
    LET request == <<"subscription_set", s, t.days, count>> IN
    /\ claimBillingOperationTx(op, request) = "created"
    /\ reopenBillingSubscriptionTx(s, u, t.days, t.allowance, count, at, NoPlan)
    /\ finishBillingOperationTx(op, request, u, t.allowance, balance[u])
    /\ UNCHANGED <<balance, nextLot, lots, rate, now, plan, quote>>

\* An owner disables a subscription.  Closing the current period must hit a row
\* (requireAffected): an enabled subscription has an open one that began by at.
DeleteSubscription(op, s, at) ==
    LET request == <<"subscription_disable", s>>
        u == sub[s].user
    IN  /\ Exists(s)
        /\ claimBillingOperationTx(op, request) = "created"
        /\ sub[s].enabled => Current(s).open /\ at >= Current(s).start
        /\ periods' = IF sub[s].enabled THEN [periods EXCEPT ![s] = Closed(s)] ELSE periods
        /\ sub' = [sub EXCEPT ![s].enabled = FALSE, ![s].plan = NoPlan, ![s].config = config + 1]
        /\ config' = config + 1
        /\ finishBillingOperationTx(op, request, u, sub[s].allowance, balance[u])
        /\ UNCHANGED <<balance, nextLot, lots, rate, now, plan, ents, quote>>

\* The user chooses the place of a subscription among the funding sources and
\* turns charging to it on or off.
SetBillingSubscriptionPreferences(op, s, priority, charge, at) ==
    LET request == <<"subscription_preferences", s, priority, charge>>
        u == sub[s].user
    IN  /\ Exists(s)
        /\ claimBillingOperationTx(op, request) = "created"
        /\ RollSucceeds(u, at)
        /\ RolledSub(s, at).enabled
        /\ sub' = [r \in Subs |->
                     IF r = s THEN [RolledSub(s, at) EXCEPT !.priority = priority, !.charge = charge]
                     ELSE IF r \in SubsOf(u) THEN RolledSub(r, at) ELSE sub[r]]
        /\ periods' = [r \in Subs |-> IF r \in SubsOf(u) THEN RolledPeriods(r, at) ELSE periods[r]]
        /\ finishBillingOperationTx(op, request, u, 0, balance[u])
        /\ UNCHANGED <<balance, nextLot, lots, rate, now, plan, ents, config, quote>>

-----------------------------------------------------------------------------
(* The catalogue, and buying from it.                                      *)

CreateBillingPlan(op, p, t) ==
    LET request == <<"plan_create", p>> IN
    /\ plan[p] = NoPlanRow
    /\ claimBillingOperationTx(op, request) = "created"
    /\ plan' = [plan EXCEPT ![p] = [terms |-> t, version |-> 1, active |-> TRUE, deleted |-> FALSE]]
    /\ finishBillingOperationTx(op, request, "none", 0, 0)
    /\ UNCHANGED <<balance, nextLot, lots, rate, now, sub, ents, periods, config, quote>>

UpdateWithoutVersion(op, p, t, active) ==
    LET request == <<"plan_update", p>> IN
    /\ plan[p] # NoPlanRow /\ ~plan[p].deleted
    /\ claimBillingOperationTx(op, request) = "created"
    /\ plan' = [plan EXCEPT ![p].terms = t, ![p].active = active]
    /\ finishBillingOperationTx(op, request, "none", 0, 0)
    /\ UNCHANGED <<balance, nextLot, lots, rate, now, sub, ents, periods, config, quote>>

\* The version grows only when something differs.  An edit based on an older
\* version is refused (ErrBillingPlanChanged), so the guard has none.
UpdateBillingPlan(op, p, t, active) ==
    LET request == <<"plan_update", p>>
        changed == plan[p].terms # t \/ plan[p].active # active
    IN  /\ plan[p] # NoPlanRow /\ ~plan[p].deleted
        /\ claimBillingOperationTx(op, request) = "created"
        /\ plan' = [plan EXCEPT ![p].terms = t, ![p].active = active,
                                ![p].version = IF changed THEN @ + 1 ELSE @]
        /\ finishBillingOperationTx(op, request, "none", 0, 0)
        /\ UNCHANGED <<balance, nextLot, lots, rate, now, sub, ents, periods, config, quote>>

\* The subscriptions of a deleted plan keep running and can no longer renew.
DeleteBillingPlan(op, p) ==
    LET request == <<"plan_delete", p>>
        detached == {s \in Subs : Exists(s) /\ sub[s].plan = p}
    IN  /\ plan[p] # NoPlanRow /\ ~plan[p].deleted
        /\ claimBillingOperationTx(op, request) = "created"
        /\ plan' = [plan EXCEPT ![p].active = FALSE, ![p].deleted = TRUE, ![p].version = @ + 1]
        /\ sub' = [s \in Subs |-> IF s \in detached
                                  THEN [sub[s] EXCEPT !.plan = NoPlan, !.config = config + 1]
                                  ELSE sub[s]]
        /\ config' = IF detached = {} THEN config ELSE config + 1
        /\ finishBillingOperationTx(op, request, "none", 0, 0)
        /\ UNCHANGED <<balance, nextLot, lots, rate, now, ents, periods, quote>>

\* debitBillingPlanCashTx.
Debit(u, total) ==
    /\ balance[u] >= total
    /\ LotsTotal(lots[u], DOMAIN lots[u]) >= total
    /\ lots' = [lots EXCEPT ![u] = DrainLots(lots[u], nextLot[u], total)]
    /\ balance' = [balance EXCEPT ![u] = @ - total]
    /\ UNCHANGED <<nextLot, rate>>

\* transactBillingPlan, first form: the page sends the plan and version it shows.
PurchaseBillingPlan(op, c, s, count, at) ==
    LET u == ClientUser[c]
        p == quote[c].plan
        t == plan[p].terms
        request == <<"plan_purchase", p, quote[c].version, count>>
    IN  /\ p # NoPlan /\ ~Exists(s)
        /\ claimBillingOperationTx(op, request) = "created"
        /\ ~plan[p].deleted /\ plan[p].active /\ plan[p].version = quote[c].version
        /\ count >= t.min
        /\ reopenBillingSubscriptionTx(s, u, t.days, t.allowance, count, at, p)
        /\ Debit(u, t.price * count)
        /\ finishBillingOperationTx(op, request, u, t.price * count, balance[u] - t.price * count)
        /\ UNCHANGED <<now, plan, quote>>

\* transactBillingPlan, second form: the page also sends the configuration
\* version of the subscription it shows.  The subscription is rolled first and
\* must still run; the new segment begins where the last one ends.
RenewBillingSubscription(op, c, count, at) ==
    LET u == ClientUser[c]
        s == quote[c].sub
        p == sub[s].plan
        t == plan[p].terms
        request == <<"plan_renewal", s, quote[c].version, quote[c].config, count>>
        rolled == RolledSub(s, at)
        segment == Entitlement(rolled.expires, t.days, t.allowance, count, rolled.count + 1)
    IN  /\ s \in Subs /\ Exists(s) /\ sub[s].user = u /\ p # NoPlan
        /\ claimBillingOperationTx(op, request) = "created"
        /\ ~plan[p].deleted /\ plan[p].version = quote[c].version
        /\ count >= t.min
        /\ sub[s].config = quote[c].config
        /\ RollSucceeds(u, at)
        /\ rolled.enabled /\ rolled.expires # Never /\ rolled.expires > at
        /\ ents' = [ents EXCEPT ![s] = Append(@, segment)]
        /\ sub' = [r \in Subs |->
                     IF r = s THEN [rolled EXCEPT !.count = @ + count, !.expires = segment.end,
                                                  !.config = config + 1]
                     ELSE IF r \in SubsOf(u) THEN RolledSub(r, at) ELSE sub[r]]
        /\ periods' = [r \in Subs |-> IF r \in SubsOf(u) THEN RolledPeriods(r, at) ELSE periods[r]]
        /\ config' = config + 1
        /\ Debit(u, t.price * count)
        /\ finishBillingOperationTx(op, request, u, t.price * count, balance[u] - t.price * count)
        /\ UNCHANGED <<now, plan, quote>>

-----------------------------------------------------------------------------
(* Reading, the hourly sweep, and the clock.                               *)

\* A page reads its account, which rolls the subscriptions, and shows one of
\* them with the plan it can be renewed with.
GetBillingState(c, s) ==
    LET u == ClientUser[c] IN
    /\ rollBillingSubscriptionsTx(u, now)
    /\ s \in SubsOf(u)
    /\ quote' = [quote EXCEPT ![c] =
                   IF sub[s].plan = NoPlan THEN NoQuote
                   ELSE [sub |-> s, plan |-> sub[s].plan, version |-> plan[sub[s].plan].version,
                         config |-> sub[s].config, terms |-> plan[sub[s].plan].terms,
                         expires |-> sub[s].expires]]
    /\ UNCHANGED <<cashVars, now, plan, ents, config>>

\* reserveBillingTx rolls with the instant the request arrived at.
RollForAdmission(u, at) ==
    /\ rollBillingSubscriptionsTx(u, at)
    /\ UNCHANGED <<cashVars, now, plan, ents, config, quote>>

\* A page lists the catalogue and shows one plan that is on sale.
ListBillingPlans(c, p) ==
    /\ plan[p] # NoPlanRow /\ plan[p].active /\ ~plan[p].deleted
    /\ quote' = [quote EXCEPT ![c] =
                   [sub |-> "none", plan |-> p, version |-> plan[p].version, config |-> 0,
                    terms |-> plan[p].terms, expires |-> Never]]
    /\ UNCHANGED <<cashVars, now, plan, sub, ents, periods, config>>

ExpiredWithPlan(s, at) ==
    sub[s].enabled /\ sub[s].count > 0 /\ sub[s].expires <= at /\ sub[s].plan # NoPlan

\* expireBillingSubscriptionsTx for one user of the hourly sweep's list.
Expired(s, at) == sub[s].enabled /\ sub[s].count > 0 /\ sub[s].expires <= at

ExpireBillingSubscriptions(u, at) ==
    /\ \E s \in SubsOf(u) : Expired(s, at)
    /\ sub' = [s \in Subs |-> IF s \in SubsOf(u) /\ Expired(s, at)
                              THEN [sub[s] EXCEPT !.enabled = FALSE] ELSE sub[s]]
    /\ periods' = [s \in Subs |-> IF s \in SubsOf(u) /\ Expired(s, at) THEN Closed(s) ELSE periods[s]]
    /\ UNCHANGED <<cashVars, now, plan, ents, config, quote>>

Tick ==
    /\ Advance
    /\ UNCHANGED <<cashVars, plan, sub, ents, periods, config, quote>>

-----------------------------------------------------------------------------

SubscriptionsInit ==
    /\ CashInit
    /\ now = 0
    /\ plan = [p \in Plans |-> NoPlanRow]
    /\ sub = [s \in Subs |-> NoSub]
    /\ ents = [s \in Subs |-> <<>>]
    /\ periods = [s \in Subs |-> <<>>]
    /\ config = 0
    /\ quote = [c \in Clients |-> NoQuote]

SubscriptionWrite(op) ==
    \/ \E s \in Subs, u \in Users, t \in Terms, n \in PeriodCounts, at \in Instants :
          PutSubscription(op, s, u, t, n, at)
    \/ \E s \in Subs, at \in Instants : DeleteSubscription(op, s, at)
    \/ \E s \in Subs, n \in SubPriorities, on \in BOOLEAN, at \in Instants :
          SetBillingSubscriptionPreferences(op, s, n, on, at)
    \/ \E p \in Plans, t \in Terms : CreateBillingPlan(op, p, t)
    \/ \E p \in Plans, t \in Terms, active \in BOOLEAN : UpdateBillingPlan(op, p, t, active)
    \/ \E p \in Plans : DeleteBillingPlan(op, p)
    \/ \E c \in Clients, s \in Subs, n \in PeriodCounts \ {0}, at \in Instants :
          PurchaseBillingPlan(op, c, s, n, at)
    \/ \E c \in Clients, n \in PeriodCounts \ {0}, at \in Instants :
          RenewBillingSubscription(op, c, n, at)

SubscriptionRead ==
    \/ \E c \in Clients, s \in Subs : GetBillingState(c, s)
    \/ \E u \in Users, at \in Instants : RollForAdmission(u, at)
    \/ \E c \in Clients, p \in Plans : ListBillingPlans(c, p)
    \/ \E u \in Users, at \in Instants : ExpireBillingSubscriptions(u, at)

\* Money comes in, and a request that was already applied is sent again.
FundAccount(op) ==
    /\ \E u \in Users, a \in Amounts : RechargeUser(op, u, a)
    /\ UNCHANGED subVars

ResendWrite(op) ==
    /\ operation[op] # NoOperation
    /\ ReplayOperation(op, operation[op].request)
    /\ UNCHANGED subVars

SubscriptionsNext ==
    \/ \E op \in Ops : SubscriptionWrite(op) \/ FundAccount(op) \/ ResendWrite(op)
    \/ SubscriptionRead
    \/ Tick

SubscriptionsSpec == SubscriptionsInit /\ [][SubscriptionsNext]_allSubVars

\* The clock advances, and the hourly sweep visits every user it lists.
SubscriptionsFairness ==
    /\ WF_allSubVars(Tick)
    /\ \A u \in Users : WF_allSubVars(\E at \in Instants : ExpireBillingSubscriptions(u, at))

-----------------------------------------------------------------------------
(* Properties.                                                             *)

\* An enabled subscription has exactly one open period, its current one, and a
\* disabled subscription has none.  DeleteSubscription's requireAffected and
\* the funding query of an admission both rely on it.
OneOpenPeriod ==
    \A s \in Subs : {i \in DOMAIN periods[s] : periods[s][i].open} =
                    IF Exists(s) /\ sub[s].enabled THEN {sub[s].current} ELSE {}

\* The periods opened for an entitlement are distinct slots of its grid, one of
\* them open at a time, so a purchase of n periods never yields more than n
\* times its allowance however transactions with older instants interleave.
EntitlementNotExceeded ==
    /\ OneOpenPeriod
    /\ \A s \in Subs : \A i, j \in DOMAIN periods[s] :
           LET a == periods[s][i]
               e == ents[s][a.ent]
           IN  /\ a.start = billingExpiryDays(e.start, e.days, a.number - e.first)
               /\ a.number >= e.first
               /\ e.count > 0 => a.number < e.first + e.count
               /\ a.ent = periods[s][j].ent /\ a.number = periods[s][j].number => i = j

\* While a subscription runs, rolling at any later instant before its expiry
\* finds exactly one entitlement.  Otherwise every admission and every account
\* page of the user would fail.
RollFindsSegment ==
    \A s \in Subs : Exists(s) /\ sub[s].enabled =>
        \A at \in Current(s).start..Horizon :
            After(sub[s].expires, at) => \E i \in Covering(s, at) : Covering(s, at) = {i}

\* A purchase or a renewal charges the price the page showed, for the terms it
\* showed, and a renewal continues the expiry it showed: plan edits, renewals
\* from another page, replacement and disabling between reading and buying are
\* all refused by the two version checks.
PaidAsQuoted ==
    [][\A c \in Clients, op \in Ops, n \in PeriodCounts \ {0} :
          /\ \A s \in Subs, at \in Instants : PurchaseBillingPlan(op, c, s, n, at) =>
                /\ balance[ClientUser[c]] - balance'[ClientUser[c]] = quote[c].terms.price * n
                /\ ents'[s][Len(ents'[s])].allowance = quote[c].terms.allowance
          /\ \A at \in Instants : RenewBillingSubscription(op, c, n, at) =>
                LET e == ents'[quote[c].sub][Len(ents'[quote[c].sub])] IN
                /\ balance[ClientUser[c]] - balance'[ClientUser[c]] = quote[c].terms.price * n
                /\ e.allowance = quote[c].terms.allowance
                /\ e.start = quote[c].expires]_allSubVars

\* A subscription past its expiry is disabled sooner or later even when nobody
\* reads or uses the account again, unless it is extended.
ExpiredGetsDisabled ==
    \A s \in Subs :
        (Exists(s) /\ sub[s].enabled /\ ~After(sub[s].expires, now))
            ~> (Exists(s) => ~sub[s].enabled \/ After(sub[s].expires, now))

=============================================================================
