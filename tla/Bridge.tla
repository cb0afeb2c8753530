------------------------------- MODULE Bridge -------------------------------
(***************************************************************************)
(* The account pool of the Antigravity bridge (antigravity/accounts.go,    *)
(* server.go).  A call is given an account by a selection that asks the    *)
(* gateway twice without holding the pool's mutex; only one selection runs *)
(* at a time.  Calls of one conversation share a slot of an account.       *)
(* Failures put an account on cooldown and send the call to another one, a *)
(* refresh probes idle accounts, the owner enables or disables accounts.   *)
(***************************************************************************)
EXTENDS Clock, FiniteSets, Sequences, FiniteSetsExt

CONSTANTS
    BrAccounts, BrCalls,
    TalkOf,             \* the conversation of a call, or NoTalk
    DirectOf,           \* the account a smoke test names, or NoAccount
    LayersOf,           \* the groups' account pools of a call, in their order
    NoTalk, NoAccount,
    MaxLimit,           \* bound on the limits the gateway answers
    ProcessSlots,       \* calls in progress at a time (64)
    Cooldown,           \* a failed account rests this long (a minute)
    BridgeHorizon,      \* bound on the clock
    MaxToggles          \* bound on changes of an account's state

ASSUME BridgeAssumption == IsFiniteSet(BrCalls)

VARIABLES
    pool,               \* AccountManager.accounts
    toggles,            \* changes tried so far
    gateOf,             \* the selection that holds selectGate
    brCall              \* calls

bridgeVars == <<pool, toggles, gateOf, brCall>>

Talks == {TalkOf[c] : c \in BrCalls}
NoSelection == [call |-> "none", step |-> "none", layer |-> 1, offers |-> <<>>,
                limits |-> [a \in BrAccounts |-> 0], account |-> NoAccount]
Rested == [enabled |-> TRUE, ready |-> FALSE, refreshing |-> FALSE, active |-> 0,
           talks |-> [t \in Talks |-> 0], cooldown |-> 0]
Waiting == [stage |-> "idle", account |-> NoAccount, tried |-> {}, started |-> FALSE]

BridgeInit ==
    /\ toggles = 0
    /\ pool = [a \in BrAccounts |-> Rested]
    /\ gateOf = NoSelection
    /\ brCall = [c \in BrCalls |-> Waiting]

-----------------------------------------------------------------------------
(* Slots: one for each conversation in progress, one for each call without *)

activeSlots(account) ==
    account.talks[NoTalk] + Cardinality({t \in Talks \ {NoTalk} : account.talks[t] > 0})

canAcquire(a, talk, limit) ==
    limit > 0 /\ ((talk # NoTalk /\ pool[a].talks[talk] > 0) \/ activeSlots(pool[a]) < limit)

reserve(account, talk) == [account EXCEPT !.active = @ + 1, !.talks[talk] = @ + 1]

\* mutant: the conversation ends with the first of its calls
releaseTalk(account, talk) == [account EXCEPT !.active = @ - 1, !.talks[talk] = IF talk = NoTalk THEN @ - 1 ELSE 0]

release(account, talk) == [account EXCEPT !.active = @ - 1, !.talks[talk] = @ - 1]

Cooled(a) == now >= pool[a].cooldown

\* The condition under which a call may be given an account, which acquire
\* evaluates three times: for the list, for each layer, and at the end.
Admissible(c, a) ==
    /\ DirectOf[c] \in {NoAccount, a}
    /\ pool[a].enabled /\ pool[a].ready /\ ~pool[a].refreshing
    /\ a \notin brCall[c].tried /\ Cooled(a)

Ready == \E a \in BrAccounts : pool[a].enabled /\ pool[a].ready /\ Cooled(a)

-----------------------------------------------------------------------------
(* A call *)

Over == [Waiting EXCEPT !.stage = "ended"]
Ends(c) == brCall' = [brCall EXCEPT ![c] = Over]
InProgress == {c \in BrCalls : brCall[c].stage \notin {"idle", "ended"}}

\* ServeHTTP: busy callers are refused rather than queued.
ServeBridge(c) ==
    /\ brCall[c].stage = "idle"
    /\ IF Cardinality(InProgress) < ProcessSlots /\ Ready
       THEN brCall' = [brCall EXCEPT ![c].stage = "waiting"]
       ELSE Ends(c)
    /\ UNCHANGED <<pool, toggles, gateOf>>

\* The client goes away while the call waits for the selection.
GivesUp(c) ==
    /\ brCall[c].stage = "waiting" /\ gateOf # NoSelection
    /\ Ends(c)
    /\ UNCHANGED <<pool, toggles, gateOf>>

\* acquire, entered: the list of candidates, made under the mutex.
EnterSelection(c) ==
    /\ brCall[c].stage = "waiting" /\ gateOf = NoSelection
    /\ LET ids == {a \in BrAccounts : Admissible(c, a)}
       IN  IF ids = {}
           THEN Ends(c) /\ UNCHANGED gateOf
           ELSE /\ brCall' = [brCall EXCEPT ![c].stage = "selecting"]
                /\ gateOf' = [NoSelection EXCEPT !.call = c,
                        !.step = IF DirectOf[c] = NoAccount THEN "asking" ELSE "reserving",
                        !.account = DirectOf[c],
                        !.limits = [a \in BrAccounts |-> IF a \in ids THEN 1 ELSE 0]]
    /\ UNCHANGED <<pool, toggles>>

LeaveSelection(c) == gateOf' = NoSelection /\ Ends(c)

Selecting(c, step) == brCall[c].stage = "selecting" /\ gateOf.call = c /\ gateOf.step = step

\* eligibleLimits: the gateway's answer, for candidates only, or its failure.
\* The limits an owner may change in the meantime are any of 0..MaxLimit.
eligibleLimits(c) ==
    /\ Selecting(c, "asking")
    /\ \/ \E limits \in [BrAccounts -> 0..MaxLimit] :
            /\ \A a \in BrAccounts : limits[a] > 0 => gateOf.limits[a] > 0
            /\ gateOf' = [gateOf EXCEPT !.step = "offering", !.limits = limits]
            /\ UNCHANGED brCall
       \/ LeaveSelection(c)
    /\ UNCHANGED <<pool, toggles>>

\* The next layer's candidates: those the conversation already uses first.
OfferLayer(c) ==
    /\ Selecting(c, "offering")
    /\ LET layer == {a \in BrAccounts :
                        /\ a \in LayersOf[c][gateOf.layer]
                        /\ Admissible(c, a) /\ canAcquire(a, TalkOf[c], gateOf.limits[a])}
           preferred == {a \in layer : TalkOf[c] # NoTalk /\ pool[a].talks[TalkOf[c]] > 0}
           offers == SelectSeq(<<preferred, layer \ preferred>>, LAMBDA s : s # {})
       IN  IF gateOf.layer > Len(LayersOf[c])
           THEN LeaveSelection(c)
           ELSE /\ gateOf' = [gateOf EXCEPT !.layer = @ + 1, !.offers = offers,
                                            !.step = IF offers = <<>> THEN "offering" ELSE "choosing"]
                /\ UNCHANGED brCall
    /\ UNCHANGED <<pool, toggles>>

\* selectAccount: the gateway picks one of the candidates, finds all of them
\* busy, or fails.
selectAccount(c) ==
    /\ Selecting(c, "choosing")
    /\ \/ \E a \in Head(gateOf.offers) :
            /\ gateOf' = [gateOf EXCEPT !.step = "reserving", !.account = a, !.offers = <<>>]
            /\ UNCHANGED brCall
       \/ /\ gateOf' = [gateOf EXCEPT !.offers = Tail(@),
                                      !.step = IF Tail(gateOf.offers) = <<>> THEN "offering" ELSE "choosing"]
          /\ UNCHANGED brCall
       \/ LeaveSelection(c)
    /\ UNCHANGED <<pool, toggles>>

\* The callbacks ran without the mutex: everything is evaluated again.
StillAdmissible(c, a) == a \in BrAccounts /\ Admissible(c, a) /\ canAcquire(a, TalkOf[c], gateOf.limits[a])

\* acquire, left: the slot is taken under the mutex.
Reserve(c) ==
    /\ Selecting(c, "reserving")
    /\ LET a == gateOf.account
       IN  IF StillAdmissible(c, a)
           THEN /\ pool' = [pool EXCEPT ![a] = reserve(@, TalkOf[c])]
                /\ brCall' = [brCall EXCEPT ![c].stage = "running", ![c].account = a, ![c].tried = @ \cup {a}]
                /\ gateOf' = NoSelection
           ELSE LeaveSelection(c) /\ UNCHANGED pool
    /\ UNCHANGED <<toggles>>

\* The first update of a stream reaches the client.
Emit(c) ==
    /\ brCall[c].stage = "running" /\ ~brCall[c].started
    /\ brCall' = [brCall EXCEPT ![c].started = TRUE]
    /\ UNCHANGED <<pool, toggles, gateOf>>

Succeeded(a) == IF Cooled(a) THEN [pool[a] EXCEPT !.ready = TRUE, !.cooldown = 0] ELSE pool[a]

Retried(c, outcome) == outcome \in {"quota", "auth"} /\ ~brCall[c].started /\ DirectOf[c] = NoAccount

\* RunStream, after the executor: what it says of the account, then whether
\* another account is tried; a call whose client has gone leaves.  "other" is
\* a protocol error, a timeout or a cancellation, which say nothing of the
\* account.
RunStream(c) ==
    /\ brCall[c].stage = "running"
    /\ LET a == brCall[c].account
       IN  \E outcome \in {"ok", "quota", "auth", "other"} :
            /\ pool' = [pool EXCEPT ![a] =
                    CASE outcome = "ok" -> Succeeded(a)
                      [] outcome = "quota" -> [@ EXCEPT !.cooldown = now + Cooldown]
                      [] outcome = "auth" -> [@ EXCEPT !.ready = FALSE, !.cooldown = now + Cooldown]
                      [] OTHER -> @]
            /\ \E next \in {"retrying", "leaving"} :
                /\ next = "retrying" => Retried(c, outcome)
                /\ brCall' = [brCall EXCEPT ![c].stage = next]
    /\ UNCHANGED <<toggles, gateOf>>

\* The slot is released once, by the retry or by ServeHTTP's defer.
Release(c) ==
    /\ brCall[c].stage \in {"retrying", "leaving"}
    /\ pool' = [pool EXCEPT ![brCall[c].account] = release(@, TalkOf[c])]
    /\ brCall' = [brCall EXCEPT ![c] =
            IF @.stage = "retrying" THEN [@ EXCEPT !.stage = "waiting", !.account = NoAccount] ELSE Over]
    /\ UNCHANGED <<toggles, gateOf>>

-----------------------------------------------------------------------------
(* The refresh, one account after the other *)

RefreshBegins(a) ==
    /\ \A x \in BrAccounts : ~pool[x].refreshing
    /\ pool[a].active = 0 /\ Cooled(a)
    /\ pool' = [pool EXCEPT ![a].refreshing = TRUE]
    /\ UNCHANGED <<toggles, gateOf, brCall>>

RefreshEnds(a) ==
    /\ pool[a].refreshing
    /\ \E ok \in BOOLEAN : pool' = [pool EXCEPT ![a].ready = ok, ![a].refreshing = FALSE]
    /\ UNCHANGED <<toggles, gateOf, brCall>>

-----------------------------------------------------------------------------
(* The owner *)

\* serveInternal, PUT .../status, once the registry has stored the change; a
\* failure to store it leaves the pool as it was.
setEnabled(a, enabled) ==
    /\ toggles < MaxToggles /\ toggles' = toggles + 1
    /\ pool' = [pool EXCEPT ![a].enabled = enabled]
    /\ UNCHANGED <<gateOf, brCall>>

BridgeTick == now < BridgeHorizon /\ now' = now + 1 /\ UNCHANGED bridgeVars

SelectionStep(c) ==
    GivesUp(c) \/ EnterSelection(c) \/ eligibleLimits(c) \/ OfferLayer(c) \/ selectAccount(c) \/ Reserve(c)

CallStep(c) == ServeBridge(c) \/ SelectionStep(c) \/ Emit(c) \/ RunStream(c) \/ Release(c)

BridgeNext ==
    \/ /\ \/ \E c \in BrCalls : CallStep(c)
          \/ \E a \in BrAccounts : RefreshBegins(a) \/ RefreshEnds(a)
          \/ \E a \in BrAccounts, enabled \in BOOLEAN : setEnabled(a, enabled)
       /\ UNCHANGED now
    \/ BridgeTick

BridgeSpec == now = 0 /\ BridgeInit /\ [][BridgeNext]_<<now, bridgeVars>>

-----------------------------------------------------------------------------
(* Properties *)

Using(a) == {c \in BrCalls : brCall[c].account = a /\ brCall[c].stage \in {"running", "retrying", "leaving"}}

\* The pool's counters say exactly which calls use an account, through
\* retries, failures and calls that share a conversation: no slot leaks and
\* none is given back twice.  An account being probed serves no call, so the
\* probe's result never overwrites what a call has learnt ("Readiness probes
\* never spawn concurrent agy processes").
SlotsExact ==
    \A a \in BrAccounts :
        /\ pool[a].active = Cardinality(Using(a))
        /\ \A t \in Talks : pool[a].talks[t] = Cardinality({c \in Using(a) : TalkOf[c] = t})
        /\ pool[a].refreshing => Using(a) = {}

=============================================================================
