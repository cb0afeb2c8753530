---------------------------- MODULE UpstreamAccess ----------------------------
(***************************************************************************)
(* Which upstream account serves a request: who may use an account, each   *)
(* user's account scope, the account pool of each group, the funding       *)
(* layers fixed when the request is admitted, what the sidecar is told of  *)
(* them, and the choice of an account each time the sidecar asks.          *)
(*                                                                         *)
(* One user's request is followed; edits by administrators fall between    *)
(* any two of its steps.  A choice reads the eligible accounts of a pool   *)
(* and then, in another statement, picks among them.                       *)
(***************************************************************************)
EXTENDS Integers, FiniteSets, FiniteSetsExt, Sequences

CONSTANTS Pooled,        \* account identifiers
          Self,          \* the user whose request is followed
          Others,        \* further users, named by account lists only
          GroupOrder,    \* the user's groups in membership priority order
          MaxTries,   \* bound: accounts tried for the request
          MaxAccessEdits       \* bound: edits by administrators and other parts

ASSUME AccessAssumption ==
    /\ MaxTries \in Nat /\ MaxAccessEdits \in Nat
    /\ Self \notin Others

VARIABLES
    known,       \* accounts with a directory row; rows are never deleted
    access,      \* [Pooled -> [mode, users]]
    share,       \* [Pooled -> allocation weight]
    spent,       \* [Pooled -> cost settled in the rolling day]
    held,        \* accounts the quota guard holds
    enabled,     \* whether the user's status is active
    scope,       \* the user's account scope [mode, accounts]
    policy,      \* [groups -> [strategy, accounts]]: the pool of each group
    image,       \* what the running sidecar supports: "none", "scope" or "layers"
    demand,      \* the request
    edits,       \* edits made so far
    withdrawn    \* history: accounts taken from the user and not given back

accountVars == <<known, access, share, spent, held>>
ruleVars == <<enabled, scope, policy, withdrawn>>
accessVars == <<known, access, share, spent, held, enabled, scope, policy, image,
                demand, edits, withdrawn>>

-----------------------------------------------------------------------------
GroupSet == {GroupOrder[i] : i \in DOMAIN GroupOrder}
Everything == [all |-> TRUE, accounts |-> {}]
Pool(accounts) == [all |-> FALSE, accounts |-> accounts]
NoDemand == [stage |-> "idle", layers |-> <<>>, sent |-> <<>>, tried |-> {},
             pools |-> <<>>, next |-> 0, allowed |-> {}, answer |-> {}, edits |-> 0]

AccessInit ==
    /\ known \in SUBSET Pooled
    /\ access = [a \in Pooled |-> [mode |-> "shared", users |-> {}]]
    /\ share = [a \in Pooled |-> 1]
    /\ spent = [a \in Pooled |-> 0]
    /\ held = {}
    /\ enabled = TRUE
    /\ scope = [mode |-> "all", accounts |-> {}]
    /\ policy = [g \in GroupSet |-> [strategy |-> "all", accounts |-> {}]]
    /\ image \in {"none", "scope", "layers"}
    /\ demand = NoDemand
    /\ edits = 0
    /\ withdrawn = {}

-----------------------------------------------------------------------------
(* Administrative edits                                                    *)

Edit == edits < MaxAccessEdits /\ edits' = edits + 1 /\ UNCHANGED <<image, demand>>

\* a list or a response brings the account into the directory
Register(a) ==
    /\ a \notin known
    /\ known' = known \union {a}
    /\ UNCHANGED <<access, share, spent, held, ruleVars, image, demand, edits>>

\* shared takes no users, exclusive at least one
normalizeUpstreamAccess(mode, users) == (mode = "shared") <=> (users = {})

SetUpstreamAccountAccess(a, mode, users) ==
    /\ Edit
    /\ a \in known
    /\ normalizeUpstreamAccess(mode, users)
    /\ access' = [access EXCEPT ![a] = [mode |-> mode, users |-> users]]
    /\ UNCHANGED <<known, share, spent, held, ruleVars>>

\* the handlers refuse what the transactions would
setUpstreamAccountAccess(a, mode, users) ==
    /\ mode \in {"shared", "exclusive"}
    /\ SetUpstreamAccountAccess(a, mode, users)

SetUpstreamAccountAllocationWeight(a, w) ==
    /\ Edit
    /\ a \in known
    /\ share' = [share EXCEPT ![a] = w]
    /\ UNCHANGED <<known, access, spent, held, ruleVars>>

setUpstreamAccountAllocationWeight(a, w) ==
    /\ w >= 0
    /\ SetUpstreamAccountAllocationWeight(a, w)

normalizeUserUpstreamAccess(mode, accounts) ==
    mode = "selected" \/ (mode = "all" /\ accounts = {})

replaceUserUpstreamAccessTx(next) ==
    /\ scope' = next
    /\ UNCHANGED <<accountVars, enabled, policy>>

SetUserUpstreamAccess(mode, accounts) ==
    /\ Edit
    /\ normalizeUserUpstreamAccess(mode, accounts)
    /\ accounts \subseteq known
    /\ replaceUserUpstreamAccessTx([mode |-> mode, accounts |-> accounts])
    /\ withdrawn' = IF mode = "all" THEN {} ELSE Pooled \ accounts

setUserUpstreamAccess(mode, accounts) ==
    /\ mode # "all" \/ accounts = {}
    /\ SetUserUpstreamAccess(mode, accounts)

\* taking accounts from a user who may use them all turns the rule into the
\* list of the others registered now
nextUserUpstreamAccess(action, previous, selected, registered) ==
    CASE action = "all" -> [mode |-> "all", accounts |-> {}]
      [] action = "enable" ->
            IF previous.mode = "all" THEN previous
            ELSE [previous EXCEPT !.accounts = @ \union selected]
      [] action = "disable" ->
            [mode |-> "selected",
             accounts |-> (IF previous.mode = "all" THEN registered
                           ELSE previous.accounts) \ selected]

normalizeUserUpstreamAccessBatch(action, selected) ==
    (action = "all") <=> (selected = {})

SetUserUpstreamAccessBatch(action, selected) ==
    /\ Edit
    /\ normalizeUserUpstreamAccessBatch(action, selected)
    /\ selected \subseteq known
    /\ replaceUserUpstreamAccessTx(nextUserUpstreamAccess(action, scope, selected, known))
    /\ withdrawn' = CASE action = "all" -> {}
                      [] action = "enable" -> withdrawn \ selected
                      [] action = "disable" -> withdrawn \union selected

setUserUpstreamAccessBatch(action, selected) ==
    /\ action \in {"enable", "disable"} => selected # {}
    /\ SetUserUpstreamAccessBatch(action, selected)

normalizeGroupUpstreamParams(strategy, accounts) ==
    strategy = "selected" \/ (strategy = "all" /\ accounts = {})

\* a selected pool may be empty: the group then funds no account
SetGroupUpstreamAccounts(g, strategy, accounts) ==
    /\ Edit
    /\ normalizeGroupUpstreamParams(strategy, accounts)
    /\ accounts \subseteq known
    /\ policy' = [policy EXCEPT ![g] = [strategy |-> strategy, accounts |-> accounts]]
    /\ UNCHANGED <<accountVars, enabled, scope, withdrawn>>

\* without a strategy the mode is taken, and without either every account
setGroupUpstreamPolicy(g, strategy, accounts) ==
    SetGroupUpstreamAccounts(g, IF strategy = "" THEN "all" ELSE strategy, accounts)

\* what other components change: the quota guard, a settled charge, the
\* user's status, the sidecar's image
HoldChanges(a) ==
    /\ Edit
    /\ held' = IF a \in held THEN held \ {a} ELSE held \union {a}
    /\ UNCHANGED <<known, access, share, spent, ruleVars>>

Charged(a) ==
    /\ Edit
    /\ a \in known
    /\ spent' = [spent EXCEPT ![a] = @ + 1]
    /\ UNCHANGED <<known, access, share, held, ruleVars>>

StatusChanges ==
    /\ Edit
    /\ enabled' = ~enabled
    /\ UNCHANGED <<accountVars, scope, policy, withdrawn>>

SidecarReplaced(new) ==
    /\ edits < MaxAccessEdits
    /\ edits' = edits + 1
    /\ image' = new
    /\ UNCHANGED <<accountVars, ruleVars, demand>>

-----------------------------------------------------------------------------
(* Who may use an account                                                  *)

\* no rule means every account; a list denies what is not registered
userUpstreamAccessPredicate(a) ==
    scope.mode = "all" \/ (a \in known /\ a \in scope.accounts)

Permitted(a) == access[a].mode = "shared" \/ Self \in access[a].users

Eligible(a) ==
    /\ enabled
    /\ a \in known => Permitted(a)
    /\ userUpstreamAccessPredicate(a)
    /\ a \notin held

EligibleUpstreamAccountLimits(ids) == {a \in ids : Eligible(a)}

\* an account never synchronised has weight one and no cost
WeightOf(a) == IF a \in known THEN share[a] ELSE 1
CostOf(a) == IF a \in known THEN spent[a] ELSE 0

\* the accounts furthest behind their share (module Allocation)
selectUpstreamAllocation(accounts) ==
    LET paid == {a \in accounts : WeightOf(a) > 0}
        behind(a) == WeightOf(a) * MapThenSumSet(CostOf, paid)
                     - CostOf(a) * MapThenSumSet(WeightOf, paid)
    IN  {a \in paid : \A b \in paid : behind(b) <= behind(a)}

SelectUpstreamAccount(ids) == selectUpstreamAllocation({a \in ids : Eligible(a)})

-----------------------------------------------------------------------------
(* Admission fixes the funding layers, dispatch negotiates them            *)

\* the pool of one group, read under the admission's lock on the group
snapshotGroupUpstreamAllocationGroupTx(g) ==
    IF policy[g].strategy = "selected" THEN policy[g].accounts ELSE known

userPermittedAccountsTx(ids) ==
    {a \in ids \intersect known : Permitted(a) /\ userUpstreamAccessPredicate(a)}

\* a pool is cut to what the user may use and dropped when nothing is left;
\* the personal layer comes last and has every account
fundingLayersTx(groups, personal) ==
    LET pools == [i \in DOMAIN groups |->
                    userPermittedAccountsTx(snapshotGroupUpstreamAllocationGroupTx(groups[i]))]
        layers == SelectSeq([i \in DOMAIN pools |-> Pool(pools[i])],
                            LAMBDA layer : layer.accounts # {})
    IN  IF personal THEN Append(layers, Everything) ELSE layers

\* groups are the usable ones of the user, in priority order
Admit(groups, personal) ==
    /\ demand.stage = "idle"
    /\ enabled
    /\ LET layers == fundingLayersTx(groups, personal)
       IN  demand' = [NoDemand EXCEPT !.layers = layers,
                        !.stage = IF layers = <<>> THEN "refused" ELSE "admitted"]
    /\ UNCHANGED <<accountVars, ruleVars, image, edits>>

\* a lone personal layer is sent as no scope; a sidecar without layers gets
\* the first one only
resolveFundingLayers(layers) ==
    CASE Len(layers) = 1 /\ layers[1].all -> <<>>
      [] Len(layers) > 1 /\ image # "layers" ->
            IF layers[1].all THEN <<>> ELSE SubSeq(layers, 1, 1)
      [] OTHER -> layers

requireAccountAccessCapability(groupScoped) ==
    groupScoped => image \in {"scope", "layers"}

\* only the last layer may be personal
validateFundingLayers(layers) == \A i \in 1..(Len(layers) - 1) : ~layers[i].all

prepareAccountScope ==
    /\ demand.stage = "admitted"
    /\ LET sent == resolveFundingLayers(demand.layers)
       IN  demand' = IF /\ requireAccountAccessCapability(sent # <<>>)
                        /\ validateFundingLayers(sent)
                     THEN [demand EXCEPT !.stage = "dispatched", !.sent = sent]
                     ELSE [demand EXCEPT !.stage = "failed"]
    /\ UNCHANGED <<accountVars, ruleVars, image, edits>>

\* the capability request itself fails: the dispatch fails closed
CapabilityUnavailable ==
    /\ demand.stage = "admitted"
    /\ demand' = [demand EXCEPT !.stage = "failed"]
    /\ UNCHANGED <<accountVars, ruleVars, image, edits>>

-----------------------------------------------------------------------------
(* The sidecar asks for an account                                         *)

Untried == Pooled \ demand.tried
SentPools == SelectSeq(demand.sent, LAMBDA layer : ~layer.all)
SentPersonal == demand.sent = <<>> \/ demand.sent[Len(demand.sent)].all

validUpstreamSelectionRequest(ids, pools) == ids # {} \/ pools # <<>>

\* the group layers it was sent, cut to the accounts not tried yet, or, when
\* it was sent no group or has been through them, those accounts alone
upstreamAccountSelection(pools) ==
    /\ validUpstreamSelectionRequest(Untried, pools)
    /\ \/ demand.stage = "dispatched" /\ pools = SentPools
       \/ demand.stage = "exhausted" /\ SentPersonal /\ pools = <<>>
    /\ demand' = [demand EXCEPT
            !.pools = [i \in DOMAIN pools |-> pools[i].accounts \intersect Untried],
            !.next = 1, !.answer = {}, !.edits = edits,
            !.stage = IF pools = <<>> THEN "select" ELSE "pool",
            !.allowed = IF pools = <<>> THEN Untried ELSE {}]
    /\ UNCHANGED <<accountVars, ruleVars, image, edits>>

PastLast == demand.next > Len(demand.pools)

\* the pools are gone through in order; one without candidates is passed over
readPool ==
    /\ demand.stage = "pool"
    /\ ~PastLast
    /\ LET allowed == EligibleUpstreamAccountLimits(demand.pools[demand.next])
       IN  demand' = IF allowed = {} THEN [demand EXCEPT !.next = @ + 1]
                     ELSE [demand EXCEPT !.allowed = allowed, !.stage = "select"]
    /\ UNCHANGED <<accountVars, ruleVars, image, edits>>

\* mutant: an exhausted request falls back to the sidecar's own candidates
FallBackToCandidates ==
    /\ demand.stage = "pool"
    /\ PastLast
    /\ demand' = [demand EXCEPT !.stage = "select", !.pools = <<>>, !.allowed = Untried]
    /\ UNCHANGED <<accountVars, ruleVars, image, edits>>

\* a pool-bound request never falls back to the sidecar's own candidates
poolsExhausted ==
    /\ demand.stage = "pool"
    /\ PastLast
    /\ demand' = [demand EXCEPT !.stage = "exhausted"]
    /\ UNCHANGED <<accountVars, ruleVars, image, edits>>

\* a pool whose accounts all have weight zero is passed over
selectFrom ==
    /\ demand.stage = "select"
    /\ LET choices == SelectUpstreamAccount(demand.allowed)
       IN  \/ \E a \in choices :
                demand' = [demand EXCEPT !.answer = {a}, !.stage = "answered"]
           \/ /\ choices = {}
              /\ demand' = IF demand.pools = <<>> THEN [demand EXCEPT !.stage = "refused"]
                           ELSE [demand EXCEPT !.next = @ + 1, !.stage = "pool"]
    /\ UNCHANGED <<accountVars, ruleVars, image, edits>>

\* the account fails and the sidecar tries another one
Retry ==
    /\ demand.stage = "answered"
    /\ Cardinality(demand.tried) + 1 < MaxTries
    /\ demand' = [demand EXCEPT !.tried = @ \union demand.answer, !.answer = {},
                                !.stage = "dispatched"]
    /\ UNCHANGED <<accountVars, ruleVars, image, edits>>

AccessNext ==
    \/ \E a \in Pooled : Register(a) \/ HoldChanges(a) \/ Charged(a)
    \/ \E a \in Pooled, mode \in {"shared", "exclusive"},
          users \in SUBSET ({Self} \union Others) : setUpstreamAccountAccess(a, mode, users)
    \/ \E a \in Pooled, w \in {0, 2} : setUpstreamAccountAllocationWeight(a, w)
    \/ \E mode \in {"all", "selected"}, accounts \in SUBSET Pooled :
            setUserUpstreamAccess(mode, accounts)
    \/ \E action \in {"all", "enable", "disable"}, selected \in SUBSET Pooled :
            setUserUpstreamAccessBatch(action, selected)
    \/ \E g \in GroupSet, strategy \in {"", "all", "selected"}, accounts \in SUBSET Pooled :
            setGroupUpstreamPolicy(g, strategy, accounts)
    \/ StatusChanges
    \/ \E new \in {"none", "scope", "layers"} : SidecarReplaced(new)
    \/ \E n \in 0..Len(GroupOrder), personal \in BOOLEAN :
            Admit(SubSeq(GroupOrder, n + 1, Len(GroupOrder)), personal)
    \/ prepareAccountScope \/ CapabilityUnavailable
    \/ \E pools \in {SentPools, <<>>} : upstreamAccountSelection(pools)
    \/ readPool \/ poolsExhausted \/ selectFrom \/ Retry

AccessSpec == AccessInit /\ [][AccessNext]_accessVars

-----------------------------------------------------------------------------
(* Properties                                                              *)

\* the layers that may pay for an account, in order
settlementLayerCandidates(layers, a) ==
    {i \in DOMAIN layers : layers[i].all \/ a \in layers[i].accounts}

Acceptable(a) == Eligible(a) /\ WeightOf(a) > 0
FirstPool(pools) ==
    {i \in DOMAIN pools :
        /\ \E a \in pools[i] : Acceptable(a)
        /\ \A j \in 1..(i - 1) : \A a \in pools[j] : ~Acceptable(a)}

\* Whatever is edited after admission, whichever sidecar is running and however
\* often it retries, an account chosen for the request lies in one of the
\* layers admission recorded, so settlement finds a layer that pays for it.
\* When nothing was edited meanwhile, it comes from the first pool in billing
\* order with an acceptable account, and the pools are called exhausted only
\* when none has one (upstreamAccountSelection, resolveFundingLayers,
\* settlementLayerCandidates).
ChosenIsFunded ==
    /\ \A a \in demand.answer : settlementLayerCandidates(demand.layers, a) # {}
    /\ (demand.edits = edits /\ demand.pools # <<>>) =>
        /\ demand.stage = "exhausted" => FirstPool(demand.pools) = {}
        /\ demand.stage = "answered" =>
            \A a \in demand.answer : \E i \in FirstPool(demand.pools) : a \in demand.pools[i]

\* An account taken from the user, by a list that leaves it out or by a batch
\* that disables it, is not chosen until it is given back, even when the edit
\* falls between reading a pool and choosing from it
\* (userUpstreamAccessPredicate is evaluated again by SelectUpstreamAccount).
WithdrawnNotChosen ==
    (demand'.answer \ demand.answer) \cap withdrawn = {}

\* A choice respects what was granted at admission and what has been withdrawn
\* since: ChosenIsFunded after every step and WithdrawnNotChosen by it.
ChosenAsGranted == [][ChosenIsFunded' /\ WithdrawnNotChosen]_accessVars

=============================================================================
