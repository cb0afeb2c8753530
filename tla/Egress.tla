-------------------------------- MODULE Egress --------------------------------
(***************************************************************************)
(* Account egress: an account may be bound to an egress node, in which     *)
(* case its traffic leaves through that node and never through the global  *)
(* exit.  The gateways keep nodes, bindings and registrations (the         *)
(* onboarding of an account with a chosen node) in the database under one  *)
(* version counter, install a snapshot of them in the egress runtime, and  *)
(* answer the sidecar's question which route an account takes.             *)
(*                                                                         *)
(* One account is followed.  Every call is a process of its own, as calls  *)
(* on different gateways are: it reads the database, exchanges with the    *)
(* runtime and answers in separate steps.  The runtime is the one of       *)
(* module EgressRuntime, seen through its control interface.               *)
(***************************************************************************)
EXTENDS Integers, FiniteSets

CONSTANTS EgNodes,        \* egress nodes; an identifier is never reused
          Registrations,  \* registration intents
          EgCalls,        \* calls in progress
          MaxVersion      \* bound: last version of the egress state

ASSUME EgressAssumption == MaxVersion \in Nat \ {0}

VARIABLES
    egVersion,     \* the singleton version counter
    egNode,        \* [EgNodes -> revision]; 0 before creation, -1 once deleted
    egBinding,     \* the account's binding [bound, node, revision]
    registration,  \* [Registrations -> intent]
    runtime,       \* the egress runtime's [version, ready, routes]
    egCall,        \* [EgCalls -> call in progress]
    \* history, never read by the code:
    applied,       \* routes the runtime has ever applied
    chosenNode     \* [Registrations -> the node the intent was created with]

egressVars == <<egVersion, egNode, egBinding, registration, runtime, egCall, applied, chosenNode>>
databaseVars == <<egVersion, egNode, egBinding, registration, chosenNode>>

-----------------------------------------------------------------------------
Global == "global"
NoRoute == [kind |-> "none", id |-> "none", revision |-> 0, node |-> Global, nodeRevision |-> 0]
Unavailable == [mode |-> "unavailable", route |-> NoRoute, revision |-> 0]
Direct(revision) == [mode |-> Global, route |-> NoRoute, revision |-> revision]
NoIntent == [state |-> "none", node |-> Global, preserve |-> FALSE, revision |-> 0,
             baseline |-> 0, stale |-> FALSE]
Live(n) == egNode[n] > 0
Down == [version |-> 0, ready |-> FALSE, routes |-> {}]
NoRequest == [stage |-> "idle", kind |-> "none", intent |-> "none", want |-> [node |-> Global, revision |-> 0], snap |-> "none",
              answer |-> Unavailable, seen |-> {}]

EgressInit ==
    /\ egVersion = 1
    /\ egNode \in [EgNodes -> {0, 1}]
    /\ egBinding = [bound |-> FALSE, node |-> Global, revision |-> 0]
    /\ registration = [r \in Registrations |-> NoIntent]
    /\ runtime = Down
    /\ egCall = [c \in EgCalls |-> NoRequest]
    /\ applied = {}
    /\ chosenNode = [r \in Registrations |-> Global]

\* every write advances the version it locks first
nextEgressVersion == egVersion < MaxVersion /\ egVersion' = egVersion + 1

\* every call in progress has now also met the binding as it becomes
Observed == egCall' = [c \in EgCalls |->
    IF egCall[c].stage \in {"idle", "done"} THEN egCall[c]
    ELSE [egCall[c] EXCEPT !.seen = @ \union {egBinding'}]]

-----------------------------------------------------------------------------
(* Administration                                                          *)

\* a node is created or saved again
SaveEgressServer(n) ==
    /\ nextEgressVersion
    /\ egNode[n] >= 0
    /\ egNode' = [egNode EXCEPT ![n] = egVersion']
    /\ UNCHANGED <<egBinding, registration, runtime, egCall, applied, chosenNode>>

\* bound nodes and nodes of a registration less than a day old stay; completed
\* intents let go of the node
DeleteEgressServer(n) ==
    /\ nextEgressVersion
    /\ Live(n)
    /\ ~(egBinding.bound /\ egBinding.node = n)
    /\ \A r \in Registrations :
        ~(registration[r].state \in {"pending", "prepared"} /\ registration[r].node = n
          /\ ~registration[r].stale)
    /\ registration' = [r \in Registrations |->
            IF registration[r].state = "committed" /\ registration[r].node = n
            THEN [registration[r] EXCEPT !.node = Global] ELSE registration[r]]
    /\ egNode' = [egNode EXCEPT ![n] = -1]
    /\ UNCHANGED <<egBinding, runtime, egCall, applied, chosenNode>>

setEgressBinding(node, revision) ==
    /\ node # Global => Live(node)
    /\ egBinding' = [bound |-> TRUE, node |-> node, revision |-> revision]

SetEgressBinding(node) ==
    /\ nextEgressVersion
    /\ setEgressBinding(node, egVersion')
    /\ Observed
    /\ UNCHANGED <<egNode, registration, runtime, applied, chosenNode>>

\* an onboarding starts: with a node, with the global exit, or keeping the
\* account's binding
CreateEgressRegistration(r, node, preserve) ==
    /\ nextEgressVersion
    /\ registration[r].state = "none"
    /\ node # Global => Live(node) /\ ~preserve
    /\ registration' = [registration EXCEPT ![r] =
            [state |-> "pending", node |-> node, preserve |-> preserve,
             revision |-> egVersion', baseline |-> 0, stale |-> FALSE]]
    /\ chosenNode' = [chosenNode EXCEPT ![r] = node]
    /\ UNCHANGED <<egNode, egBinding, runtime, egCall, applied>>

\* a day passes
RegistrationAges(r) ==
    /\ registration[r].state \in {"pending", "prepared"}
    /\ ~registration[r].stale
    /\ registration' = [registration EXCEPT ![r].stale = TRUE]
    /\ UNCHANGED <<egVersion, egNode, egBinding, runtime, egCall, applied, chosenNode>>

-----------------------------------------------------------------------------
(* The snapshot and the runtime                                            *)

Route(kind, id, revision, node, nodeRevision) ==
    [kind |-> kind, id |-> id, revision |-> revision, node |-> node, nodeRevision |-> nodeRevision]

EgressSnapshot == [version |-> egVersion, node |-> egNode, binding |-> egBinding,
                   registration |-> registration]

Has(snap, n) == n # Global /\ snap.node[n] > 0

\* the routes of a snapshot: the binding, and for open registrations the route
\* of the onboarding and, once prepared, the account's future one
runtimeSnapshot(snap) ==
    LET open == {r \in Registrations :
                    snap.registration[r].state \in {"pending", "prepared"}
                    /\ Has(snap, snap.registration[r].node)}
        future == {r \in open : snap.registration[r].state = "prepared"
                                /\ ~snap.registration[r].preserve}
        route(kind, id, x) == Route(kind, id, x.revision, x.node, snap.node[x.node])
    IN  {route("account", "account", snap.binding) :
            x \in {y \in {1} : snap.binding.bound /\ Has(snap, snap.binding.node)}}
        \union {route("registration", r, snap.registration[r]) : r \in open}
        \union {route("account", "account", snap.registration[r]) : r \in future}

\* an older snapshot is refused; one that is already applied is accepted
Accepts(snap) == snap.version >= runtime.version

Installed(snap) == [version |-> snap.version, ready |-> TRUE, routes |-> runtimeSnapshot(snap)]

\* the runtime restarts empty
RuntimeRestarts ==
    /\ runtime # Down
    /\ runtime' = Down
    /\ UNCHANGED <<databaseVars, egCall, applied>>

-----------------------------------------------------------------------------
(* Answers                                                                 *)

Free(c) == egCall[c].stage \in {"idle", "done"}

Done(c, answer) == egCall' = [egCall EXCEPT ![c] =
    [NoRequest EXCEPT !.stage = "done", !.kind = egCall[c].kind, !.intent = egCall[c].intent,
                      !.answer = answer, !.seen = egCall[c].seen]]

\* the route of x in a snapshot: the global exit, or a node the snapshot knows
routeResolution(kind, id, x, snap) ==
    IF x.node = Global THEN Direct(x.revision)
    ELSE IF Has(snap, x.node)
         THEN [mode |-> "account", revision |-> x.revision,
               route |-> Route(kind, id, x.revision, x.node, snap.node[x.node])]
         ELSE Unavailable

\* a node's route counts only while the runtime reports it applied
appliedRouteResolution(kind, id, x, snap, status) ==
    LET resolution == routeResolution(kind, id, x, snap)
    IN  IF x.node = Global \/ (status.ready /\ resolution.route \in status.routes)
        THEN resolution ELSE Unavailable

\* the account's route, from the binding read now: the global exit is answered
\* at once, a node only after a synchronisation
ResolveNow(c, request) ==
    egCall' = [egCall EXCEPT ![c] = [request EXCEPT
        !.stage = IF egBinding.node = Global THEN "done" ELSE "sync",
        !.kind = "account",
        !.seen = {egBinding},
        !.answer = IF egBinding.node = Global
                   THEN routeResolution("account", "account", egBinding, EgressSnapshot)
                   ELSE Unavailable]]

resolveEgress(c) ==
    /\ Free(c)
    /\ ResolveNow(c, NoRequest)
    /\ UNCHANGED <<databaseVars, runtime, applied>>

\* mutant: falls back to the global exit when the route is not there
FallBackToGlobal(snap, status) ==
    LET answer == appliedRouteResolution("account", "account", snap.binding, snap, status)
    IN  IF answer = Unavailable THEN Direct(snap.binding.revision) ELSE answer

\* ... and from the binding of the snapshot that was synchronised
resolveAccountEgress(snap, status) ==
    IF snap.binding.bound
    THEN appliedRouteResolution("account", "account", snap.binding, snap, status)
    ELSE Unavailable

\* what a registration asks for, as a call reads it
Wanted(r) == [node |-> registration[r].node, revision |-> registration[r].revision]

\* the route of an onboarding: the account's once it is committed
egressRegistrationResolution(c, r) ==
    /\ Free(c)
    /\ registration[r].state # "none"
    /\ LET request == [NoRequest EXCEPT !.kind = "registration", !.intent = r,
                                        !.want = Wanted(r)]
       IN  IF registration[r].state = "committed" THEN ResolveNow(c, request)
           ELSE egCall' = [egCall EXCEPT ![c] =
                IF registration[r].node = Global
                THEN [request EXCEPT !.stage = "done", !.answer = Direct(registration[r].revision)]
                ELSE [request EXCEPT !.stage = "sync"]]
    /\ UNCHANGED <<databaseVars, runtime, applied>>

\* the background synchronisation, and the one at the end of each
\* administrative call
RunEgressSync(c) ==
    /\ Free(c)
    /\ egCall' = [egCall EXCEPT ![c] = [NoRequest EXCEPT !.stage = "sync", !.kind = "worker"]]
    /\ UNCHANGED <<databaseVars, runtime, applied>>

-----------------------------------------------------------------------------
(* Synchronisation: a call's snapshot, then its exchange with the runtime. *)
(* The status is read, the snapshot is put when the runtime is behind, and *)
(* the status is read again; the call goes on with what it got.            *)

ReadSnapshot(c) ==
    /\ egCall[c].stage = "sync"
    /\ egCall' = [egCall EXCEPT ![c].stage = "exchange", ![c].snap = EgressSnapshot]
    /\ UNCHANGED <<databaseVars, runtime, applied>>

\* registerEgress goes on to commit only with its future route applied
registerEgress(c, answer) ==
    IF answer = Unavailable THEN Done(c, answer)
    ELSE egCall' = [egCall EXCEPT ![c].stage = "commit"]

GoesOn(c, status) ==
    LET snap == egCall[c].snap
        want == egCall[c].want
    IN  \/ /\ egCall[c].kind = "worker"
           /\ egCall' = [egCall EXCEPT ![c] = NoRequest]
        \/ /\ egCall[c].kind = "account"
           /\ Done(c, resolveAccountEgress(snap, status))
        \/ /\ egCall[c].kind = "registration"
           /\ Done(c, appliedRouteResolution("registration", egCall[c].intent, want, snap, status))
        \/ /\ egCall[c].kind = "register"
           /\ registerEgress(c, appliedRouteResolution("account", "account", want, snap, status))

UpToDate(snap) == runtime.ready /\ runtime.version = snap.version

syncAccountEgress(c) ==
    /\ egCall[c].stage = "exchange"
    /\ LET snap == egCall[c].snap
       IN  runtime' = IF UpToDate(snap) \/ ~Accepts(snap) THEN runtime ELSE Installed(snap)
    /\ applied' = applied \union runtime'.routes
    /\ GoesOn(c, runtime')
    /\ UNCHANGED databaseVars

\* the new listeners do not come up: the old ones are restored, or the runtime
\* is left not ready
ApplyFails(c, restored) ==
    /\ egCall[c].stage = "exchange"
    /\ ~UpToDate(egCall[c].snap) /\ Accepts(egCall[c].snap)
    /\ runtime' = [runtime EXCEPT !.ready = @ /\ restored]
    /\ GoesOn(c, runtime')
    /\ UNCHANGED <<databaseVars, applied>>

\* the runtime does not answer
ControlUnavailable(c) ==
    /\ egCall[c].stage = "exchange"
    /\ GoesOn(c, Down)
    /\ UNCHANGED <<databaseVars, runtime, applied>>

-----------------------------------------------------------------------------
(* The sidecar completes an onboarding: prepare the route, have it applied,*)
(* then commit the binding                                                 *)

\* a prepared or committed registration is acknowledged as it stands
PrepareEgressRegistration(c, r) ==
    /\ Free(c)
    /\ registration[r].state # "none"
    /\ \/ /\ registration[r].state = "pending"
          /\ nextEgressVersion
          /\ registration[r].preserve \/ egBinding.revision <= registration[r].revision
          /\ registration' = [registration EXCEPT ![r].state = "prepared",
                                                   ![r].baseline = egBinding.revision]
       \/ /\ registration[r].state # "pending"
          /\ UNCHANGED <<egVersion, registration>>
    /\ LET request == [NoRequest EXCEPT !.kind = "register", !.intent = r, !.want = Wanted(r)]
       IN  egCall' = [egCall EXCEPT ![c] = [request EXCEPT !.stage =
               IF registration[r].state = "committed" THEN "committed"
               ELSE IF registration[r].preserve \/ registration[r].node = Global THEN "commit"
               ELSE "sync"]]
    /\ UNCHANGED <<egNode, egBinding, runtime, applied, chosenNode>>

\* the commit stands only on the binding that was there at the preparation and
\* on the revision of the node that was applied
Committable(c, r) ==
    \/ registration[r].preserve
    \/ /\ registration[r].baseline = egBinding.revision
       /\ registration[r].node # Global =>
            egNode[registration[r].node] = egCall[c].snap.node[registration[r].node]

Bound(r) == IF registration[r].preserve THEN UNCHANGED egBinding
            ELSE setEgressBinding(registration[r].node, registration[r].revision)

\* Every call in progress meets the binding the commit leaves; c goes on to
\* read the account's route
CommitEgressRegistration(c, r) ==
    /\ egCall[c].stage = "commit" /\ egCall[c].intent = r
    /\ registration[r].state = "prepared"
    /\ nextEgressVersion
    /\ Committable(c, r)
    /\ Bound(r)
    /\ registration' = [registration EXCEPT ![r].state = "committed"]
    /\ egCall' = [d \in EgCalls |->
            IF d = c THEN [NoRequest EXCEPT !.stage = "committed", !.kind = "register", !.intent = r]
            ELSE IF egCall[d].stage \in {"idle", "done"} THEN egCall[d]
            ELSE [egCall[d] EXCEPT !.seen = @ \union {egBinding'}]]
    /\ UNCHANGED <<egNode, runtime, applied, chosenNode>>

\* another call committed it first: acknowledged
CommitReplayed(c, r) ==
    /\ egCall[c].stage = "commit" /\ egCall[c].intent = r
    /\ registration[r].state = "committed"
    /\ egCall' = [egCall EXCEPT ![c] =
            [NoRequest EXCEPT !.stage = "committed", !.kind = "register", !.intent = r]]
    /\ UNCHANGED <<databaseVars, runtime, applied>>

CommitRefused(c, r) ==
    /\ egCall[c].stage = "commit" /\ egCall[c].intent = r
    /\ registration[r].state = "prepared"
    /\ ~Committable(c, r)
    /\ Done(c, Unavailable)
    /\ UNCHANGED <<databaseVars, runtime, applied>>

ResolveCommitted(c) ==
    /\ egCall[c].stage = "committed"
    /\ ResolveNow(c, [NoRequest EXCEPT !.intent = egCall[c].intent])
    /\ UNCHANGED <<databaseVars, runtime, applied>>

-----------------------------------------------------------------------------
Administer ==
    \/ \E n \in EgNodes :
        SaveEgressServer(n) \/ DeleteEgressServer(n)
    \/ \E node \in EgNodes \union {Global} :
        \/ SetEgressBinding(node)
        \/ \E r \in Registrations, preserve \in BOOLEAN :
            CreateEgressRegistration(r, node, preserve)
    \/ \E r \in Registrations : RegistrationAges(r)

Synchronise(c) ==
    \/ ReadSnapshot(c)
    \/ syncAccountEgress(c)
    \/ \E restored \in BOOLEAN : ApplyFails(c, restored)
    \/ ControlUnavailable(c)

Serve(c) ==
    \/ resolveEgress(c) \/ RunEgressSync(c) \/ ResolveCommitted(c)
    \/ \E r \in Registrations :
        \/ egressRegistrationResolution(c, r)
        \/ PrepareEgressRegistration(c, r)
        \/ CommitEgressRegistration(c, r) \/ CommitReplayed(c, r) \/ CommitRefused(c, r)

EgressNext ==
    \/ Administer
    \/ RuntimeRestarts
    \/ \E c \in EgCalls : Synchronise(c) \/ Serve(c)

EgressSpec == EgressInit /\ [][EgressNext]_egressVars

-----------------------------------------------------------------------------
(* An answer to "which route does this account take" (resolveAccountEgress)*)
(* is one the account was bound to at some moment of the call: whatever    *)
(* bindings, nodes and the runtime do meanwhile, an account bound to a     *)
(* node throughout the call is never sent through the global exit, and a   *)
(* node is never paired with the revision of another binding.              *)
ResolvedAsBound ==
    \A c \in EgCalls :
        egCall[c].stage = "done" /\ egCall[c].kind = "account" /\ egCall[c].answer # Unavailable
            => \E b \in egCall[c].seen :
                /\ b.revision = egCall[c].answer.revision
                /\ (b.node = Global) = (egCall[c].answer.mode = Global)
                /\ b.node = egCall[c].answer.route.node

(* A route through a node is answered only after the runtime had applied   *)
(* exactly that route - this binding revision on this node revision        *)
(* (appliedRouteResolution): the sidecar is never given credentials the    *)
(* tunnel does not know yet.                                               *)
AnsweredRoutesApplied ==
    \A c \in EgCalls :
        egCall[c].stage = "done" /\ egCall[c].answer.mode = "account"
            => egCall[c].answer.route \in applied

(* A delayed registration fails rather than going global (migration 0039,  *)
(* egressRegistrationResolution): an onboarding started with a node is     *)
(* only ever answered with the global exit when the account itself has     *)
(* been bound to it, also after the node was deleted.                      *)
DelayedRegistrationNotGlobal ==
    \A c \in EgCalls :
        egCall[c].stage = "done" /\ egCall[c].intent # "none" /\ egCall[c].answer.mode = Global
            => chosenNode[egCall[c].intent] = Global \/ \E b \in egCall[c].seen : b.node = Global

(* No answer sends an account where nobody decided, or before the tunnel   *)
(* is there: ResolvedAsBound, AnsweredRoutesApplied and                    *)
(* DelayedRegistrationNotGlobal.                                           *)
AnswersFollowDecisions == ResolvedAsBound /\ AnsweredRoutesApplied /\ DelayedRegistrationNotGlobal

=============================================================================
