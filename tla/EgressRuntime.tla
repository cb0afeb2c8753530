----------------------------- MODULE EgressRuntime -----------------------------
(***************************************************************************)
(* The account-egress process: it turns a snapshot of nodes and routes     *)
(* into a configuration of the local Mihomo proxy (one loopback listener   *)
(* per node revision), publishes the routes once the new listeners answer, *)
(* and forwards tunnels to the listener of their route's node.             *)
(*                                                                         *)
(* The runtime's mutex makes an installation, a pruning pass and the       *)
(* admission of a tunnel atomic; a tunnel dials and copies outside it.     *)
(* Mihomo is external: a reload that is answered with success keeps the    *)
(* unchanged listeners and closes the removed ones, but a new listener may *)
(* silently fail; a reload that is answered with an error or a timeout may *)
(* have happened or not.                                                   *)
(***************************************************************************)
EXTENDS Integers, FiniteSets

CONSTANTS NodeKeys,     \* node revisions (nodeKey: identifier and revision)
          MaxSnapshot,  \* bound: versions of the gateway's snapshot
          Ports,        \* local listener ports, a range of numbers
          Tunnels,      \* tunnels and connectivity probes
          ProbeSlots    \* probes that may run at a time

ASSUME RuntimeAssumption ==
    /\ MaxSnapshot \in Nat \ {0}
    /\ Ports \subseteq Nat \ {0}
    /\ ProbeSlots \in Nat

VARIABLES
    content,       \* the snapshot of each version: the node revisions it lists
    appliedVersion, rtReady,
    nodes,         \* [NodeKeys -> port], 0 when the runtime does not know it
    desired,       \* node revisions of the installed snapshot
    routes,        \* node revisions a published route leads to
    mihomo,        \* Mihomo's configuration, [NodeKeys -> port], 0 for none
    up,            \* node revisions whose listener is open
    tunnel,        \* [Tunnels -> [stage, kind, node, port]]
    shaken         \* history: a rollback of this instance has failed

runtimeVars == <<content, appliedVersion, rtReady, nodes, desired, routes, mihomo, up, tunnel, shaken>>
publishedVars == <<appliedVersion, rtReady, desired, routes>>

-----------------------------------------------------------------------------
NoPort == 0
NoTunnel == [stage |-> "closed", kind |-> "none", node |-> "none", port |-> NoPort]
Nothing == [k \in NodeKeys |-> NoPort]
Known(config) == {k \in NodeKeys : config[k] # NoPort}
Active(k) == \E t \in Tunnels : tunnel[t].stage # "closed" /\ tunnel[t].node = k
Probing == {t \in Tunnels : tunnel[t].stage # "closed" /\ tunnel[t].kind = "probe"}

\* A node revision that left the gateway's snapshot never returns: the node was
\* deleted, or saved under a newer revision.  Each listed revision has a route.
RuntimeInit ==
    /\ content \in [1..MaxSnapshot -> SUBSET NodeKeys]
    /\ \A i, j, l \in 1..MaxSnapshot : i < j /\ j < l =>
        content[i] \intersect content[l] \subseteq content[j]
    /\ appliedVersion = 0 /\ rtReady = FALSE
    /\ nodes = Nothing /\ desired = {} /\ routes = {}
    /\ mihomo = Nothing /\ up = {}
    /\ tunnel = [t \in Tunnels |-> NoTunnel]
    /\ shaken = FALSE

-----------------------------------------------------------------------------
(* Mihomo (external): what a reload from configuration old with listeners  *)
(* open may leave                                                          *)

Reloaded(old, open, config) ==
    LET same == {k \in open : config[k] # NoPort /\ config[k] = old[k]}
    IN  {[config |-> config, up |-> same \union more] : more \in SUBSET (Known(config) \ same)}

\* ... when the answer was an error
Doubtful(old, open, config) ==
    {[config |-> old, up |-> open]} \union Reloaded(old, open, config)

-----------------------------------------------------------------------------
(* Installation                                                            *)

\* the nodes of open tunnels stay, listed nodes keep their port or get a fresh one
Candidate(v, fresh) ==
    [k \in NodeKeys |-> IF nodes[k] # NoPort /\ (Active(k) \/ k \in content[v]) THEN nodes[k]
                        ELSE IF k \in content[v] THEN fresh[k] ELSE NoPort]

New(v) == {k \in content[v] : nodes[k] = NoPort}

\* mutant: only the ports that stay in use are avoided
PortsFreeOfActive(v) == Ports \ {nodes[k] : k \in {n \in NodeKeys : Active(n)}}

\* the ports no node the runtime knows holds, departing ones included
FreePorts(v) == Ports \ {nodes[k] : k \in NodeKeys}

\* the lowest free ports, one for each new node, in the snapshot's order
Assignments(v) ==
    {f \in [New(v) -> FreePorts(v)] :
        /\ \A k, l \in New(v) : k # l => f[k] # f[l]
        /\ \A k \in New(v), p \in FreePorts(v) : p < f[k] => \E l \in New(v) : f[l] = p}

\* an older snapshot is refused, and the applied one needs no work
Installable(v) == v > appliedVersion \/ (v = appliedVersion /\ ~rtReady)

install(v, fresh) ==
    /\ Installable(v)
    /\ \E m \in Reloaded(mihomo, up, Candidate(v, fresh)) :
        /\ New(v) \subseteq m.up
        /\ mihomo' = m.config /\ up' = m.up
    /\ nodes' = Candidate(v, fresh)
    /\ desired' = content[v] /\ routes' = content[v]
    /\ appliedVersion' = v /\ rtReady' = TRUE
    /\ UNCHANGED <<content, tunnel, shaken>>

\* the reload failed or a new listener does not answer; the previous
\* configuration is loaded again and all its listeners answer
RolledBack(v, fresh) ==
    /\ Installable(v)
    /\ \E m \in Doubtful(mihomo, up, Candidate(v, fresh)) :
        \E n \in Reloaded(m.config, m.up, nodes) :
            /\ Known(nodes) \subseteq n.up
            /\ mihomo' = n.config /\ up' = n.up
    /\ UNCHANGED <<content, nodes, desired, routes, appliedVersion, rtReady, tunnel, shaken>>

\* ... or they do not
RollbackFailed(v, fresh) ==
    /\ Installable(v)
    /\ \E m \in Doubtful(mihomo, up, Candidate(v, fresh)) :
        \E n \in Doubtful(m.config, m.up, nodes) :
            mihomo' = n.config /\ up' = n.up
    /\ rtReady' = FALSE
    /\ shaken' = TRUE
    /\ UNCHANGED <<content, nodes, desired, routes, appliedVersion, tunnel>>

-----------------------------------------------------------------------------
(* Pruning: every five seconds, while ready                                *)

Keep == [k \in NodeKeys |-> IF k \in desired \/ Active(k) THEN nodes[k] ELSE NoPort]

prune ==
    /\ rtReady
    /\ Keep # nodes
    /\ \/ /\ \E m \in Reloaded(mihomo, up, Keep) : mihomo' = m.config /\ up' = m.up
          /\ nodes' = Keep
       \/ /\ \E m \in Doubtful(mihomo, up, Keep) : mihomo' = m.config /\ up' = m.up
          /\ UNCHANGED nodes
    /\ UNCHANGED <<content, publishedVars, tunnel, shaken>>

-----------------------------------------------------------------------------
(* Tunnels and probes: admitted under the mutex, dialled after it          *)

Holds(t, kind, k) ==
    tunnel' = [tunnel EXCEPT ![t] = [stage |-> "dialling", kind |-> kind, node |-> k, port |-> nodes[k]]]

ServeHTTP(t, k) ==
    /\ tunnel[t].stage = "closed"
    /\ rtReady /\ k \in routes
    /\ Holds(t, "tunnel", k)
    /\ UNCHANGED <<content, publishedVars, nodes, mihomo, up, shaken>>

\* a connectivity test of a desired node
probeNode(t, k) ==
    /\ tunnel[t].stage = "closed"
    /\ Cardinality(Probing) < ProbeSlots
    /\ rtReady /\ nodes[k] # NoPort /\ k \in desired
    /\ Holds(t, "probe", k)
    /\ UNCHANGED <<content, publishedVars, nodes, mihomo, up, shaken>>

\* the dial reaches the listener on the port that was read
Dialled(t) ==
    /\ tunnel[t].stage = "dialling"
    /\ \E k \in up : mihomo[k] = tunnel[t].port
    /\ tunnel' = [tunnel EXCEPT ![t].stage = "open"]
    /\ UNCHANGED <<content, publishedVars, nodes, mihomo, up, shaken>>

\* the tunnel ends, or could not be dialled
Closed(t) ==
    /\ tunnel[t].stage # "closed"
    /\ tunnel' = [tunnel EXCEPT ![t] = NoTunnel]
    /\ UNCHANGED <<content, publishedVars, nodes, mihomo, up, shaken>>

\* Mihomo exits, and the process with it
Exits ==
    /\ appliedVersion > 0
    /\ appliedVersion' = 0 /\ rtReady' = FALSE
    /\ nodes' = Nothing /\ desired' = {} /\ routes' = {}
    /\ mihomo' = Nothing /\ up' = {}
    /\ tunnel' = [t \in Tunnels |-> NoTunnel]
    /\ shaken' = FALSE
    /\ UNCHANGED content

RuntimeNext ==
    \/ \E v \in 1..MaxSnapshot : \E fresh \in Assignments(v) :
        install(v, fresh) \/ RolledBack(v, fresh) \/ RollbackFailed(v, fresh)
    \/ prune
    \/ \E t \in Tunnels : Dialled(t) \/ Closed(t)
    \/ \E t \in Tunnels, k \in NodeKeys : ServeHTTP(t, k) \/ probeNode(t, k)
    \/ Exits

RuntimeSpec == RuntimeInit /\ [][RuntimeNext]_runtimeVars

-----------------------------------------------------------------------------
(* A tunnel leaves through the node of its route, whatever was installed,  *)
(* rolled back or pruned between its admission and its dial (ServeHTTP     *)
(* reads the port under the mutex and dials after it): the port it holds   *)
(* is never configured for another node.                                   *)
TunnelsReachTheirNode ==
    \A t \in Tunnels : tunnel[t].stage # "closed" =>
        \A k \in NodeKeys : mihomo[k] = tunnel[t].port => k = tunnel[t].node

(* "旧版本在活跃隧道结束前保留" (docs/account-egress.md): the listener of an *)
(* established tunnel stays open through updates, failed updates,          *)
(* rollbacks - also failed ones - and pruning.                             *)
EstablishedTunnelsSurvive ==
    \A t \in Tunnels : tunnel[t].stage = "open" => tunnel[t].node \in up

(* While the runtime reports ready, every published route's node is        *)
(* configured on the port the runtime believes in, and - unless a rollback *)
(* of this instance has failed, after which the old listeners are not      *)
(* verified again - its listener is open.                                  *)
ReadyRoutesServed ==
    rtReady => \A k \in routes :
        /\ mihomo[k] = nodes[k]
        /\ ~shaken => k \in up

(* What the proxy offers is what it can deliver, at every moment of an     *)
(* update or a rollback: TunnelsReachTheirNode, EstablishedTunnelsSurvive  *)
(* and ReadyRoutesServed.                                                  *)
ProxyDelivers == TunnelsReachTheirNode /\ EstablishedTunnelsSurvive /\ ReadyRoutesServed

=============================================================================
