----------------------------- MODULE MCUpstream -----------------------------
(***************************************************************************)
(* Small instances of the parts that choose and reach upstream accounts.   *)
(* They share no state but the clock, so a behaviour follows one of them,  *)
(* chosen at the start, while the others rest.                             *)
(***************************************************************************)
EXTENDS UpstreamDirectory, UpstreamAccess, Allocation, Egress,
        EgressRuntime, Bridge, Keyring, TLC

CONSTANTS a1, a2, b1, b2, b3, e1, e2, talk

VARIABLE component

MCGroupOrder == <<"g1", "g2">>
MCPorts == 1..3

\* Two calls of one conversation and one call to a named account.
MCTalkOf == b1 :> talk @@ b2 :> talk @@ b3 :> NoTalk
MCDirectOf == b1 :> NoAccount @@ b2 :> NoAccount @@ b3 :> a1
MCLayersOf == b1 :> <<{a1}, {a1, a2}>> @@ b2 :> <<{a1}, {a1, a2}>> @@ b3 :> <<{a1, a2}>>

\* Calls are interchangeable, so the second one starts after the first; two
\* calls overlap up to the second version of the egress state, and run one after
\* the other from there on.
Interchangeable ==
    /\ egCall[e1].stage = "idle" => egCall[e2].stage = "idle"
    /\ egVersion <= 2 \/ \E c \in EgCalls : egCall[c].stage = "idle"
    /\ brCall[b1] = Waiting => brCall[b2] = Waiting

upstreamVars == <<now, directoryVars, accessVars, allocationVars, egressVars,
                  runtimeVars, bridgeVars, keyringVars>>

\* The parts that start in more than one state start in one of them when they
\* rest.
Rest ==
    /\ \/ component = "access"
       \/ component # "access" /\ known = {} /\ image = "none"
    /\ \/ component = "allocation"
       \/ component # "allocation" /\ weight = [c \in Candidates |-> 0] /\ cost = weight
    /\ \/ component = "egress"
       \/ component # "egress" /\ egNode = [n \in EgNodes |-> 0]
    /\ \/ component = "runtime"
       \/ component # "runtime" /\ content = [v \in 1..MaxSnapshot |-> {}]

Init ==
    /\ component \in {"directory", "access", "allocation", "egress",
                      "runtime", "bridge", "keyring"}
    /\ Rest
    /\ now = 0
    /\ DirectoryInit /\ AccessInit /\ AllocationInit /\ EgressInit
    /\ RuntimeInit /\ BridgeInit /\ KeyringInit

Next ==
    /\ UNCHANGED component
    /\ \/ /\ component = "directory" /\ DirectoryNext
          /\ UNCHANGED <<accessVars, allocationVars, egressVars, runtimeVars, bridgeVars, keyringVars>>
       \/ /\ component = "access" /\ AccessNext
          /\ UNCHANGED <<now, directoryVars, allocationVars, egressVars, runtimeVars, bridgeVars, keyringVars>>
       \/ /\ component = "allocation" /\ AllocationNext
          /\ UNCHANGED <<now, directoryVars, accessVars, egressVars, runtimeVars, bridgeVars, keyringVars>>
       \/ /\ component = "egress" /\ EgressNext
          /\ UNCHANGED <<now, directoryVars, accessVars, allocationVars, runtimeVars, bridgeVars, keyringVars>>
       \/ /\ component = "runtime" /\ RuntimeNext
          /\ UNCHANGED <<now, directoryVars, accessVars, allocationVars, egressVars, bridgeVars, keyringVars>>
       \/ /\ component = "bridge" /\ BridgeNext
          /\ UNCHANGED <<directoryVars, accessVars, allocationVars, egressVars, runtimeVars, keyringVars>>
       \/ /\ component = "keyring" /\ KeyringNext
          /\ UNCHANGED <<now, directoryVars, accessVars, allocationVars, egressVars, runtimeVars, bridgeVars>>

Spec == Init /\ [][Next]_<<component, upstreamVars>>

=============================================================================
