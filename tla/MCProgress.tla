----------------------------- MODULE MCProgress -----------------------------
(***************************************************************************)
(* Small instances of the parts in which something must eventually happen: *)
(* subscriptions that run out, cleanup jobs, identification runs and       *)
(* streamed answers.  They share no state but the clock, so a behaviour    *)
(* follows one of them, chosen at the start, while the others rest; only   *)
(* the fairness of that one is assumed.                                    *)
(***************************************************************************)
EXTENDS MCSubscriptions, Cleanup, Identification, GeminiStream

VARIABLE component

\* everything of Subscriptions but the clock
accountBookVars == <<cashVars, plan, sub, ents, periods, config, quote>>

progressVars == <<component, allSubVars, cleanVars, identVars, streamVars>>

Init ==
    /\ component \in {"subscriptions", "cleanup", "identification", "stream"}
    /\ \/ component = "subscriptions"
       \/ component # "subscriptions" /\ plan = [p \in Plans |-> NoPlanRow]
    /\ FundedInit /\ CleanInit /\ IdentInit /\ StreamInit

Next ==
    /\ UNCHANGED component
    /\ \/ /\ component = "subscriptions" /\ SubscriptionsNext
          /\ UNCHANGED <<cleanVars, identVars, streamVars>>
       \/ /\ component = "cleanup" /\ CleanNext
          /\ UNCHANGED <<accountBookVars, identVars, streamVars>>
       \/ /\ component = "identification" /\ IdentNext
          /\ UNCHANGED <<accountBookVars, cleanVars, streamVars>>
       \/ /\ component = "stream" /\ StreamNext
          /\ UNCHANGED <<allSubVars, cleanVars, identVars>>

\* The fairness of each component, in the behaviours that follow it
\* (SubscriptionsFairness, CleanFairness, IdentFairness, StreamFairness).
Fairness ==
    /\ WF_allSubVars(component = "subscriptions" /\ Tick)
    /\ \A u \in Users :
        WF_allSubVars(component = "subscriptions" /\ \E at \in Instants : ExpireBillingSubscriptions(u, at))
    /\ WF_<<now, cleanVars>>(component = "cleanup" /\ RunCleanupBatch /\ UNCHANGED now)
    /\ WF_<<now, identVars>>(component = "identification" /\ RecoverInterruptedRuns /\ UNCHANGED now)
    /\ WF_<<now, identVars>>(component = "identification" /\ IdentTick)
    /\ WF_streamVars(component = "stream" /\ AgentStep)
    /\ WF_streamVars(component = "stream" /\ ReadEnd)
    /\ WF_streamVars(component = "stream" /\ EmitterStep)
    /\ WF_streamVars(component = "stream" /\ GatewayStep)

Spec == Init /\ [][Next]_progressVars /\ Fairness

-----------------------------------------------------------------------------
\* A stream that is followed comes to an end for all three parties, whoever
\* fails or leaves (RunStream, streamMessages and the gateway's forwarder).
EveryStreamEnds == component = "stream" ~> StreamOver

=============================================================================
