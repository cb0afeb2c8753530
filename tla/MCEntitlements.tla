--------------------------- MODULE MCEntitlements ---------------------------
(***************************************************************************)
(* A small instance of subscriptions and one of group allowances.  They    *)
(* share no state but the clock, so a behaviour follows one of them,       *)
(* chosen at the start, while the other rests.                             *)
(***************************************************************************)
EXTENDS MCSubscriptions, MCGroups

CONSTANTS o1, o2, o3

VARIABLE component

\* Group 2 already has two-day periods without an end.
HistoryTerms == {t \in EditedTerms : t.len = 2 <=> t.count = 3}

\* Operations are interchangeable, so they are used in order.
Claimed(o) == operation[o] # NoOperation \/ o \in tombstone \/ answered[o] # {}
Interchangeable ==
    /\ Claimed(o2) => Claimed(o1)
    /\ Claimed(o3) => Claimed(o2)

Init ==
    /\ component \in {"subscriptions", "groups"}
    /\ \/ component = "subscriptions"
       \/ component # "subscriptions" /\ plan = [p \in Plans |-> NoPlanRow]
    /\ FundedInit /\ JoinedInit

Next ==
    /\ \/ component = "subscriptions" /\ SubscriptionsNext /\ UNCHANGED groupVars
       \/ component = "groups" /\ GroupsNext /\ UNCHANGED <<cashVars, plan, sub, ents, periods, config, quote>>
    /\ UNCHANGED component

Spec == Init /\ [][Next]_<<component, allSubVars, groupVars>>

=============================================================================
