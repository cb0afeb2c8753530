------------------------------ MODULE MCIdentity ------------------------------
(***************************************************************************)
(* Small instances of the parts that let a caller in: sessions, sign-ins   *)
(* and ceremonies, API keys, invitations and the request limits.  They     *)
(* share no state but the clock, so a behaviour follows one of them,       *)
(* chosen at the start, while the others rest.                             *)
(***************************************************************************)
EXTENDS Sessions, OIDCFlows, Ceremonies, APIKeys, Invitations, Limiter, TLC

CONSTANTS r1, r2, r3, r4, kA, kB, uA    \* requests, keys and the user of Limiter

VARIABLE component

\* Three requests of one key and one of another, all of one user.
MCKeyOf == [r \in Requests |-> IF r = r4 THEN kB ELSE kA]
MCUserOf == [r \in Requests |-> uA]

\* Invitations: one use with and without approval, a group for two.
Terms(kind, max, approval) == [kind |-> kind, max |-> max, approval |-> approval, life |-> 1]
MCInviteTerms ==
    {Terms("member", 1, TRUE), Terms("member", 1, FALSE), Terms("owner_bootstrap", 1, FALSE),
     Terms("group", 1, FALSE), Terms("group", 2, TRUE)}

\* Requests of Limiter with the same key are interchangeable, so they are used
\* in order.
Interchangeable ==
    /\ request[r1].step = "new" => request[r2].step = "new"
    /\ request[r2].step = "new" => request[r3].step = "new"

identityVars == <<now, sessionVars, oidcVars, ceremonyVars, keyVars, inviteVars, limiterVars>>

\* The parts that start in more than one state start in one of them when they
\* rest.
Rest ==
    /\ \/ component = "sessions"
       \/ component # "sessions" /\ unused = {}
    /\ \/ component = "oidc"
       \/ component # "oidc" /\ linked = FALSE

Init ==
    /\ component \in {"sessions", "oidc", "ceremonies", "keys", "invitations", "limiter"}
    /\ Rest
    /\ now = 0
    /\ SessionsInit /\ OIDCInit /\ CeremoniesInit /\ KeysInit /\ InvitationsInit /\ LimiterInit

Next ==
    /\ \/ component = "sessions" /\ SessionsNext
       \/ component = "oidc" /\ OIDCNext
       \/ component = "ceremonies" /\ CeremoniesNext
       \/ component = "keys" /\ KeysNext
       \/ component = "invitations" /\ InvitationsNext
       \/ component = "limiter" /\ LimiterNext
    /\ component # "sessions" => UNCHANGED sessionVars
    /\ component # "oidc" => UNCHANGED oidcVars
    /\ component # "ceremonies" => UNCHANGED ceremonyVars
    /\ component # "keys" => UNCHANGED keyVars
    /\ component # "invitations" => UNCHANGED inviteVars
    /\ component # "limiter" => UNCHANGED limiterVars
    /\ UNCHANGED component

Spec == Init /\ [][Next]_<<component, identityVars>>

=============================================================================
