----------------------------- MODULE OIDCFlows ------------------------------
(***************************************************************************)
(* Sign-in, linking and re-verification through the account centre: the    *)
(* bounded in-memory store of browser transactions, their lifecycle locks, *)
(* the handlers that take a transaction, talk to the provider and finish   *)
(* it, and the cancellations by another tab of the same browser.           *)
(*                                                                         *)
(* One browser with several tabs.  jar is what the browser holds; the      *)
(* headers of a response are on the wire until the browser applies them,   *)
(* in any order.  A handler that has taken a transaction waits for the     *)
(* provider without a lock; everything it does afterwards is one step,     *)
(* because it holds the transaction's lifecycle lock through the database  *)
(* write and the response.                                                 *)
(***************************************************************************)
EXTENDS Clock, FiniteSets, Sequences

CONSTANTS
    MaxFlows,           \* bound on transactions ever begun
    Capacity,           \* maxOIDCFlows
    FlowTTL,            \* oidcFlowTTL
    VerificationAge,    \* oidcVerificationAge
    MaxLogins,          \* bound on sessions ever made
    FlowHorizon         \* bound on the clock

ASSUME OIDCFlowsAssumption ==
    {MaxFlows, Capacity, FlowTTL, VerificationAge} \subseteq Nat \ {0}

VARIABLES
    flow,       \* the transactions begun, in order; the browser cookie of one is its number
    login,      \* the sessions made: [live, verified, by]
    jar,        \* the browser's cookies: [oidc, session], 0 for none
    wire,       \* response headers under way
    linked      \* the user has an external identity

oidcVars == <<flow, login, jar, wire, linked>>

Keep == -1
Headers(oidc, session) == [oidc |-> oidc, session |-> session]

OIDCInit ==
    /\ flow = <<>>
    /\ login = <<>>
    /\ jar = Headers(0, 0)
    /\ wire = {}
    /\ linked \in BOOLEAN

-----------------------------------------------------------------------------
(* The store of transactions.                                              *)

flowActive(f) == ~f.cancelled /\ f.expires > now

Present(fs) == {i \in DOMAIN fs : fs[i].present}

Pruned(fs) == [i \in DOMAIN fs |-> [fs[i] EXCEPT !.present = @ /\ fs[i].retain > now]]

RoomFor(fs) == Cardinality(Present(fs)) < Capacity

put(fs, f) == Append(Pruned(fs), f)

NewFlow(kind, session, until) ==
    [kind |-> kind, step |-> "open", consumed |-> FALSE, cancelled |-> FALSE, present |-> TRUE,
     began |-> now, expires |-> now + FlowTTL, retain |-> now + FlowTTL,
     session |-> session, until |-> until, proved |-> Never, asked |-> 0,
     issued |-> 0, issues |-> 0, verified |-> Never]

TakeAgain(i) == flow[i].present /\ flowActive(flow[i]) /\ jar.oidc = i

\* take: the transaction of this browser, once.
take(i) == flow[i].present /\ flowActive(flow[i]) /\ jar.oidc = i /\ ~flow[i].consumed

\* What the sessions are once the effects of cancelled transactions are
\* cleared: an issued session is revoked, and a proof is withdrawn where it
\* is still the one the transaction gave.
clearOIDCEffects(ls, ids) ==
    [s \in DOMAIN ls |->
        IF \E i \in ids : flow[i].issued = s THEN [ls[s] EXCEPT !.live = FALSE]
        ELSE IF \E i \in ids : flow[i].issued = 0 /\ flow[i].verified # Never
                               /\ flow[i].session = s /\ ls[s].verified = flow[i].verified
             THEN [ls[s] EXCEPT !.verified = Never, !.by = 0]
             ELSE ls[s]]

Cancelled(fs, ids) == [i \in DOMAIN fs |-> [fs[i] EXCEPT !.cancelled = @ \/ i \in ids]]

\* discardBrowser: the retained transactions of the cookie a request carries.
discardBrowser == {i \in DOMAIN flow : flow[i].present /\ i = jar.oidc}

\* cancelSessionReauthentication
SessionReauthentications(s) ==
    {i \in DOMAIN flow : /\ flow[i].present /\ flow[i].retain > now
                         /\ flow[i].kind = "reauth" /\ s # 0 /\ flow[i].session = s}

-----------------------------------------------------------------------------
(* Sessions, as far as these handlers see them.                            *)

LoggedIn(s) == s # 0 /\ login[s].live

\* oidcRecent
ProofRecent(s) == login[s].verified # Never /\ login[s].verified + VerificationAge > now

NewLogin(verified, by) == [live |-> TRUE, verified |-> verified, by |-> by]

Reply(h) == wire' = wire \cup {h}

\* Local login: setSessionCookie cancels what the browser had under way.
LocalLogin ==
    LET ids == discardBrowser \cup SessionReauthentications(IF LoggedIn(jar.session) THEN jar.session ELSE 0) IN
    /\ Len(login) < MaxLogins
    /\ flow' = Cancelled(flow, ids)
    /\ login' = Append(clearOIDCEffects(login, ids), NewLogin(Never, 0))
    /\ Reply(Headers(Keep, Len(login) + 1))
    /\ UNCHANGED <<jar, linked>>

Logout ==
    LET ids == discardBrowser \cup SessionReauthentications(jar.session) IN
    /\ LoggedIn(jar.session)
    /\ flow' = Cancelled(flow, ids)
    /\ login' = [clearOIDCEffects(login, ids) EXCEPT ![jar.session].live = FALSE]
    /\ Reply(Headers(Keep, 0))
    /\ UNCHANGED <<jar, linked>>

\* Password or Passkey re-verification of the browser's session.
LocalVerification ==
    /\ LoggedIn(jar.session) /\ login[jar.session].verified < now
    /\ login' = [login EXCEPT ![jar.session].verified = now, ![jar.session].by = 0]
    /\ UNCHANGED <<flow, jar, wire, linked>>

Deliver(h) ==
    /\ h \in wire
    /\ wire' = wire \ {h}
    /\ jar' = Headers(IF h.oidc = Keep THEN jar.oidc ELSE h.oidc,
                      IF h.session = Keep THEN jar.session ELSE h.session)
    /\ UNCHANGED <<flow, login, linked>>

-----------------------------------------------------------------------------
(* Beginning a transaction.                                                *)

\* beginOIDC: the previous transaction of the browser is cancelled, a new one
\* put; a provider that is unavailable leaves it cancelled.
beginOIDC(f, available) ==
    LET before == Cancelled(flow, discardBrowser) IN
    /\ Len(flow) < MaxFlows
    /\ login' = clearOIDCEffects(login, discardBrowser)
    /\ IF RoomFor(Pruned(before))
       THEN /\ flow' = put(before, [f EXCEPT !.cancelled = ~available])
            /\ wire' = IF available THEN wire \cup {Headers(Len(flow) + 1, Keep)} ELSE wire
       ELSE flow' = Pruned(before) /\ UNCHANGED wire
    /\ UNCHANGED <<jar, linked>>

beginOIDCLogin(available) ==
    /\ ~LoggedIn(jar.session)
    /\ beginOIDC(NewFlow("login", 0, Never), available)

beginIdentityLink(available) ==
    /\ LoggedIn(jar.session) /\ ProofRecent(jar.session) /\ ~linked
    /\ beginOIDC(NewFlow("link", jar.session, login[jar.session].verified + VerificationAge), available)

beginOIDCReauthentication(available) ==
    /\ LoggedIn(jar.session) /\ linked
    /\ beginOIDC(NewFlow("reauth", jar.session, Never), available)

-----------------------------------------------------------------------------
(* Finishing it.                                                           *)

\* oidcOriginalSession and oidcReauthenticationSession, for a request that
\* carries the session cookie s.
OriginalSession(f, s) ==
    CASE f.kind \in {"login", "register"} -> ~LoggedIn(s)
      [] f.kind = "reauth"                -> LoggedIn(s) /\ s = f.session /\ linked
      [] OTHER                            -> LoggedIn(s) /\ s = f.session /\ ProofRecent(s) /\ f.until > now

\* completeOIDC up to the exchange: whatever comes next, the authorization
\* state is used up.
completeOIDC(i) ==
    /\ flow[i].kind \in {"login", "link", "reauth"} /\ take(i)
    /\ flow' = [flow EXCEPT ![i].consumed = TRUE, ![i].asked = jar.session,
                            ![i].step = IF OriginalSession(flow[i], jar.session) THEN "exchange" ELSE "done"]
    /\ UNCHANGED <<login, jar, wire, linked>>

Exchange(i) ==
    /\ flow[i].step = "exchange"
    /\ \/ flow' = [flow EXCEPT ![i].step = "exchanged", ![i].proved = now]
       \/ flow' = [flow EXCEPT ![i].step = "done", ![i].asked = 0]
    /\ UNCHANGED <<login, jar, wire, linked>>

\* The check under the lifecycle lock.
StillWanted(i) == flowActive(flow[i]) /\ OriginalSession(flow[i], flow[i].asked)

Reject(i) ==
    /\ flow' = [flow EXCEPT ![i].step = "done", ![i].proved = Never, ![i].asked = 0]
    /\ UNCHANGED <<login, jar, wire, linked>>

\* confirmation: a new key for the next request, the same lifecycle and end.
confirmation(f) == [f EXCEPT !.consumed = FALSE, !.step = "confirm", !.asked = 0]

\* finishOIDCLogin.  A browser that has gone away, or a transaction that ended
\* while the session was made, has it revoked at once.
finishOIDCLogin(i, arrived) ==
    LET s == Len(login) + 1 IN
    /\ Len(login) < MaxLogins
    /\ login' = Append(login, [NewLogin(flow[i].proved, i) EXCEPT !.live = arrived])
    /\ flow' = [flow EXCEPT ![i].issued = s, ![i].issues = @ + 1, ![i].step = "done", ![i].cancelled = ~arrived,
                            ![i].asked = 0]
    /\ wire' = IF arrived THEN wire \cup {Headers(0, s)} ELSE wire

retainVerificationCancellation(f) ==
    IF f.present /\ f.proved + VerificationAge > f.retain THEN f.proved + VerificationAge ELSE f.retain

\* completeOIDCReauthentication; a later proof of the session refuses it.
completeOIDCReauthentication(i, arrived) ==
    LET f == flow[i]  s == f.session IN
    /\ login[s].verified < f.proved /\ f.proved + VerificationAge > now
    /\ login' = IF arrived THEN [login EXCEPT ![s].verified = f.proved, ![s].by = i]
                ELSE [login EXCEPT ![s].verified = Never, ![s].by = 0]
    /\ flow' = [flow EXCEPT ![i].verified = f.proved, ![i].step = "done", ![i].cancelled = ~arrived,
                            ![i].retain = retainVerificationCancellation(f), ![i].asked = 0]
    /\ wire' = IF arrived THEN wire \cup {Headers(0, Keep)} ELSE wire

FinishExchange(i) ==
    LET f == flow[i] IN
    /\ f.step = "exchanged"
    /\ \/ ~StillWanted(i) /\ Reject(i)
       \/ /\ StillWanted(i) /\ f.kind = "login" /\ linked
          /\ \E arrived \in BOOLEAN : finishOIDCLogin(i, arrived)
          /\ UNCHANGED <<jar, linked>>
       \/ /\ StillWanted(i) /\ (f.kind = "link" \/ (f.kind = "login" /\ ~linked)) /\ f.present
          /\ flow' = [flow EXCEPT ![i] = [confirmation(f) EXCEPT !.kind = IF f.kind = "link" THEN "confirm" ELSE "register"]]
          /\ UNCHANGED <<login, jar, wire, linked>>
       \/ /\ StillWanted(i) /\ f.kind = "reauth"
          /\ \E arrived \in BOOLEAN : completeOIDCReauthentication(i, arrived)
          /\ UNCHANGED <<jar, linked>>
       \/ /\ StillWanted(i) /\ f.kind = "reauth"
          /\ login[f.session].verified >= f.proved \/ f.proved + VerificationAge <= now
          /\ Reject(i)

\* registerOIDC, confirmIdentityLink and the two cancellations take the
\* rotated key first and the lifecycle lock afterwards.
takeConfirmation(i) ==
    /\ flow[i].kind \in {"register", "confirm"} /\ take(i)
    /\ flow[i].kind = "confirm" => LoggedIn(jar.session) /\ jar.session = flow[i].session
    /\ flow' = [flow EXCEPT ![i].consumed = TRUE, ![i].asked = jar.session, ![i].step = "confirming"]
    /\ UNCHANGED <<login, jar, wire, linked>>

registerOIDC(i) ==
    /\ flow[i].step = "confirming" /\ flow[i].kind = "register"
    /\ \/ ~StillWanted(i) /\ Reject(i)
       \/ /\ StillWanted(i) /\ ~linked
          /\ \E arrived \in BOOLEAN : finishOIDCLogin(i, arrived)
          /\ linked' = TRUE
          /\ UNCHANGED jar
       \/ linked /\ Reject(i)
       \/ /\ StillWanted(i) /\ flow[i].present          \* retryOIDCRegistration
          /\ flow' = [flow EXCEPT ![i] = confirmation(@)]
          /\ UNCHANGED <<login, jar, wire, linked>>

confirmIdentityLink(i) ==
    /\ flow[i].step = "confirming" /\ flow[i].kind = "confirm"
    /\ \/ (~StillWanted(i) \/ linked) /\ Reject(i)
       \/ /\ StillWanted(i) /\ ~linked
          /\ linked' = TRUE
          /\ flow' = [flow EXCEPT ![i].step = "done"]
          /\ Reply(Headers(0, Keep))
          /\ UNCHANGED <<login, jar>>

\* cancelIdentityLink and cancelOIDCRegistration.
cancelConfirmation(i) ==
    /\ flow[i].step = "confirming" /\ flowActive(flow[i])
    /\ flow' = [flow EXCEPT ![i].step = "done", ![i].cancelled = TRUE]
    /\ Reply(Headers(0, Keep))
    /\ UNCHANGED <<login, jar, linked>>

\* cancelOIDC: by the cookie of the transaction or, once that is cleared, by
\* the very session it issued or verified.
cancelOIDC(i) ==
    LET f == flow[i] IN
    /\ f.present /\ f.retain > now
    /\ \/ jar.oidc = i
       \/ LoggedIn(jar.session) /\ f.issued = jar.session
       \/ LoggedIn(jar.session) /\ f.kind = "reauth" /\ f.session = jar.session
    /\ flow' = Cancelled(flow, {i})
    /\ login' = clearOIDCEffects(login, {i})
    /\ UNCHANGED <<jar, wire, linked>>

\* unlinkIdentity: no session made through the identity and no proof is left,
\* and the transaction of the browser is cancelled.
unlinkIdentity ==
    /\ linked /\ LoggedIn(jar.session) /\ ProofRecent(jar.session)
    /\ linked' = FALSE
    /\ flow' = Cancelled(flow, discardBrowser)
    /\ login' = [s \in DOMAIN login |->
                    [login[s] EXCEPT !.live = @ /\ ~\E i \in DOMAIN flow : flow[i].issued = s,
                                     !.verified = Never, !.by = 0]]
    /\ Reply(Headers(0, IF \E i \in DOMAIN flow : flow[i].issued = jar.session THEN 0 ELSE Keep))
    /\ UNCHANGED jar

-----------------------------------------------------------------------------

FlowTick == now < FlowHorizon /\ Advance /\ UNCHANGED oidcVars

OIDCNext ==
    \/ /\ \/ LocalLogin \/ Logout \/ LocalVerification \/ unlinkIdentity
          \/ \E h \in wire : Deliver(h)
          \/ \E available \in BOOLEAN :
                beginOIDCLogin(available) \/ beginIdentityLink(available) \/ beginOIDCReauthentication(available)
          \/ \E i \in DOMAIN flow :
                \/ completeOIDC(i) \/ Exchange(i) \/ FinishExchange(i) \/ takeConfirmation(i)
                \/ registerOIDC(i) \/ confirmIdentityLink(i) \/ cancelConfirmation(i) \/ cancelOIDC(i)
       /\ UNCHANGED now
    \/ FlowTick

OIDCSpec == now = 0 /\ OIDCInit /\ [][OIDCNext]_<<now, oidcVars>>

-----------------------------------------------------------------------------
(* Properties.                                                             *)

\* Once another tab has signed in, signed out, begun again or cancelled, the
\* cancelled transaction leaves nothing: no live session and no proof, even
\* if its provider answers afterwards or its response is still on the wire.
CancelledLeavesNothing ==
    \A i \in DOMAIN flow : flow[i].cancelled =>
        /\ flow[i].issued # 0 => ~login[flow[i].issued].live
        /\ \A s \in DOMAIN login : login[s].live => login[s].by # i

=============================================================================
