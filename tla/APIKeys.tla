------------------------------ MODULE APIKeys ------------------------------
(***************************************************************************)
(* The API keys of one user, the calls made with them, and the one-time    *)
(* codes that hand a key to the web client.                                *)
(*                                                                         *)
(* Handing over a key takes two requests.  The browser tab of the gateway  *)
(* asks for a code; the web client exchanges the code for the key.  Each   *)
(* request reads session, key and secret in turn, without a transaction    *)
(* around the reads, and each is a visit of a tab here.  The codes live in *)
(* the memory of one process, behind a mutex.                              *)
(***************************************************************************)
EXTENDS Clock, FiniteSets

CONSTANTS
    ApiKeys,            \* keys that may ever be made
    Tabs,               \* requests for or with a code that may be under way
    Calls,              \* calls to the gateway that may be under way
    KeyLife,            \* how long a key is valid: 90 days unless asked otherwise
    HandoffTTL, HandoffCapacity,    \* browserHandoffTTL, browserHandoffCapacity
    MaxCodes,           \* bound on the codes ever issued
    KeyHorizon          \* bound on the clock

ASSUME KeyAssumption == HandoffTTL \in Nat /\ MaxCodes \in Nat

VARIABLES
    apiKey,         \* api_keys: [status, expires], NoKey without a row
    keyHistory,     \* api_key_history: every key ever made
    browser,        \* the session of the tabs: "recent" proof, "live" or "out"
    handoff,        \* browserHandoffStore.entries by code: [key, expires], NoEntry without one
    codes,          \* how many codes were issued
    uses,           \* how often a code was consumed successfully
    visit,          \* what the tabs under way have read
    call            \* the key of the calls under way, and what became of their record

keyVars == <<apiKey, keyHistory, browser, handoff, codes, uses, visit, call>>
handoffVars == <<handoff, codes, uses>>

NoKey == [status |-> "none", expires |-> Never]
NoEntry == [key |-> "none", expires |-> Never]
NoVisit == [step |-> "none"]
NoCall == [key |-> "none", step |-> "none"]
HandoffCodes == 1..MaxCodes

KeysInit ==
    /\ apiKey = [k \in ApiKeys |-> NoKey]
    /\ keyHistory = {}
    /\ browser = "recent"
    /\ handoff = [c \in HandoffCodes |-> NoEntry]
    /\ codes = 0
    /\ uses = [c \in HandoffCodes |-> 0]
    /\ visit = [t \in Tabs |-> NoVisit]
    /\ call = [c \in Calls |-> NoCall]

-----------------------------------------------------------------------------
(* Keys.  Creating, revealing and switching one requires a session with a  *)
(* recent proof.                                                           *)

KeyUsable(k, at) == apiKey[k].status = "active" /\ apiKey[k].expires > at

\* The history row and the key in one transaction.
CreateAPIKey(k, at) ==
    /\ k \notin keyHistory
    /\ keyHistory' = keyHistory \union {k}
    /\ apiKey' = [apiKey EXCEPT ![k] = [status |-> "active", expires |-> at + KeyLife]]
    /\ UNCHANGED <<browser, handoffVars, visit, call>>

\* SetAPIKeyStatus under the key's row lock.
SetAPIKeyStatus(k, status, at) ==
    /\ apiKey[k].status \notin {"none", status}
    /\ status = "active" => apiKey[k].expires > at
    /\ apiKey' = [apiKey EXCEPT ![k].status = status]
    /\ UNCHANGED <<keyHistory, browser, handoffVars, visit, call>>

\* The history row stays.
DeleteAPIKey(k) ==
    /\ apiKey[k] # NoKey
    /\ apiKey' = [apiKey EXCEPT ![k] = NoKey]
    /\ UNCHANGED <<keyHistory, browser, handoffVars, visit, call>>

\* The handlers, behind requireRecentVerification.
createAPIKey(k, at) == browser = "recent" /\ CreateAPIKey(k, at)
setAPIKeyStatus(k, status, at) == browser = "recent" /\ SetAPIKeyStatus(k, status, at)
deleteAPIKey(k) == browser = "recent" /\ DeleteAPIKey(k)

\* The session's proof grows old; the user proves again; the session ends.
SessionTurns(b) ==
    /\ browser # "out" /\ b # browser
    /\ browser' = b
    /\ UNCHANGED <<apiKey, keyHistory, handoffVars, visit, call>>

-----------------------------------------------------------------------------
(* Calls with a key.                                                       *)

\* LookupAPIKey reads key, user and device in one query; the clock is read after it.
requireAPIKey(c, k) ==
    /\ call[c] = NoCall /\ KeyUsable(k, now)
    /\ call' = [call EXCEPT ![c] = [key |-> k, step |-> "serving"]]
    /\ UNCHANGED <<apiKey, keyHistory, browser, handoffVars, visit>>

\* RecordAPIKeyUse after the response: the key may be gone, the device is
\* found through the history.
RecordAPIKeyUse(c) ==
    /\ call[c].step = "serving"
    /\ call' = [call EXCEPT ![c] = IF @.key \in keyHistory THEN NoCall ELSE [@ EXCEPT !.step = "failed"]]
    /\ UNCHANGED <<apiKey, keyHistory, browser, handoffVars, visit>>

-----------------------------------------------------------------------------
(* The store of codes.                                                     *)

Expired(at) == {c \in HandoffCodes : handoff[c] # NoEntry /\ handoff[c].expires <= at}
HandoffsHeld == {c \in HandoffCodes : handoff[c] # NoEntry}

RoomForHandoff(at) == Cardinality(HandoffsHeld \ Expired(at)) < HandoffCapacity

\* issue drops the expired codes even when it then refuses a new one.
issue(k, at) ==
    LET kept == [c \in HandoffCodes |-> IF c \in Expired(at) THEN NoEntry ELSE handoff[c]]
    IN  IF RoomForHandoff(at)
        THEN /\ codes < MaxCodes /\ codes' = codes + 1
             /\ handoff' = [kept EXCEPT ![codes + 1] = [key |-> k, expires |-> at + HandoffTTL]]
             /\ UNCHANGED uses
        ELSE handoff' = kept /\ UNCHANGED <<codes, uses>>

ConsumeKeeping(c, at) ==
    /\ uses' = IF handoff[c].expires > at THEN [uses EXCEPT ![c] = @ + 1] ELSE uses
    /\ UNCHANGED <<handoff, codes>>

\* consume deletes first and looks at the deadline after.
consume(c, at) ==
    /\ handoff' = [handoff EXCEPT ![c] = NoEntry]
    /\ uses' = IF handoff[c].expires > at THEN [uses EXCEPT ![c] = @ + 1] ELSE uses
    /\ UNCHANGED codes

\* A restart of the process empties the store and ends its requests.
RestartHandoffs ==
    /\ handoff # [c \in HandoffCodes |-> NoEntry] \/ visit # [t \in Tabs |-> NoVisit]
    /\ handoff' = [c \in HandoffCodes |-> NoEntry]
    /\ visit' = [t \in Tabs |-> IF visit[t].step = "given" THEN visit[t] ELSE NoVisit]
    /\ UNCHANGED <<apiKey, keyHistory, browser, codes, uses, call>>
-----------------------------------------------------------------------------
(* Visits.                                                                 *)

Visiting(t, step) == visit[t].step = step
Free(t) == visit[t].step \in {"none", "given"}
Leave(t) == visit' = [visit EXCEPT ![t] = NoVisit]
Goes(t, step) == visit' = [visit EXCEPT ![t].step = step]
resourceVars == <<apiKey, keyHistory, browser, call>>

\* createBrowserHandoff reads the clock once, for its checks and for the deadline.
createBrowserHandoff(t, k) ==
    /\ Free(t) /\ browser # "out"
    /\ visit' = [visit EXCEPT ![t] = [step |-> "session", asks |-> TRUE, key |-> k, at |-> now,
                                     out |-> FALSE, gone |-> FALSE]]
    /\ UNCHANGED <<resourceVars, handoffVars>>

\* exchangeBrowserHandoff consumes the code and reads the clock again.
\* out and gone record what was already over when the code was consumed.
exchangeBrowserHandoff(t, c, at) ==
    /\ Free(t) /\ c <= codes
    /\ consume(c, at)
    /\ visit' = [visit EXCEPT ![t] =
                    IF handoff[c].expires > at
                    THEN [step |-> "session", asks |-> FALSE, key |-> handoff[c].key, at |-> now,
                          out |-> browser = "out", gone |-> apiKey[handoff[c].key] = NoKey]
                    ELSE NoVisit]
    /\ UNCHANGED resourceVars

SessionAccepted(asks) == browser = "recent" \/ (~asks /\ browser = "live")

\* browserHandoffKey: session and user, then key and device, then the secret.
ReadSession(t) ==
    /\ Visiting(t, "session")
    /\ IF SessionAccepted(visit[t].asks) THEN Goes(t, "key") ELSE Leave(t)
    /\ UNCHANGED <<resourceVars, handoffVars>>

ReadKey(t) ==
    /\ Visiting(t, "key")
    /\ IF KeyUsable(visit[t].key, visit[t].at) THEN Goes(t, "secret") ELSE Leave(t)
    /\ UNCHANGED <<resourceVars, handoffVars>>

ReadSecret(t) ==
    /\ Visiting(t, "secret")
    /\ IF apiKey[visit[t].key] = NoKey THEN Leave(t) /\ UNCHANGED handoffVars
       ELSE IF visit[t].asks THEN Leave(t) /\ issue(visit[t].key, visit[t].at)
       ELSE Goes(t, "given") /\ UNCHANGED handoffVars
    /\ UNCHANGED resourceVars

-----------------------------------------------------------------------------
(* Specification.                                                          *)

VisitStep(t) ==
    \/ \E k \in ApiKeys : createBrowserHandoff(t, k)
    \/ \E c \in HandoffCodes, at \in Instants : exchangeBrowserHandoff(t, c, at)
    \/ ReadSession(t) \/ ReadKey(t) \/ ReadSecret(t)

KeyStep(k) ==
    \/ \E at \in Instants : createAPIKey(k, at) \/ \E s \in {"active", "disabled"} : setAPIKeyStatus(k, s, at)
    \/ deleteAPIKey(k)
    \/ \E c \in Calls : requireAPIKey(c, k)

KeysTick == now < KeyHorizon /\ now' = now + 1 /\ UNCHANGED keyVars

KeysNext ==
    \/ KeysTick
    \/ /\ UNCHANGED now
       /\ \/ \E k \in ApiKeys : KeyStep(k)
          \/ \E t \in Tabs : VisitStep(t)
          \/ \E c \in Calls : RecordAPIKeyUse(c)
          \/ \E b \in {"recent", "live", "out"} : SessionTurns(b)
          \/ RestartHandoffs

KeysSpec == now = 0 /\ KeysInit /\ [][KeysNext]_<<now, keyVars>>

-----------------------------------------------------------------------------
(* Properties.                                                             *)

\* The codes as one-time tokens.
HandoffToken ==
    [c \in HandoffCodes |-> IF c > codes THEN "unused" ELSE IF handoff[c] = NoEntry THEN "gone" ELSE "live"]
HandoffDeadline == [c \in HandoffCodes |-> handoff[c].expires]

HandoffTokens == INSTANCE OneTime WITH
    Tokens <- HandoffCodes, Life <- HandoffTTL, Slack <- Lag, clock <- now,
    token <- HandoffToken, deadline <- HandoffDeadline, redeemed <- uses

\* A code is redeemed at most once and only before its deadline, whatever tabs
\* exchange it at the same time (browserHandoffStore.issue and consume: "parallel
\* attempts can never both redeem").
HandoffsOneTime == HandoffTokens!OneTimeSpec

\* A code that is consumed after the session ended, or after its key was
\* deleted, delivers nothing: exchangeBrowserHandoff checks again what
\* createBrowserHandoff had checked when it issued the code.
StaleCodeDeliversNothing ==
    \A t \in Tabs : Visiting(t, "given") => ~visit[t].out /\ ~visit[t].gone

\* The use of a key is always recorded, even when the key was deleted while
\* the call was served (RecordAPIKeyUse goes through the history).
UseRecorded == \A c \in Calls : call[c].step # "failed"
=============================================================================
