------------------------------ MODULE Limiter -------------------------------
(***************************************************************************)
(* The in-process admission of package limit: requests per window and      *)
(* concurrent requests of a key, of its user and of the gateway, decided   *)
(* under one mutex, followed by the daily counters of a transactional      *)
(* store; and the fixed-window counter of the server's attempt limiter,    *)
(* which has the same shape.  Every request reads the clock before it      *)
(* takes the mutex, so requests can reach it out of the order of their     *)
(* windows.  A window is one unit of the clock, a day the whole of it.     *)
(***************************************************************************)
EXTENDS Clock, FiniteSets

CONSTANTS
    Requests, Keys, Callers,
    KeyOf, UserOf,                  \* the identity of a request
    KeyPerWindow, UserPerWindow,    \* RequestsPerMinute
    KeyConcurrent, UserConcurrent, GlobalConcurrent,
    PerDay,                         \* RequestsPerDay, of key and user
    LimiterHorizon                  \* bound on the clock

ASSUME LimiterAssumption ==
    /\ KeyOf \in [Requests -> Keys] /\ UserOf \in [Requests -> Callers]
    /\ {KeyPerWindow, UserPerWindow, KeyConcurrent, UserConcurrent, GlobalConcurrent, PerDay} \subseteq Nat \ {0}
    /\ LimiterHorizon \in Nat

VARIABLES
    request,        \* where each request is: [at, step]
    perWindow,      \* keyRPM and userRPM: [start, count]
    concurrent,     \* keyConcurrent and userConcurrent
    globalCurrent,
    admissions,     \* the store's counters of the day
    tried,          \* the attempt limiter's entry for one address: [start, count]
    late,           \* reservations that came with a window older than the counter's
    lateTries,      \* the same of the attempt limiter
    passed          \* for every window, the requests that were counted in it and kept

limiterVars == <<request, perWindow, concurrent, globalCurrent, admissions, tried, late, lateTries, passed>>

Scopes == Keys \cup Callers
Owners(r) == {KeyOf[r], UserOf[r]}
LimitOf(o) == IF o \in Keys THEN KeyPerWindow ELSE UserPerWindow
ConcurrentOf(o) == IF o \in Keys THEN KeyConcurrent ELSE UserConcurrent

LimiterInit ==
    /\ request = [r \in Requests |-> [at |-> 0, step |-> "new"]]
    /\ perWindow = [o \in Scopes |-> [start |-> 0, count |-> 0]]
    /\ concurrent = [o \in Scopes |-> 0]
    /\ globalCurrent = 0
    /\ admissions = [o \in Scopes |-> 0]
    /\ tried = [start |-> 0, count |-> 0]
    /\ late = 0 /\ lateTries = 0
    /\ passed = [w \in 0..LimiterHorizon |-> {}]

At(r, step) == request' = [request EXCEPT ![r].step = step]

\* Acquire and allow read the clock first.
ReadClock(r) ==
    /\ request[r].step = "new"
    /\ request' = [request EXCEPT ![r] = [at |-> now, step |-> "read"]]
    /\ UNCHANGED <<perWindow, concurrent, globalCurrent, admissions, tried, late, lateTries, passed>>

\* activeCounter: another window starts from nothing.
activeCounter(c, window) == IF c.start = window THEN c ELSE [start |-> window, count |-> 0]

\* reserveLocal, under the mutex: the counters of both scopes are brought to
\* the request's window before any limit is compared.
reserveLocal(r) ==
    LET window == request[r].at
        current == [o \in Scopes |-> IF o \in Owners(r) THEN activeCounter(perWindow[o], window) ELSE perWindow[o]]
        admitted == /\ \A o \in Owners(r) : current[o].count < LimitOf(o) /\ concurrent[o] < ConcurrentOf(o)
                    /\ globalCurrent < GlobalConcurrent
    IN
    /\ request[r].step = "read"
    /\ late' = late + (IF \E o \in Owners(r) : perWindow[o].start > window THEN 1 ELSE 0)
    /\ IF admitted
       THEN /\ perWindow' = [o \in Scopes |-> IF o \in Owners(r) THEN [current[o] EXCEPT !.count = @ + 1] ELSE perWindow[o]]
            /\ concurrent' = [o \in Scopes |-> concurrent[o] + (IF o \in Owners(r) THEN 1 ELSE 0)]
            /\ globalCurrent' = globalCurrent + 1
            /\ passed' = [passed EXCEPT ![window] = @ \cup {r}]
            /\ At(r, "reserved")
       ELSE /\ perWindow' = current
            /\ At(r, "rejected")
            /\ UNCHANGED <<concurrent, globalCurrent, passed>>
    /\ UNCHANGED <<admissions, tried, lateTries>>

\* ReserveRequests: both scopes or neither; it may also fail.
ReserveRequests(r) == [o \in Scopes |-> admissions[o] + (IF o \in Owners(r) THEN 1 ELSE 0)]

ReserveDaily(r) ==
    /\ request[r].step = "reserved"
    /\ \A o \in Owners(r) : admissions[o] < PerDay
    /\ admissions' = ReserveRequests(r)
    /\ At(r, "admitted")
    /\ UNCHANGED <<perWindow, concurrent, globalCurrent, tried, late, lateTries, passed>>

releaseConcurrentLocked(n) == IF n > 0 THEN n - 1 ELSE 0

Released(r) == [o \in Scopes |-> IF o \in Owners(r) THEN releaseConcurrentLocked(concurrent[o]) ELSE concurrent[o]]

RollbackAnyWindow(c, window) == IF c.count > 0 THEN [c EXCEPT !.count = @ - 1] ELSE c

\* rollbackLocal takes the request out of its own window only.
RolledBack(c, window) == IF c.start = window /\ c.count > 0 THEN [c EXCEPT !.count = @ - 1] ELSE c

rollbackLocal(r) ==
    /\ request[r].step = "reserved"
    /\ perWindow' = [o \in Scopes |-> IF o \in Owners(r) THEN RolledBack(perWindow[o], request[r].at) ELSE perWindow[o]]
    /\ concurrent' = Released(r)
    /\ globalCurrent' = releaseConcurrentLocked(globalCurrent)
    /\ passed' = [passed EXCEPT ![request[r].at] = @ \ {r}]
    /\ At(r, "failed")
    /\ UNCHANGED <<admissions, tried, late, lateTries>>

\* The handler and the cancellation of the context may both call it, the
\* first call counts.
releaseFor(r) ==
    /\ request[r].step = "admitted"
    /\ concurrent' = Released(r)
    /\ globalCurrent' = releaseConcurrentLocked(globalCurrent)
    /\ At(r, "released")
    /\ UNCHANGED <<perWindow, admissions, tried, late, lateTries, passed>>

\* attemptLimiter.allow for the address all requests come from.
allow(r) ==
    LET entry == activeCounter(tried, request[r].at) IN
    /\ request[r].step = "read"
    /\ lateTries' = lateTries + (IF tried.start > request[r].at THEN 1 ELSE 0)
    /\ IF entry.count < KeyPerWindow
       THEN tried' = [entry EXCEPT !.count = @ + 1] /\ At(r, "tried")
       ELSE UNCHANGED tried /\ At(r, "rejected")
    /\ UNCHANGED <<perWindow, concurrent, globalCurrent, admissions, late, passed>>

LimiterTick == now < LimiterHorizon /\ Advance /\ UNCHANGED limiterVars

LimiterNext ==
    \/ /\ \E r \in Requests :
             ReadClock(r) \/ reserveLocal(r) \/ ReserveDaily(r) \/ rollbackLocal(r) \/ releaseFor(r) \/ allow(r)
       /\ UNCHANGED now
    \/ LimiterTick

LimiterSpec == now = 0 /\ LimiterInit /\ [][LimiterNext]_<<now, limiterVars>>

-----------------------------------------------------------------------------
(* Properties.                                                             *)

\* In one window no more requests of an owner are kept than its limit, and a
\* request that reaches the mutex after the window has moved on can make that
\* at most one limit more: it sets the counter back to its own window, and the
\* next request starts the newer window from nothing.  The same holds of the
\* attempts an address makes.
WindowLimitHolds ==
    \A w \in 0..LimiterHorizon :
        /\ \A o \in Scopes :
              Cardinality({r \in passed[w] : o \in Owners(r)}) <= LimitOf(o) * (1 + late)
        /\ Cardinality({r \in Requests : request[r] = [at |-> w, step |-> "tried"]}) <= KeyPerWindow * (1 + lateTries)

=============================================================================
