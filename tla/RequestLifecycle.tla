-------------------------- MODULE RequestLifecycle --------------------------
(***************************************************************************)
(* The life of one API request as the gateway's database sees it: admitted *)
(* (AdmitRequest), kept alive by a renewed concurrency lease, completed    *)
(* (CompleteUsageRequest, retried), settled (SettleRequest), and, when a   *)
(* step was lost, repaired by the hourly sweep (RetryUnsettledRequests,    *)
(* ReleaseStaleQuotaReservations).                                         *)
(*                                                                         *)
(* One action is one committed transaction.  AdmitRequest, SettleRequest,  *)
(* ReleaseRequest all lock the global row of quota_locks first, so they    *)
(* are serialised; RenewQuotaLease and CompleteUsageRequest are single     *)
(* UPDATEs whose WHERE clause is re-evaluated under the row lock.          *)
(*                                                                         *)
(* Time is counted in minutes.  Money is in module Billing: here a         *)
(* monetary reservation has a state and no amount.                         *)
(***************************************************************************)
EXTENDS Integers, FiniteSets

CONSTANTS
    Requests,           \* request ids; each is used for one HTTP request
    Keys, Users,        \* api_key_id and user_id
    KeyOf, UserOf,      \* the key of a request, the user of a key
    Billed,             \* the requests whose endpoint carries a billing reservation
    KeyConcurrent, UserConcurrent, GlobalConcurrent,   \* QuotaLimits; 0 = no limit
    KeyRPM, UserRPM, KeyDaily, UserDaily,
    LeaseTTL,           \* minutes a lease lasts after admission or renewal
    StaleAfter,         \* age at which the sweep may release a reservation
    CompletionAttempts, \* attempts of retryUsageCompletion
    RenewalDelay,       \* how old a renewal tick may be when its UPDATE runs
    TimelyRequests,     \* the requests whose running handlers renew before the lease runs out
    MaxTime,            \* bound on the clock
    DayOf,              \* the quota day an instant falls on
    LastArrival,        \* bound on the clock at which requests still arrive
    MaxCrashes          \* bound on process crashes

(***************************************************************************)
(* The configuration the gateway can be given.  Keys and users are         *)
(* different scopes of the same counter tables, so they are disjoint.      *)
(***************************************************************************)
ASSUME ScopeAssumption ==
    /\ IsFiniteSet(Requests)
    /\ Keys \cap Users = {}
    /\ KeyOf \in [Requests -> Keys]
    /\ UserOf \in [Keys -> Users]
    /\ Billed \subseteq Requests

ASSUME LimitAssumption ==
    /\ KeyConcurrent \in Nat /\ UserConcurrent \in Nat /\ GlobalConcurrent \in Nat
    /\ KeyRPM \in Nat /\ UserRPM \in Nat
    /\ KeyDaily \in Nat /\ UserDaily \in Nat

ASSUME TimeAssumption ==
    /\ LeaseTTL \in Nat \ {0}
    /\ StaleAfter \in Nat /\ StaleAfter > LeaseTTL
    /\ CompletionAttempts \in Nat \ {0}
    /\ RenewalDelay \in Nat
    /\ TimelyRequests \subseteq Requests
    /\ TimelyRequests # {} => RenewalDelay < LeaseTTL
    /\ MaxTime \in Nat /\ LastArrival \in Nat /\ MaxCrashes \in Nat
    /\ DayOf \in [0..MaxTime -> 0..MaxTime]

VARIABLES
    now,            \* the clock shared by the gateway and the database
    handler,        \* where executeAPIRequest stands for each request
    requestedAt,    \* the instant the handler captured before admission
    attempt,        \* failed completion attempts of a running handler
    usage,          \* usage_requests.state
    quota,          \* quota_reservations.state
    billing,        \* billing_reservations.state
    lease,          \* concurrency_leases.lease_expires_at, 0 when there is no row
    rate,           \* quota_rate_windows.request_count
    reserved,       \* quota_counters.requests_reserved
    completed,      \* quota_counters.requests_completed
    sweep,          \* progress of maintenance runOnce
    crashes

rows == <<usage, quota, billing, lease, rate, reserved, completed>>
vars == <<now, handler, requestedAt, attempt, rows, sweep, crashes>>

Scopes == Keys \cup Users
Times == 0..MaxTime
User(r) == UserOf[KeyOf[r]]
ScopesOf(r) == {KeyOf[r], User(r)}
InScope(s) == {r \in Requests : s \in ScopesOf(r)}

(***************************************************************************)
(* A handler runs from the capture of requestedAt to its return or its     *)
(* process's death; its renewal goroutine from the admission on.           *)
(***************************************************************************)
HandlerState == {"idle", "admitting", "forwarding", "settling", "done"}
Renewing(r) == handler[r] \in {"forwarding", "settling"}

UsageState == {"none", "in_progress", "completed", "reservation_released"}
ReservationState == {"none", "reserved", "settled", "released"}

TypeOK ==
    /\ now \in Times
    /\ handler \in [Requests -> HandlerState]
    /\ requestedAt \in [Requests -> Times]
    /\ attempt \in [Requests -> 0..CompletionAttempts-1]
    /\ usage \in [Requests -> UsageState]
    /\ quota \in [Requests -> ReservationState]
    /\ billing \in [Requests -> ReservationState]
    /\ lease \in [Requests -> Nat]
    /\ rate \in [Scopes -> [Times -> Nat]]
    /\ reserved \in [Scopes -> [Times -> Nat]]
    /\ completed \in [Scopes -> [Times -> Nat]]
    /\ sweep \in [phase : {"idle", "retry", "release"}, at : Times,
                  pending : SUBSET Requests]
    /\ crashes \in 0..MaxCrashes

Init ==
    /\ now = 0
    /\ handler = [r \in Requests |-> "idle"]
    /\ requestedAt = [r \in Requests |-> 0]
    /\ attempt = [r \in Requests |-> 0]
    /\ usage = [r \in Requests |-> "none"]
    /\ quota = [r \in Requests |-> "none"]
    /\ billing = [r \in Requests |-> "none"]
    /\ lease = [r \in Requests |-> 0]
    /\ rate = [s \in Scopes |-> [t \in Times |-> 0]]
    /\ reserved = [s \in Scopes |-> [t \in Times |-> 0]]
    /\ completed = [s \in Scopes |-> [t \in Times |-> 0]]
    /\ sweep = [phase |-> "idle", at |-> 0, pending |-> {}]
    /\ crashes = 0

-----------------------------------------------------------------------------
(***************************************************************************)
(* Admission.  requestedAt is read before the transaction and stays the    *)
(* transaction's only notion of time: it may be old when the locks are     *)
(* granted.                                                                *)
(***************************************************************************)
Tick ==
    /\ now < MaxTime
    /\ \A r \in TimelyRequests :
          /\ Renewing(r) /\ quota[r] = "reserved" => lease[r] > now + 1
          /\ handler[r] = "admitting" => requestedAt[r] + LeaseTTL > now + 1
    /\ now' = now + 1
    /\ UNCHANGED <<handler, requestedAt, attempt, rows, sweep, crashes>>

Arrive(r) ==
    /\ handler[r] = "idle"
    /\ now <= LastArrival
    /\ handler' = [handler EXCEPT ![r] = "admitting"]
    /\ requestedAt' = [requestedAt EXCEPT ![r] = now]
    /\ UNCHANGED <<now, attempt, rows, sweep, crashes>>

enforceQuotaOffByOne(limit, current) == limit = 0 \/ current <= limit

enforceQuota(limit, current) == limit = 0 \/ current + 1 <= limit

ConcurrentLimit(s) == IF s \in Keys THEN KeyConcurrent ELSE UserConcurrent
RPMLimit(s) == IF s \in Keys THEN KeyRPM ELSE UserRPM
DailyLimit(s) == IF s \in Keys THEN KeyDaily ELSE UserDaily

\* The leases that survive the DELETE of expired rows at instant t.
LiveLeases(t) == {r \in Requests : lease[r] > t}

Bump(counter, r, t, by) ==
    [s \in Scopes |-> IF s \in ScopesOf(r) THEN [counter[s] EXCEPT ![t] = @ + by]
                                          ELSE counter[s]]

reserveQuotaLockedTx(r) ==
    LET at == requestedAt[r]
    IN  /\ enforceQuota(GlobalConcurrent, Cardinality(LiveLeases(at)))
        /\ \A s \in ScopesOf(r) :
              /\ enforceQuota(ConcurrentLimit(s), Cardinality(LiveLeases(at) \cap InScope(s)))
              /\ enforceQuota(RPMLimit(s), rate[s][at])
              /\ enforceQuota(DailyLimit(s), reserved[s][DayOf[at]])
        /\ rate' = Bump(rate, r, at, 1)
        /\ reserved' = Bump(reserved, r, DayOf[at], 1)
        /\ quota' = [quota EXCEPT ![r] = "reserved"]
        /\ lease' = [x \in Requests |->
                       IF x = r THEN at + LeaseTTL
                       ELSE IF x \in LiveLeases(at) THEN lease[x] ELSE 0]
        /\ UNCHANGED completed

(***************************************************************************)
(* AdmitRequest commits the reservations and the usage row together.  When *)
(* the commit's answer is lost, or the client's context is cancelled while *)
(* it travels, the handler returns an error and nothing is released.       *)
(***************************************************************************)
AdmitRequest(r) ==
    /\ handler[r] = "admitting"
    /\ reserveQuotaLockedTx(r)
    /\ billing' = IF r \in Billed THEN [billing EXCEPT ![r] = "reserved"] ELSE billing
    /\ usage' = [usage EXCEPT ![r] = "in_progress"]
    /\ \E answer \in {"forwarding", "done"} : handler' = [handler EXCEPT ![r] = answer]
    /\ UNCHANGED <<now, requestedAt, attempt, sweep, crashes>>

\* Any refusal (model access, funds, a limit) and any rolled-back transaction.
RejectRequest(r) ==
    /\ handler[r] = "admitting"
    /\ handler' = [handler EXCEPT ![r] = "done"]
    /\ UNCHANGED <<now, requestedAt, attempt, rows, sweep, crashes>>

(***************************************************************************)
(* The renewal goroutine.  The tick's instant at may be older than now     *)
(* when the UPDATE runs; a lease that is gone or expired at that instant   *)
(* cannot be renewed.                                                      *)
(***************************************************************************)
LeaseRenewable(r, at) == quota[r] = "reserved" /\ lease[r] > at

RenewQuotaLease(r) ==
    /\ Renewing(r)
    /\ \E at \in {t \in Times : requestedAt[r] <= t /\ now - RenewalDelay <= t /\ t <= now} :
          /\ LeaseRenewable(r, at)
          /\ lease' = [lease EXCEPT ![r] = at + LeaseTTL]
    /\ UNCHANGED <<now, handler, requestedAt, attempt, usage, quota, billing,
                   rate, reserved, completed, sweep, crashes>>

-----------------------------------------------------------------------------
(***************************************************************************)
(* Completion.  The forwarded call has ended and its terminal metadata is  *)
(* written, with up to CompletionAttempts attempts.                        *)
(***************************************************************************)

\* The UPDATE ... WHERE state = 'in_progress' took effect.
CompleteUnchecked(r) ==
    /\ usage' = [usage EXCEPT ![r] = "completed"]
    /\ UNCHANGED <<quota, billing, lease, rate, reserved, completed>>

CompleteUsageTx(r) ==
    /\ usage[r] = "in_progress"
    /\ usage' = [usage EXCEPT ![r] = "completed"]
    /\ UNCHANGED <<quota, billing, lease, rate, reserved, completed>>

\* The handler saw success: its own write, or the exact replay of an earlier one.
CompleteUsageRequest(r) ==
    /\ handler[r] = "forwarding"
    /\ \/ CompleteUsageTx(r)
       \/ usage[r] = "completed" /\ UNCHANGED rows
    /\ handler' = [handler EXCEPT ![r] = "settling"]
    /\ UNCHANGED <<now, requestedAt, attempt, sweep, crashes>>

MayRetry(r) == attempt[r] + 1 < CompletionAttempts

\* The handler saw an error: the write was lost, or only its answer was.
\* A transport error is retried; an expired context or the last attempt ends
\* the handler with the usage row as it stands.
CompletionFails(r) ==
    /\ handler[r] = "forwarding"
    /\ CompleteUsageTx(r) \/ UNCHANGED rows
    /\ \/ /\ MayRetry(r)
          /\ attempt' = [attempt EXCEPT ![r] = @ + 1]
          /\ UNCHANGED handler
       \/ /\ attempt' = [attempt EXCEPT ![r] = 0]
          /\ handler' = [handler EXCEPT ![r] = "done"]
    /\ UNCHANGED <<now, requestedAt, sweep, crashes>>

\* ErrConflict: the sweep has already cancelled the row.  Nothing is settled.
CompletionConflicts(r) ==
    /\ handler[r] = "forwarding"
    /\ usage[r] = "reservation_released"
    /\ handler' = [handler EXCEPT ![r] = "done"]
    /\ UNCHANGED <<now, requestedAt, attempt, rows, sweep, crashes>>

-----------------------------------------------------------------------------
(***************************************************************************)
(* Settlement and release.                                                 *)
(***************************************************************************)
settleQuotaTwice(r) ==
    /\ completed' = Bump(completed, r, DayOf[requestedAt[r]], 1)
    /\ quota' = [quota EXCEPT ![r] = "settled"]
    /\ lease' = [lease EXCEPT ![r] = 0]

settleQuotaTx(r) ==
    \/ /\ quota[r] = "reserved"
       /\ completed' = Bump(completed, r, DayOf[requestedAt[r]], 1)
       /\ quota' = [quota EXCEPT ![r] = "settled"]
       /\ lease' = [lease EXCEPT ![r] = 0]
    \/ quota[r] = "settled" /\ UNCHANGED <<completed, quota, lease>>

SettleRequest(r) ==
    /\ usage[r] \in {"completed", "reservation_released"}
    /\ settleQuotaTx(r)
    /\ billing[r] # "released"
    /\ billing' = IF r \in Billed THEN [billing EXCEPT ![r] = "settled"] ELSE billing
    /\ UNCHANGED <<usage, rate, reserved>>

ReservationOpen(r) == quota[r] = "reserved"

Releasable(r) == quota[r] = "reserved" /\ usage[r] = "in_progress"

ReleaseRequest(r) ==
    /\ Releasable(r)
    /\ \A s \in ScopesOf(r) : reserved[s][DayOf[requestedAt[r]]] > 0
    /\ usage' = [usage EXCEPT ![r] = "reservation_released"]
    /\ reserved' = Bump(reserved, r, DayOf[requestedAt[r]], -1)
    /\ quota' = [quota EXCEPT ![r] = "released"]
    /\ lease' = [lease EXCEPT ![r] = 0]
    /\ billing' = IF r \in Billed THEN [billing EXCEPT ![r] = "released"] ELSE billing
    /\ UNCHANGED <<rate, completed>>

\* The handler settles once and returns whatever the outcome.
HandlerSettles(r) ==
    /\ handler[r] = "settling"
    /\ SettleRequest(r) \/ UNCHANGED rows
    /\ handler' = [handler EXCEPT ![r] = "done"]
    /\ UNCHANGED <<now, requestedAt, attempt, sweep, crashes>>

-----------------------------------------------------------------------------
(***************************************************************************)
(* The maintenance sweep.  Each pass first lists and settles what is       *)
(* terminal but unsettled, then lists and releases what looks abandoned.   *)
(* A list is read once; its requests are handled one transaction at a time *)
(* while handlers keep running.  An error other than ErrConflict or        *)
(* ErrNotFound abandons the rest of the list.                              *)
(***************************************************************************)
Unsettled == {r \in Requests : /\ usage[r] \in {"completed", "reservation_released"}
                               /\ quota[r] = "reserved" \/ billing[r] = "reserved"}

StaleIgnoringLease(before) ==
    {r \in Requests : quota[r] = "reserved" /\ requestedAt[r] < before /\ usage[r] = "in_progress"}

StaleWithLeaseRow(before) ==
    {r \in Requests : quota[r] = "reserved" /\ requestedAt[r] < before
                      /\ lease[r] \in 1..now /\ usage[r] = "in_progress"}

StaleReservations(before) ==
    {r \in Requests : /\ quota[r] = "reserved"
                      /\ requestedAt[r] < before
                      /\ lease[r] <= now
                      /\ usage[r] = "in_progress"}

sweepUnchanged == UNCHANGED <<now, handler, requestedAt, attempt, crashes>>

ListUnsettled ==
    /\ sweep.phase = "idle"
    /\ sweep' = [phase |-> "retry", at |-> now, pending |-> Unsettled]
    /\ UNCHANGED rows /\ sweepUnchanged

RetryUnsettled(r) ==
    /\ sweep.phase = "retry" /\ r \in sweep.pending
    /\ SettleRequest(r)
    /\ sweep' = [sweep EXCEPT !.pending = @ \ {r}]
    /\ sweepUnchanged

ListStale ==
    /\ sweep.phase = "retry" /\ sweep.pending = {}
    /\ sweep' = [sweep EXCEPT !.phase = "release",
                             !.pending = StaleReservations(sweep.at - StaleAfter)]
    /\ UNCHANGED rows /\ sweepUnchanged

ReleaseStale(r) ==
    /\ sweep.phase = "release" /\ r \in sweep.pending
    /\ ReleaseRequest(r)
    /\ sweep' = [sweep EXCEPT !.pending = @ \ {r}]
    /\ sweepUnchanged

\* ErrConflict: the request was completed, or settled, after it was listed.
SkipConflict(r) ==
    /\ r \in sweep.pending
    /\ \/ sweep.phase = "retry" /\ quota[r] = "released"
       \/ sweep.phase = "release" /\ (quota[r] = "settled" \/ usage[r] # "in_progress")
    /\ sweep' = [sweep EXCEPT !.pending = @ \ {r}]
    /\ UNCHANGED rows /\ sweepUnchanged

\* A database error: nothing was written, or the commit's answer was lost.
AbortList ==
    /\ \E r \in sweep.pending :
          \/ UNCHANGED rows
          \/ sweep.phase = "retry" /\ SettleRequest(r)
          \/ sweep.phase = "release" /\ ReleaseRequest(r)
    /\ sweep' = [sweep EXCEPT !.pending = {}]
    /\ sweepUnchanged

EndSweep ==
    /\ sweep.phase = "release" /\ sweep.pending = {}
    /\ sweep' = [phase |-> "idle", at |-> 0, pending |-> {}]
    /\ UNCHANGED rows /\ sweepUnchanged

\* The process dies with every handler, renewal goroutine and sweep in it.
Crash ==
    /\ crashes < MaxCrashes
    /\ crashes' = crashes + 1
    /\ handler' = [r \in Requests |-> IF handler[r] = "idle" THEN "idle" ELSE "done"]
    /\ attempt' = [r \in Requests |-> 0]
    /\ sweep' = [phase |-> "idle", at |-> 0, pending |-> {}]
    /\ UNCHANGED <<now, requestedAt, rows>>

Handler(r) ==
    \/ AdmitRequest(r) \/ RejectRequest(r)
    \/ CompleteUsageRequest(r) \/ CompletionFails(r) \/ CompletionConflicts(r)
    \/ HandlerSettles(r)

SweepOne(r) == RetryUnsettled(r) \/ ReleaseStale(r) \/ SkipConflict(r)

Maintenance ==
    \/ ListUnsettled \/ ListStale \/ AbortList \/ EndSweep
    \/ \E r \in Requests : SweepOne(r)

Next ==
    \/ Tick \/ Crash \/ Maintenance
    \/ \E r \in Requests : Arrive(r) \/ RenewQuotaLease(r) \/ Handler(r)

Spec == Init /\ [][Next]_vars

(***************************************************************************)
(* Fairness.  The clock advances.  A handler returns: its writes have      *)
(* context deadlines, and the forwarded stream ends because the upstream   *)
(* finishes or the client goes away.  The latter is an assumption on them: *)
(* the gateway limits the wait for response headers but not the stream,    *)
(* and keeps the reservation of an endless one open.  The sweep runs every *)
(* hour and again after a restart; a database that keeps answering lets    *)
(* each listed request be handled now and then, which a broken-off list    *)
(* asks strong fairness for.                                               *)
(***************************************************************************)
Fairness ==
    /\ WF_vars(Tick)
    /\ \A r \in Requests : WF_vars(Handler(r))
    /\ WF_vars(ListUnsettled \/ ListStale \/ EndSweep)
    /\ \A r \in Requests : SF_vars(SweepOne(r))

FairSpec == Spec /\ Fairness

-----------------------------------------------------------------------------
(***************************************************************************)
(* Correctness.                                                            *)
(***************************************************************************)

LeaseRows(S) == {r \in S : lease[r] # 0}

\* The rows of concurrency_leases, expired ones included, never exceed the
\* concurrency limit of a key, of a user or of the gateway, whatever the age of
\* the instant an admission runs with and however renewals and expiry interleave
\* (reserveQuotaLockedTx counts after deleting, RenewQuotaLease never inserts).
ConcurrencyBounded ==
    /\ GlobalConcurrent # 0 => Cardinality(LeaseRows(Requests)) <= GlobalConcurrent
    /\ \A s \in Scopes : ConcurrentLimit(s) # 0 =>
          Cardinality(LeaseRows(InScope(s))) <= ConcurrentLimit(s)

HeldOn(s, d) == {r \in InScope(s) : quota[r] \in {"reserved", "settled"} /\ DayOf[requestedAt[r]] = d}
SettledOn(s, d) == {r \in InScope(s) : quota[r] = "settled" /\ DayOf[requestedAt[r]] = d}
AdmittedIn(s, t) == {r \in InScope(s) : quota[r] # "none" /\ requestedAt[r] = t}

\* The three counter tables agree with the reservations they summarise: a day's
\* requests_reserved counts what was admitted that day and not released, its
\* requests_completed what was settled, and a rate window everything admitted
\* in that minute, released or not.
CountersReconcile ==
    \A s \in Scopes, t \in Times :
        /\ reserved[s][t] = Cardinality(HeldOn(s, t))
        /\ completed[s][t] = Cardinality(SettledOn(s, t))
        /\ rate[s][t] = Cardinality(AdmittedIn(s, t))

\* The quota reservation, the monetary reservation and the usage row of a request
\* never disagree on how it ended: a billed request is settled in both or in
\* neither, only recorded work is settled, and only what the sweep cancelled
\* itself is released (SettleRequest, ReleaseRequest).
OneOutcome ==
    \A r \in Requests :
        /\ billing[r] = IF r \in Billed THEN quota[r] ELSE "none"
        /\ quota[r] = "none" <=> usage[r] = "none"
        /\ quota[r] = "settled" => usage[r] = "completed"
        /\ quota[r] = "released" <=> usage[r] = "reservation_released"

\* A concurrency slot is held only by a request whose reservation is open: no
\* interleaving of renewal with settlement, release or admission leaves a lease
\* row behind that nobody will delete but its own expiry.
SlotImpliesOpen == \A r \in Requests : lease[r] # 0 => quota[r] = "reserved"

\* How far a request has come.
OutcomeOf(r) ==
    CASE quota[r] = "none" -> "absent"
      [] quota[r] = "reserved" /\ usage[r] = "in_progress" -> "admitted"
      [] quota[r] = "reserved" /\ usage[r] # "in_progress" -> "performed"
      [] quota[r] = "settled" -> "charged"
      [] quota[r] = "released" -> "voided"

Outcome == INSTANCE RequestOutcome WITH outcome <- [r \in Requests |-> OutcomeOf(r)]

\* The lifecycle implements RequestOutcome: an admitted request is either
\* recorded and then charged once, or voided; no late completion, retry, sweep
\* or crash turns one ending into the other or charges twice.
ImplementsOutcome == Outcome!Spec

\* The sweep releases no request whose handler still runs and renews in time,
\* however late the renewals of other handlers are: the list is older than the
\* releases it leads to, but what was abandoned when listed stays abandoned
\* (ReleaseStaleQuotaReservations: "repairs token reservations left by a crashed
\* process").
LiveRequestKept ==
    \A r \in TimelyRequests : Renewing(r) => quota[r] # "released"

\* Every admitted request is eventually charged or voided, although answers get
\* lost, lists are broken off and the process crashes: with ImplementsOutcome,
\* recorded work is eventually charged.
EveryRequestResolved == Outcome!Resolved
=============================================================================
