----------------------- MODULE RequestLifecycleProofs -----------------------
(***************************************************************************)
(* Proofs of the safety properties of RequestLifecycle for every set of    *)
(* requests, every assignment of keys and users, every limit and every     *)
(* bound on the clock.                                                     *)
(***************************************************************************)
EXTENDS RequestLifecycle, FiniteSetTheorems, TLAPS

\* The provers to try, and their time, for a leaf that names none.
USE SMTT(30), ZenonT(30), SMTT(60)

\* The durations are positive or natural numbers,
LEMMA Durations ==
  /\ LeaseTTL \in Nat /\ LeaseTTL > 0 /\ RenewalDelay \in Nat /\ MaxTime \in Nat
  /\ CompletionAttempts \in Nat /\ CompletionAttempts > 0
  BY TimeAssumption

\* and so are the instants and the ends of the leases dated by them.
LEMMA Instants == 0 \in Times /\ \A t \in Times : t \in Nat /\ t + LeaseTTL \in Nat
  BY Durations DEF Times

(***************************************************************************)
(* What a reservation, a settlement and a release do to the counters.      *)
(***************************************************************************)

\* A scope of a request is one of the gateway's scopes.
LEMMA ScopesOfType == \A r \in Requests : ScopesOf(r) \subseteq Scopes
  BY ScopeAssumption DEF ScopesOf, Scopes, User

\* Counting up keeps a counter table a table of naturals; so does counting down
\* where the counters of the request are positive.
LEMMA BumpType ==
  ASSUME NEW counter \in [Scopes -> [Times -> Nat]], NEW r \in Requests,
         NEW t \in Times, NEW by \in {1, -1},
         by = 1 \/ \A s \in ScopesOf(r) : counter[s][t] > 0
  PROVE  Bump(counter, r, t, by) \in [Scopes -> [Times -> Nat]]
<1> SUFFICES ASSUME NEW s \in Scopes
             PROVE  (IF s \in ScopesOf(r) THEN [counter[s] EXCEPT ![t] = @ + by]
                     ELSE counter[s]) \in [Times -> Nat]
    BY DEF Bump
<1>1. CASE s \in ScopesOf(r)
  <2>1. counter[s] \in [Times -> Nat] /\ counter[s][t] + by \in Nat
      BY <1>1
  <2> QED BY <1>1, <2>1
<1> QED BY <1>1

\* The quota day of a request's instant is a row of the counter tables.
LEMMA DayType == ASSUME TypeOK, NEW r \in Requests PROVE DayOf[requestedAt[r]] \in Times
  BY TimeAssumption DEF TypeOK, Times

\* An admission keeps the unexpired leases and adds its own.
LEMMA AdmittedLease ==
  ASSUME NEW r \in Requests, AdmitRequest(r)
  PROVE  lease' = [x \in Requests |->
                     IF x = r THEN requestedAt[r] + LeaseTTL
                     ELSE IF x \in LiveLeases(requestedAt[r]) THEN lease[x] ELSE 0]
  BY DEF AdmitRequest, reserveQuotaLockedTx

\* SettleRequest keeps the row types.
LEMMA SettleType ==
  ASSUME TypeOK, NEW r \in Requests, SettleRequest(r)
  PROVE  /\ usage' \in [Requests -> UsageState] /\ quota' \in [Requests -> ReservationState]
         /\ billing' \in [Requests -> ReservationState] /\ lease' \in [Requests -> Nat]
         /\ rate' \in [Scopes -> [Times -> Nat]] /\ reserved' \in [Scopes -> [Times -> Nat]]
         /\ completed' \in [Scopes -> [Times -> Nat]]
<1>1. Bump(completed, r, DayOf[requestedAt[r]], 1) \in [Scopes -> [Times -> Nat]]
    BY BumpType, DayType DEF TypeOK
<1>2. quota' \in [Requests -> ReservationState] /\ lease' \in [Requests -> Nat]
  <2>1. quota \in [Requests -> ReservationState] /\ lease \in [Requests -> Nat]
      BY DEF TypeOK
  <2> QED BY <2>1 DEF SettleRequest, settleQuotaTx, ReservationState
<1>3. completed' \in [Scopes -> [Times -> Nat]]
    BY <1>1 DEF TypeOK, SettleRequest, settleQuotaTx
<1>4. billing' \in [Requests -> ReservationState]
    BY DEF TypeOK, SettleRequest, ReservationState
<1> QED BY <1>2, <1>3, <1>4 DEF TypeOK, SettleRequest

\* ReleaseRequest keeps the row types: requests_reserved is positive where it is
\* decremented.
LEMMA ReleaseType ==
  ASSUME TypeOK, NEW r \in Requests, ReleaseRequest(r)
  PROVE  /\ usage' \in [Requests -> UsageState] /\ quota' \in [Requests -> ReservationState]
         /\ billing' \in [Requests -> ReservationState] /\ lease' \in [Requests -> Nat]
         /\ rate' \in [Scopes -> [Times -> Nat]] /\ reserved' \in [Scopes -> [Times -> Nat]]
         /\ completed' \in [Scopes -> [Times -> Nat]]
<1>1. Bump(reserved, r, DayOf[requestedAt[r]], -1) \in [Scopes -> [Times -> Nat]]
    BY Zenon, BumpType, DayType DEF TypeOK, ReleaseRequest
<1>2. billing' \in [Requests -> ReservationState]
    BY DEF TypeOK, ReleaseRequest, ReservationState
<1> QED BY <1>1, <1>2 DEF TypeOK, ReleaseRequest, ReservationState, UsageState

(***************************************************************************)
(* Type correctness.                                                       *)
(***************************************************************************)
LEMMA TypeInit == Init => TypeOK
  BY TimeAssumption DEF Init, TypeOK, Times, HandlerState, UsageState, ReservationState

\* Every step of every handler and of the sweep keeps the types.
LEMMA TypeStep == TypeOK /\ [Next]_vars => TypeOK'
<1> SUFFICES ASSUME TypeOK, [Next]_vars PROVE TypeOK'
    OBVIOUS
<1>1. CASE Tick
  <2>1. now' \in Times
      BY <1>1, Durations DEF Tick, TypeOK, Times
  <2> QED BY <1>1, <2>1 DEF Tick, TypeOK, rows
<1>2. CASE Crash
  <2>1. crashes' \in 0..MaxCrashes
      BY <1>2, TimeAssumption DEF Crash, TypeOK
  <2>2. /\ handler' \in [Requests -> HandlerState]
        /\ attempt' \in [Requests -> 0..CompletionAttempts-1]
      BY <1>2, Durations DEF Crash, TypeOK, HandlerState
  <2> QED BY <1>2, <2>1, <2>2, Instants DEF Crash, TypeOK, rows
<1>3. CASE Maintenance
  <2>1. CASE ListUnsettled
      BY <1>3, <2>1 DEF ListUnsettled, Unsettled, sweepUnchanged, rows, TypeOK
  <2>2. CASE ListStale
      BY Zenon, <1>3, <2>2 DEF ListStale, StaleReservations, sweepUnchanged, rows, TypeOK
  <2>3. CASE EndSweep
      BY <1>3, <2>3, Instants DEF EndSweep, sweepUnchanged, rows, TypeOK
  <2>4. CASE AbortList
    <3>1. sweep' \in [phase : {"idle", "retry", "release"}, at : Times, pending : SUBSET Requests]
        BY Zenon, <2>4 DEF AbortList, TypeOK
    <3>2. PICK r \in sweep.pending : UNCHANGED rows \/ SettleRequest(r) \/ ReleaseRequest(r)
        BY <2>4 DEF AbortList
    <3>3. r \in Requests
        BY <3>2 DEF TypeOK
    <3> QED BY <2>4, <3>1, <3>2, <3>3, SettleType, ReleaseType DEF AbortList, sweepUnchanged, rows, TypeOK
  <2>5. ASSUME NEW r \in Requests, SweepOne(r) PROVE TypeOK'
    <3>1. CASE RetryUnsettled(r)
        BY Zenon, <3>1, SettleType DEF RetryUnsettled, sweepUnchanged, TypeOK
    <3>2. CASE ReleaseStale(r)
        BY Zenon, <3>2, ReleaseType DEF ReleaseStale, sweepUnchanged, TypeOK
    <3>3. CASE SkipConflict(r)
        BY Zenon, <3>3 DEF SkipConflict, sweepUnchanged, rows, TypeOK
    <3> QED BY <2>5, <3>1, <3>2, <3>3 DEF SweepOne
  <2> QED BY <1>3, <2>1, <2>2, <2>3, <2>4, <2>5 DEF Maintenance
<1>4. ASSUME NEW r \in Requests, Arrive(r) PROVE TypeOK'
    BY <1>4 DEF Arrive, TypeOK, rows, HandlerState
<1>5. ASSUME NEW r \in Requests, RenewQuotaLease(r) PROVE TypeOK'
  <2>1. lease' \in [Requests -> Nat]
      BY <1>5, Instants DEF RenewQuotaLease, TypeOK
  <2> QED BY <1>5, <2>1 DEF RenewQuotaLease, TypeOK
<1>6. ASSUME NEW r \in Requests, AdmitRequest(r) PROVE TypeOK'
  <2>1. /\ Bump(rate, r, requestedAt[r], 1) \in [Scopes -> [Times -> Nat]]
        /\ Bump(reserved, r, DayOf[requestedAt[r]], 1) \in [Scopes -> [Times -> Nat]]
      BY Zenon, BumpType, DayType DEF TypeOK
  <2>2. lease' \in [Requests -> Nat]
    <3>1. requestedAt[r] \in Times /\ lease \in [Requests -> Nat]
        BY DEF TypeOK
    <3>2. requestedAt[r] + LeaseTTL \in Nat
        BY <3>1, Instants
    <3>3. lease' = [x \in Requests |->
                      IF x = r THEN requestedAt[r] + LeaseTTL
                      ELSE IF x \in LiveLeases(requestedAt[r]) THEN lease[x] ELSE 0]
        BY <1>6, AdmittedLease
    <3> QED BY <3>1, <3>2, <3>3
  <2>3. rate' = Bump(rate, r, requestedAt[r], 1) /\ reserved' = Bump(reserved, r, DayOf[requestedAt[r]], 1)
      BY <1>6 DEF AdmitRequest, reserveQuotaLockedTx
  <2>4. quota' \in [Requests -> ReservationState] /\ billing' \in [Requests -> ReservationState]
      BY <1>6 DEF AdmitRequest, reserveQuotaLockedTx, TypeOK, ReservationState
  <2>5. usage' \in [Requests -> UsageState] /\ handler' \in [Requests -> HandlerState]
      BY <1>6 DEF AdmitRequest, TypeOK, HandlerState, UsageState
  <2>6. UNCHANGED <<now, requestedAt, attempt, completed, sweep, crashes>>
      BY <1>6 DEF AdmitRequest, reserveQuotaLockedTx
  <2> QED BY <2>1, <2>2, <2>3, <2>4, <2>5, <2>6 DEF TypeOK
<1>7. ASSUME NEW r \in Requests, RejectRequest(r) \/ CompletionConflicts(r) PROVE TypeOK'
    BY <1>7 DEF RejectRequest, CompletionConflicts, TypeOK, rows, HandlerState
<1>8. ASSUME NEW r \in Requests, CompleteUsageRequest(r) PROVE TypeOK'
    BY Zenon, <1>8 DEF CompleteUsageRequest, CompleteUsageTx, TypeOK, rows, HandlerState, UsageState
<1>9. ASSUME NEW r \in Requests, CompletionFails(r) PROVE TypeOK'
  <2>1. usage' \in [Requests -> UsageState] /\ UNCHANGED <<quota, billing, lease, rate, reserved, completed>>
      BY <1>9 DEF CompletionFails, CompleteUsageTx, TypeOK, rows, UsageState
  <2>2. attempt' \in [Requests -> 0..CompletionAttempts-1]
    <3>1. attempt \in [Requests -> 0..CompletionAttempts-1]
        BY DEF TypeOK
    <3>2. attempt[r] + 1 < CompletionAttempts => attempt[r] + 1 \in 0..CompletionAttempts-1
        BY <3>1, Durations
    <3>3. 0 \in 0..CompletionAttempts-1
        BY Durations
    <3> QED BY <1>9, <3>1, <3>2, <3>3 DEF CompletionFails, MayRetry
  <2>3. handler' \in [Requests -> HandlerState]
      BY <1>9 DEF CompletionFails, TypeOK, HandlerState
  <2> QED BY <1>9, <2>1, <2>2, <2>3 DEF CompletionFails, TypeOK
<1>10. ASSUME NEW r \in Requests, HandlerSettles(r) PROVE TypeOK'
    BY <1>10, SettleType DEF HandlerSettles, TypeOK, rows, HandlerState
<1>11. CASE UNCHANGED vars
    BY <1>11 DEF vars, rows, TypeOK
<1> QED BY <1>1, <1>2, <1>3, <1>4, <1>5, <1>6, <1>7, <1>8, <1>9, <1>10, <1>11 DEF Next, Handler

\* Every reachable state is well typed: no counter goes below zero, no handler
\* makes more than CompletionAttempts attempts, and the clock of a sweep is one
\* the gateway has seen.
THEOREM TypeCorrect == Spec => []TypeOK
  BY TypeInit, TypeStep, PTL DEF Spec

(***************************************************************************)
(* The rows change in five ways only.  Whatever the process does otherwise *)
(* (a handler's control, the clock, a list, a crash) leaves them alone.    *)
(***************************************************************************)
RowStep(r) ==
    \/ AdmitRequest(r)
    \/ RenewQuotaLease(r)
    \/ CompleteUsageTx(r)
    \/ SettleRequest(r)
    \/ ReleaseRequest(r) /\ sweep.phase = "release" /\ r \in sweep.pending

\* Every step changes the rows in one of these ways or not at all.
LEMMA RowCases == TypeOK /\ [Next]_vars => UNCHANGED rows \/ \E r \in Requests : RowStep(r)
<1> SUFFICES ASSUME TypeOK, [Next]_vars, ~ UNCHANGED rows PROVE \E r \in Requests : RowStep(r)
    OBVIOUS
<1>1. CASE Tick \/ Crash \/ UNCHANGED vars
    BY <1>1 DEF Tick, Crash, vars
<1>2. CASE Maintenance
  <2>1. CASE ListUnsettled \/ ListStale \/ EndSweep
      BY <2>1 DEF ListUnsettled, ListStale, EndSweep
  <2>2. CASE AbortList
    <3>1. sweep.pending \subseteq Requests
        BY DEF TypeOK
    <3> QED BY <2>2, <3>1 DEF AbortList, RowStep
  <2>3. ASSUME NEW r \in Requests, SweepOne(r) PROVE RowStep(r)
      BY <2>3 DEF SweepOne, RetryUnsettled, ReleaseStale, SkipConflict, RowStep
  <2> QED BY <1>2, <2>1, <2>2, <2>3 DEF Maintenance
<1>3. ASSUME NEW r \in Requests, Arrive(r) \/ RenewQuotaLease(r) \/ Handler(r) PROVE RowStep(r)
    BY Zenon, <1>3 DEF Arrive, Handler, RejectRequest, CompleteUsageRequest, CompletionFails,
                CompletionConflicts, HandlerSettles, RowStep
<1> QED BY <1>1, <1>2, <1>3 DEF Next

\* The instant of a request is captured when its handler starts and never again,
\* and no handler returns to the point before its admission.
LEMMA HandlerCases ==
  ASSUME TypeOK, [Next]_vars, NEW x \in Requests
  PROVE  /\ requestedAt'[x] = requestedAt[x] \/ handler[x] = "idle"
         /\ handler'[x] \in {"idle", "admitting"} => handler[x] \in {"idle", "admitting"}
<1> USE DEF TypeOK
<1>1. CASE Tick \/ Crash \/ UNCHANGED vars
    BY <1>1 DEF Tick, Crash, vars
<1>2. CASE Maintenance
    BY <1>2 DEF Maintenance, ListUnsettled, ListStale, EndSweep, AbortList, SweepOne,
                RetryUnsettled, ReleaseStale, SkipConflict, sweepUnchanged
<1>3. ASSUME NEW r \in Requests, Arrive(r) \/ RenewQuotaLease(r)
      PROVE  /\ requestedAt'[x] = requestedAt[x] \/ handler[x] = "idle"
             /\ handler'[x] \in {"idle", "admitting"} => handler[x] \in {"idle", "admitting"}
    BY <1>3 DEF Arrive, RenewQuotaLease
<1>4. ASSUME NEW r \in Requests, Handler(r)
      PROVE  /\ requestedAt'[x] = requestedAt[x] \/ handler[x] = "idle"
             /\ handler'[x] \in {"idle", "admitting"} => handler[x] \in {"idle", "admitting"}
    BY <1>4 DEF Handler, AdmitRequest, RejectRequest, CompleteUsageRequest, CompletionFails,
                CompletionConflicts, HandlerSettles
<1> QED BY Zenon, <1>1, <1>2, <1>3, <1>4 DEF Next

(***************************************************************************)
(* One outcome per request.  A request before its admission has no rows;   *)
(* with it, the agreement of the three rows and the slot are inductive.    *)
(***************************************************************************)
NoRowsYet == \A r \in Requests : handler[r] \in {"idle", "admitting"} => quota[r] = "none"

Agreement == TypeOK /\ NoRowsYet /\ OneOutcome /\ SlotImpliesOpen

\* At the start there are no rows, so they agree.
LEMMA AgreementInit == Init => Agreement
  BY Zenon, TypeInit DEF Init, Agreement, NoRowsYet, OneOutcome, SlotImpliesOpen

\* Admission, completion, settlement and release each move the three rows of
\* a request together, or find them in a state in which they do nothing.
LEMMA AgreementStep == Agreement /\ [Next]_vars => Agreement'
<1> SUFFICES ASSUME Agreement, [Next]_vars PROVE Agreement'
    OBVIOUS
<1> USE DEF Agreement
<1>1. TypeOK'
    BY TypeStep
<1>2. CASE UNCHANGED rows
    BY <1>1, <1>2, HandlerCases DEF rows, NoRowsYet, OneOutcome, SlotImpliesOpen
<1>3. ASSUME NEW r \in Requests, AdmitRequest(r) PROVE Agreement'
  <2>1. quota[r] = "none" /\ usage[r] = "none"
      BY Zenon, <1>3 DEF AdmitRequest, NoRowsYet, OneOutcome
  <2>2. /\ quota' = [quota EXCEPT ![r] = "reserved"]
        /\ usage' = [usage EXCEPT ![r] = "in_progress"]
        /\ billing' = IF r \in Billed THEN [billing EXCEPT ![r] = "reserved"] ELSE billing
        /\ handler'[r] \in {"forwarding", "done"}
      BY Zenon, <1>3 DEF AdmitRequest, reserveQuotaLockedTx, TypeOK
  <2>3. NoRowsYet'
      BY <2>2, HandlerCases DEF NoRowsYet, TypeOK
  <2>4. OneOutcome'
      BY <2>1, <2>2 DEF OneOutcome, TypeOK
  <2>5. SlotImpliesOpen'
      BY <1>3, <2>2, AdmittedLease DEF SlotImpliesOpen, LiveLeases, TypeOK
  <2> QED BY <1>1, <2>3, <2>4, <2>5
<1>4. ASSUME NEW r \in Requests, RenewQuotaLease(r) PROVE Agreement'
  <2>1. UNCHANGED <<handler, usage, quota, billing>>
      BY <1>4 DEF RenewQuotaLease
  <2>2. SlotImpliesOpen'
      BY <1>4, <2>1 DEF RenewQuotaLease, LeaseRenewable, SlotImpliesOpen, TypeOK
  <2> QED BY <1>1, <2>1, <2>2 DEF NoRowsYet, OneOutcome
<1>5. ASSUME NEW r \in Requests, CompleteUsageTx(r) PROVE Agreement'
  <2>1. UNCHANGED <<quota, billing, lease>>
      BY <1>5 DEF CompleteUsageTx
  <2>2. OneOutcome'
      BY Zenon, <1>5, <2>1 DEF CompleteUsageTx, OneOutcome, TypeOK
  <2> QED BY <1>1, <2>1, <2>2, HandlerCases DEF NoRowsYet, SlotImpliesOpen
<1>6. ASSUME NEW r \in Requests, SettleRequest(r) PROVE Agreement'
  <2>1. NoRowsYet'
      BY <1>6, HandlerCases DEF SettleRequest, settleQuotaTx, NoRowsYet, TypeOK
  <2>2. OneOutcome'
      BY <1>6 DEF SettleRequest, settleQuotaTx, OneOutcome, TypeOK
  <2>3. SlotImpliesOpen'
      BY Zenon, <1>6 DEF SettleRequest, settleQuotaTx, SlotImpliesOpen, TypeOK
  <2> QED BY <1>1, <2>1, <2>2, <2>3
<1>7. ASSUME NEW r \in Requests, ReleaseRequest(r) PROVE Agreement'
  <2>1. NoRowsYet'
      BY Zenon, <1>7, HandlerCases DEF ReleaseRequest, Releasable, NoRowsYet, TypeOK
  <2>2. OneOutcome'
      BY Zenon, <1>7 DEF ReleaseRequest, Releasable, OneOutcome, TypeOK
  <2>3. SlotImpliesOpen'
      BY <1>7 DEF ReleaseRequest, SlotImpliesOpen, TypeOK
  <2> QED BY <1>1, <2>1, <2>2, <2>3
<1> QED BY <1>2, <1>3, <1>4, <1>5, <1>6, <1>7, RowCases DEF RowStep

\* The usage row, the two reservations and the lease of a request agree in every
\* reachable state: the invariant the safety theorems below rest on.
THEOREM AgreementInvariant == Spec => []Agreement
  BY AgreementInit, AgreementStep, PTL DEF Spec

\* The quota, billing and usage rows of a request never disagree on how it ended,
\* whatever completions, settlements, releases, retries and crashes interleave.
THEOREM OneOutcomeHolds == Spec => []OneOutcome
  BY AgreementInvariant, PTL DEF Agreement

\* A concurrency slot is held only by a request whose reservation is open.
THEOREM SlotImpliesOpenHolds == Spec => []SlotImpliesOpen
  BY AgreementInvariant, PTL DEF Agreement

(***************************************************************************)
(* Concurrency limits.  Only an admission adds a lease row; it adds one to *)
(* the rows it has counted, in each of its scopes.                         *)
(***************************************************************************)

\* A limit that admitted one more holds for the rows afterwards.
LEMMA OneMoreFits ==
  ASSUME NEW S, NEW T, NEW r, NEW limit \in Nat, IsFiniteSet(S), T \subseteq S \cup {r},
         limit # 0, enforceQuota(limit, Cardinality(S))
  PROVE  Cardinality(T) <= limit
<1>1. IsFiniteSet(S \cup {r}) /\ Cardinality(S \cup {r}) <= Cardinality(S) + 1
  <2>1. IsFiniteSet(S \cup {r}) /\ Cardinality(S) \in Nat
      BY FS_AddElement, FS_CardinalityType
  <2>2. Cardinality(S \cup {r}) = Cardinality(S) \/ Cardinality(S \cup {r}) = Cardinality(S) + 1
      BY FS_AddElement
  <2> QED BY <2>1, <2>2
<1>2. Cardinality(T) <= Cardinality(S \cup {r}) /\ Cardinality(T) \in Nat
    BY <1>1, FS_Subset, FS_CardinalityType
<1>3. Cardinality(S) \in Nat /\ Cardinality(S \cup {r}) \in Nat
    BY <1>1, FS_CardinalityType
<1> QED BY <1>1, <1>2, <1>3 DEF enforceQuota

\* A set of lease rows that only loses members stays within its limit.
LEMMA FewerRowsFit ==
  ASSUME NEW S \in SUBSET Requests, NEW T \in SUBSET S, NEW limit \in Nat, Cardinality(S) <= limit
  PROVE  Cardinality(T) <= limit
<1>1. IsFiniteSet(S)
    BY ScopeAssumption, FS_Subset
<1>2. IsFiniteSet(T) /\ Cardinality(T) <= Cardinality(S)
    BY <1>1, FS_Subset
<1> QED BY <1>1, <1>2, FS_CardinalityType

Bounded(S, limit) == limit # 0 => Cardinality(LeaseRows(S)) <= limit

\* The rows of any set of requests that no admission extends stay within a limit.
LEMMA NoNewRowsStep ==
  ASSUME NEW S \in SUBSET Requests, NEW limit \in Nat, Bounded(S, limit),
         \A x \in S : lease'[x] # 0 => lease[x] # 0
  PROVE  Bounded(S, limit)'
  BY FewerRowsFit DEF Bounded, LeaseRows

\* An admission keeps a limit it has enforced.
LEMMA AdmissionFits ==
  ASSUME NEW S \in SUBSET Requests, NEW limit \in Nat, NEW r \in Requests, TypeOK, AdmitRequest(r),
         enforceQuota(limit, Cardinality(LiveLeases(requestedAt[r]) \cap S))
  PROVE  Bounded(S, limit)'
<1> DEFINE L == LiveLeases(requestedAt[r]) \cap S
<1>1. IsFiniteSet(L)
    BY ScopeAssumption, FS_Subset
<1>2. LeaseRows(S)' \subseteq L \cup {r}
    BY AdmittedLease DEF LeaseRows
<1> HIDE DEF L
<1>3. enforceQuota(limit, Cardinality(L))
    BY DEF L
<1> QED BY <1>1, <1>2, <1>3, OneMoreFits DEF Bounded

\* The limits per scope, as one formula.
LEMMA BoundedIsConcurrencyBounded ==
  ConcurrencyBounded <=> /\ Bounded(Requests, GlobalConcurrent)
                         /\ \A s \in Scopes : Bounded(InScope(s), ConcurrentLimit(s))
  BY DEF ConcurrencyBounded, Bounded

\* A configured limit is a number, and the requests of a scope are requests.
LEMMA LimitType == \A s \in Scopes : ConcurrentLimit(s) \in Nat /\ InScope(s) \subseteq Requests
  BY LimitAssumption DEF ConcurrentLimit, InScope

\* Without leases every limit holds.
LEMMA ConcurrencyInit == Init => ConcurrencyBounded
<1> SUFFICES ASSUME Init, NEW S \in SUBSET Requests, NEW limit \in Nat PROVE Bounded(S, limit)
    BY BoundedIsConcurrencyBounded, LimitType, LimitAssumption
<1>1. LeaseRows(S) = {}
    BY DEF Init, LeaseRows
<1> QED BY <1>1, FS_EmptySet DEF Bounded

\* Only an admission adds a lease, and it counts the leases first.
LEMMA ConcurrencyStep == TypeOK /\ ConcurrencyBounded /\ [Next]_vars => ConcurrencyBounded'
<1> SUFFICES ASSUME TypeOK, ConcurrencyBounded, [Next]_vars
             PROVE  /\ Bounded(Requests, GlobalConcurrent)'
                    /\ \A s \in Scopes : Bounded(InScope(s), ConcurrentLimit(s))'
    BY DEF ConcurrencyBounded, Bounded, LeaseRows
<1>1. /\ Bounded(Requests, GlobalConcurrent)
      /\ \A s \in Scopes : Bounded(InScope(s), ConcurrentLimit(s))
    BY Zenon, BoundedIsConcurrencyBounded
<1> USE LimitAssumption, LimitType
<1>2. ASSUME NEW S \in SUBSET Requests, NEW limit \in Nat, Bounded(S, limit),
             \A r \in Requests : ~ AdmitRequest(r)
      PROVE  Bounded(S, limit)'
  <2>1. ASSUME NEW x \in Requests, lease'[x] # 0 PROVE lease[x] # 0
    <3>1. CASE UNCHANGED rows
        BY Zenon, <2>1, <3>1 DEF rows
    <3>2. ASSUME NEW r \in Requests, RowStep(r) PROVE lease[x] # 0
      <4>1. lease \in [Requests -> Nat] /\ ~ AdmitRequest(r)
          BY Zenon, <1>2 DEF TypeOK
      <4>2. CASE RenewQuotaLease(r)
          BY <2>1, <4>1, <4>2, Instants DEF RenewQuotaLease, LeaseRenewable
      <4>3. CASE CompleteUsageTx(r) \/ SettleRequest(r) \/ ReleaseRequest(r)
          BY <2>1, <4>1, <4>3 DEF CompleteUsageTx, SettleRequest, settleQuotaTx, ReleaseRequest
      <4> QED BY Zenon, <3>2, <4>1, <4>2, <4>3 DEF RowStep
    <3> QED BY <3>1, <3>2, RowCases
  <2> QED BY <1>2, <2>1, NoNewRowsStep
<1>3. CASE \A r \in Requests : ~ AdmitRequest(r)
    BY <1>1, <1>2, <1>3
<1>4. ASSUME NEW r \in Requests, AdmitRequest(r)
      PROVE  /\ Bounded(Requests, GlobalConcurrent)'
             /\ \A s \in Scopes : Bounded(InScope(s), ConcurrentLimit(s))'
  <2>1. /\ enforceQuota(GlobalConcurrent, Cardinality(LiveLeases(requestedAt[r])))
        /\ \A s \in ScopesOf(r) :
              enforceQuota(ConcurrentLimit(s), Cardinality(LiveLeases(requestedAt[r]) \cap InScope(s)))
      BY <1>4 DEF AdmitRequest, reserveQuotaLockedTx
  <2>2. LiveLeases(requestedAt[r]) \cap Requests = LiveLeases(requestedAt[r])
      BY DEF LiveLeases
  <2>3. Bounded(Requests, GlobalConcurrent)'
      BY <1>4, <2>1, <2>2, AdmissionFits
  <2>4. ASSUME NEW s \in Scopes PROVE Bounded(InScope(s), ConcurrentLimit(s))'
    <3>1. CASE s \in ScopesOf(r)
        BY Zenon, <1>4, <2>1, <3>1, AdmissionFits
    <3>2. CASE s \notin ScopesOf(r)
      <4>1. \A x \in InScope(s) : lease'[x] # 0 => lease[x] # 0
          BY <1>4, <3>2, AdmittedLease DEF InScope, LiveLeases
      <4> QED BY Zenon, <1>1, <4>1, NoNewRowsStep
    <3> QED BY <3>1, <3>2
  <2> QED BY Zenon, <2>3, <2>4
<1> QED BY <1>3, <1>4

\* No key, no user and not the gateway holds more lease rows than its concurrency
\* limit, for any number of requests and any limits.
THEOREM ConcurrencyHolds == Spec => []ConcurrencyBounded
  BY TypeCorrect, ConcurrencyInit, ConcurrencyStep, PTL DEF Spec

(***************************************************************************)
(* Refinement: each way the rows change is a step of RequestOutcome.       *)
(***************************************************************************)
LEMMA OutcomeStep == Agreement /\ [Next]_vars => [Outcome!Next]_([r \in Requests |-> OutcomeOf(r)])
<1> SUFFICES ASSUME Agreement, [Next]_vars,
                    [r \in Requests |-> OutcomeOf(r)]' # [r \in Requests |-> OutcomeOf(r)]
             PROVE  Outcome!Next
    OBVIOUS
<1>0. \E x \in Requests : ~ UNCHANGED <<quota[x], usage[x]>>
  <2>1. PICK x \in Requests : OutcomeOf(x)' # OutcomeOf(x)
      OBVIOUS
  <2>2. ~ UNCHANGED <<quota[x], usage[x]>>
      BY Zenon, <2>1 DEF OutcomeOf
  <2> QED BY <2>2
<1>1. PICK r \in Requests : RowStep(r)
    BY Zenon, <1>0, RowCases DEF Agreement, rows
<1>2. ASSUME NEW x \in Requests, x # r PROVE quota'[x] = quota[x] /\ usage'[x] = usage[x]
    BY <1>1, <1>2 DEF RowStep, AdmitRequest, reserveQuotaLockedTx, RenewQuotaLease, CompleteUsageTx,
                      SettleRequest, settleQuotaTx, ReleaseRequest, Agreement, TypeOK
<1>3. ASSUME NEW x \in Requests, x # r PROVE OutcomeOf(x)' = OutcomeOf(x)
    BY Zenon, <1>2, <1>3 DEF OutcomeOf
<1>4. ASSUME NEW from, NEW to, OutcomeOf(r) = from, OutcomeOf(r)' = to
      PROVE  Outcome!Move(r, from, to)
    BY Zenon, <1>3, <1>4 DEF Outcome!Move
<1>5. CASE AdmitRequest(r)
    BY <1>4, <1>5
       DEF AdmitRequest, reserveQuotaLockedTx, OutcomeOf, Agreement, NoRowsYet, TypeOK, Outcome!Next, Outcome!Admit
<1>6. CASE RenewQuotaLease(r)
    BY <1>6 DEF RenewQuotaLease, OutcomeOf
<1>7. CASE CompleteUsageTx(r)
    BY <1>4, <1>7 DEF CompleteUsageTx, OutcomeOf, Agreement, OneOutcome, TypeOK, Outcome!Next, Outcome!Perform
<1>8. CASE SettleRequest(r)
  <2>1. quota[r] = "reserved" /\ quota'[r] = "settled" /\ usage[r] # "in_progress"
      BY Zenon, <1>0, <1>2, <1>8 DEF SettleRequest, settleQuotaTx, Agreement, TypeOK
  <2> QED BY Zenon, <1>4, <2>1 DEF OutcomeOf, Outcome!Next, Outcome!Charge
<1>9. CASE ReleaseRequest(r)
    BY <1>4, <1>9 DEF ReleaseRequest, Releasable, OutcomeOf, Agreement, TypeOK, Outcome!Next, Outcome!Void
<1> QED BY <1>1, <1>5, <1>6, <1>7, <1>8, <1>9 DEF RowStep

\* Requests without rows have the outcome "absent".
LEMMA OutcomeInit == Init => Outcome!Init
  BY DEF Init, Outcome!Init, OutcomeOf

\* The lifecycle implements RequestOutcome: an admitted request is charged once
\* after its work was recorded, or voided, and neither ending is ever undone.
THEOREM LifecycleImplementsOutcome == Spec => ImplementsOutcome
  BY AgreementInvariant, OutcomeInit, OutcomeStep, PTL DEF Spec, ImplementsOutcome, Outcome!Spec

(***************************************************************************)
(* The counter tables.  Each row change moves one request into or out of   *)
(* one of the three sets a counter counts, and bumps that counter once.    *)
(***************************************************************************)

\* The counted sets are finite.
LEMMA CountedFinite ==
  ASSUME NEW s, NEW t
  PROVE  IsFiniteSet(HeldOn(s, t)) /\ IsFiniteSet(SettledOn(s, t)) /\ IsFiniteSet(AdmittedIn(s, t))
<1>1. HeldOn(s, t) \subseteq Requests /\ SettledOn(s, t) \subseteq Requests /\ AdmittedIn(s, t) \subseteq Requests
    BY DEF HeldOn, SettledOn, AdmittedIn, InScope
<1> QED BY <1>1, ScopeAssumption, FS_Subset

\* The day of a request with rows does not move.
LEMMA InstantKept ==
  ASSUME Agreement, [Next]_vars, NEW x \in Requests, quota[x] # "none"
  PROVE  requestedAt'[x] = requestedAt[x]
  BY Zenon, HandlerCases DEF Agreement, NoRowsYet

\* All counters start at zero and nothing is counted.
LEMMA CountersInit == Init => CountersReconcile
<1> SUFFICES ASSUME Init, NEW s \in Scopes, NEW t \in Times
             PROVE  /\ reserved[s][t] = Cardinality(HeldOn(s, t))
                    /\ completed[s][t] = Cardinality(SettledOn(s, t))
                    /\ rate[s][t] = Cardinality(AdmittedIn(s, t))
    BY Zenon DEF CountersReconcile
<1>1. HeldOn(s, t) = {} /\ SettledOn(s, t) = {} /\ AdmittedIn(s, t) = {}
    BY DEF Init, HeldOn, SettledOn, AdmittedIn, InScope
<1>2. reserved[s][t] = 0 /\ completed[s][t] = 0 /\ rate[s][t] = 0
    BY Zenon DEF Init
<1> QED BY Zenon, <1>1, <1>2, FS_EmptySet

\* A counter moves exactly when a request enters or leaves what it counts.
LEMMA CountersStep == Agreement /\ CountersReconcile /\ [Next]_vars => CountersReconcile'
<1> SUFFICES ASSUME Agreement, CountersReconcile, [Next]_vars, NEW s \in Scopes, NEW t \in Times
             PROVE  (/\ reserved[s][t] = Cardinality(HeldOn(s, t))
                     /\ completed[s][t] = Cardinality(SettledOn(s, t))
                     /\ rate[s][t] = Cardinality(AdmittedIn(s, t)))'
    BY Zenon DEF CountersReconcile
<1>1. /\ reserved[s][t] = Cardinality(HeldOn(s, t))
      /\ completed[s][t] = Cardinality(SettledOn(s, t))
      /\ rate[s][t] = Cardinality(AdmittedIn(s, t))
    BY Zenon DEF CountersReconcile
<1>2. /\ reserved \in [Scopes -> [Times -> Nat]] /\ completed \in [Scopes -> [Times -> Nat]]
      /\ rate \in [Scopes -> [Times -> Nat]] /\ quota \in [Requests -> ReservationState]
      /\ \A x \in Requests : requestedAt[x] \in Times /\ DayOf[requestedAt[x]] \in Times
    BY Zenon, DayType DEF Agreement, TypeOK
<1>3. ASSUME quota' = quota PROVE UNCHANGED <<HeldOn(s, t), SettledOn(s, t), AdmittedIn(s, t)>>
    BY Zenon, <1>3, InstantKept DEF HeldOn, SettledOn, AdmittedIn, InScope
<1>4. CASE UNCHANGED <<quota, reserved, completed, rate>>
    BY Zenon, <1>1, <1>3, <1>4
<1>5. ASSUME NEW r \in Requests, AdmitRequest(r)
      PROVE (/\ reserved[s][t] = Cardinality(HeldOn(s, t))
             /\ completed[s][t] = Cardinality(SettledOn(s, t))
             /\ rate[s][t] = Cardinality(AdmittedIn(s, t)))'
  <2> DEFINE at == requestedAt[r]
  <2>1. /\ rate' = Bump(rate, r, at, 1) /\ reserved' = Bump(reserved, r, DayOf[at], 1)
        /\ completed' = completed /\ quota' = [quota EXCEPT ![r] = "reserved"]
        /\ quota[r] = "none" /\ requestedAt' = requestedAt
      BY Zenon, <1>5 DEF AdmitRequest, reserveQuotaLockedTx, Agreement, NoRowsYet
  <2>2. SettledOn(s, t)' = SettledOn(s, t)
      BY Zenon, <1>2, <2>1 DEF SettledOn, InScope
  <2>3. reserved'[s][t] = Cardinality(HeldOn(s, t)')
    <3>1. CASE s \in ScopesOf(r) /\ t = DayOf[at]
      <4>1. HeldOn(s, t)' = HeldOn(s, t) \cup {r} /\ r \notin HeldOn(s, t)
          BY Zenon, <1>2, <2>1, <3>1 DEF HeldOn, InScope
      <4>2. reserved'[s][t] = reserved[s][t] + 1
          BY Zenon, <1>2, <2>1, <3>1 DEF Bump
      <4> QED BY ZenonT(30), <1>1, <4>1, <4>2, CountedFinite, FS_AddElement
    <3>2. CASE s \notin ScopesOf(r) \/ t # DayOf[at]
      <4>1. HeldOn(s, t)' = HeldOn(s, t)
          BY Zenon, <1>2, <2>1, <3>2 DEF HeldOn, InScope
      <4>2. reserved'[s][t] = reserved[s][t]
          BY Zenon, <1>2, <2>1, <3>2 DEF Bump
      <4> QED BY Zenon, <1>1, <4>1, <4>2
    <3> QED BY <3>1, <3>2
  <2>4. rate'[s][t] = Cardinality(AdmittedIn(s, t)')
    <3>1. CASE s \in ScopesOf(r) /\ t = at
      <4>1. AdmittedIn(s, t)' = AdmittedIn(s, t) \cup {r} /\ r \notin AdmittedIn(s, t)
          BY Zenon, <1>2, <2>1, <3>1 DEF AdmittedIn, InScope
      <4>2. rate'[s][t] = rate[s][t] + 1
          BY Zenon, <1>2, <2>1, <3>1 DEF Bump
      <4> QED BY Zenon, <1>1, <4>1, <4>2, CountedFinite, FS_AddElement
    <3>2. CASE s \notin ScopesOf(r) \/ t # at
      <4>1. AdmittedIn(s, t)' = AdmittedIn(s, t)
          BY Zenon, <1>2, <2>1, <3>2 DEF AdmittedIn, InScope
      <4>2. rate'[s][t] = rate[s][t]
          BY Zenon, <1>2, <2>1, <3>2 DEF Bump
      <4> QED BY Zenon, <1>1, <4>1, <4>2
    <3> QED BY <3>1, <3>2
  <2> QED BY Zenon, <1>1, <2>1, <2>2, <2>3, <2>4
<1>6. ASSUME NEW r \in Requests, SettleRequest(r), quota[r] = "reserved"
      PROVE (/\ reserved[s][t] = Cardinality(HeldOn(s, t))
             /\ completed[s][t] = Cardinality(SettledOn(s, t))
             /\ rate[s][t] = Cardinality(AdmittedIn(s, t)))'
  <2> DEFINE day == DayOf[requestedAt[r]]
  <2>1. /\ completed' = Bump(completed, r, day, 1) /\ UNCHANGED <<reserved, rate>>
        /\ quota' = [quota EXCEPT ![r] = "settled"]
      BY <1>6 DEF SettleRequest, settleQuotaTx
  <2>2. \A x \in Requests : quota[x] # "none" => requestedAt'[x] = requestedAt[x]
      BY InstantKept
  <2>3. HeldOn(s, t)' = HeldOn(s, t) /\ AdmittedIn(s, t)' = AdmittedIn(s, t)
      BY Zenon, <1>2, <1>6, <2>1, <2>2 DEF HeldOn, AdmittedIn, InScope
  <2>4. completed'[s][t] = Cardinality(SettledOn(s, t)')
    <3>1. CASE s \in ScopesOf(r) /\ t = day
      <4>1. SettledOn(s, t)' = SettledOn(s, t) \cup {r} /\ r \notin SettledOn(s, t)
          BY ZenonT(30), <1>2, <1>6, <2>1, <2>2, <3>1 DEF SettledOn, InScope
      <4>2. completed'[s][t] = completed[s][t] + 1
          BY Zenon, <1>2, <2>1, <3>1 DEF Bump
      <4> QED BY Zenon, <1>1, <4>1, <4>2, CountedFinite, FS_AddElement
    <3>2. CASE s \notin ScopesOf(r) \/ t # day
      <4>1. SettledOn(s, t)' = SettledOn(s, t)
          BY Zenon, <1>2, <1>6, <2>1, <2>2, <3>2 DEF SettledOn, InScope
      <4>2. completed'[s][t] = completed[s][t]
          BY Zenon, <1>2, <2>1, <3>2 DEF Bump
      <4> QED BY Zenon, <1>1, <4>1, <4>2
    <3> QED BY <3>1, <3>2
  <2> QED BY Zenon, <1>1, <2>1, <2>3, <2>4
<1>7. ASSUME NEW r \in Requests, ReleaseRequest(r)
      PROVE (/\ reserved[s][t] = Cardinality(HeldOn(s, t))
             /\ completed[s][t] = Cardinality(SettledOn(s, t))
             /\ rate[s][t] = Cardinality(AdmittedIn(s, t)))'
  <2> DEFINE day == DayOf[requestedAt[r]]
  <2>1. /\ reserved' = Bump(reserved, r, day, -1) /\ UNCHANGED <<completed, rate>>
        /\ quota' = [quota EXCEPT ![r] = "released"] /\ quota[r] = "reserved"
      BY Zenon, <1>7 DEF ReleaseRequest, Releasable
  <2>2. \A x \in Requests : quota[x] # "none" => requestedAt'[x] = requestedAt[x]
      BY InstantKept
  <2>3. SettledOn(s, t)' = SettledOn(s, t) /\ AdmittedIn(s, t)' = AdmittedIn(s, t)
      BY <1>2, <2>1, <2>2 DEF SettledOn, AdmittedIn, InScope
  <2>4. reserved'[s][t] = Cardinality(HeldOn(s, t)')
    <3>1. CASE s \in ScopesOf(r) /\ t = day
      <4>1. HeldOn(s, t)' = HeldOn(s, t) \ {r} /\ r \in HeldOn(s, t)
          BY Zenon, <1>2, <2>1, <2>2, <3>1 DEF HeldOn, InScope
      <4>2. reserved'[s][t] = reserved[s][t] - 1
          BY Zenon, <1>2, <2>1, <3>1 DEF Bump
      <4> QED BY ZenonT(30), <1>1, <4>1, <4>2, CountedFinite, FS_RemoveElement
    <3>2. CASE s \notin ScopesOf(r) \/ t # day
      <4>1. HeldOn(s, t)' = HeldOn(s, t)
          BY Zenon, <1>2, <2>1, <2>2, <3>2 DEF HeldOn, InScope
      <4>2. reserved'[s][t] = reserved[s][t]
          BY <1>2, <2>1, <3>2 DEF Bump
      <4> QED BY <1>1, <4>1, <4>2
    <3> QED BY <3>1, <3>2
  <2> QED BY Zenon, <1>1, <2>1, <2>3, <2>4
<1>8. ASSUME NEW r \in Requests, RowStep(r), ~ AdmitRequest(r), ~ ReleaseRequest(r),
             ~ (SettleRequest(r) /\ quota[r] = "reserved")
      PROVE  UNCHANGED <<quota, reserved, completed, rate>>
    BY Zenon, <1>8 DEF RowStep, RenewQuotaLease, CompleteUsageTx, SettleRequest, settleQuotaTx
<1>9. UNCHANGED rows \/ \E r \in Requests : RowStep(r)
    BY RowCases DEF Agreement
<1> QED BY Zenon, <1>4, <1>5, <1>6, <1>7, <1>8, <1>9 DEF rows

\* The daily counters and the rate windows always equal what they count: the
\* requests admitted, settled and not released, per key and per user.
THEOREM CountersHold == Spec => []CountersReconcile
  BY AgreementInvariant, CountersInit, CountersStep, PTL DEF Spec

(***************************************************************************)
(* Live requests.  When its renewals keep up, a running handler's lease is *)
(* ahead of the clock; so what a sweep lists has no such handler, and      *)
(* never gets one again.                                                   *)
(***************************************************************************)
Ahead(r) ==
    /\ Renewing(r) => quota[r] \in {"reserved", "settled"}
    /\ Renewing(r) /\ quota[r] = "reserved" => lease[r] > now
    /\ handler[r] = "admitting" => now < requestedAt[r] + LeaseTTL
    /\ sweep.phase = "release" /\ r \in sweep.pending => handler[r] = "done"

\* A captured instant is not in the future, so an admission deletes no lease
\* that is ahead of the clock.
CapturedInPast == \A r \in Requests : handler[r] = "admitting" => requestedAt[r] <= now

LeaseAhead == \A r \in TimelyRequests : Ahead(r)

Timely == Agreement /\ CapturedInPast /\ LeaseAhead

\* At the start no handler runs and no sweep is in progress.
LEMMA TimelyInit == Init => Timely
<1> SUFFICES ASSUME Init PROVE CapturedInPast /\ LeaseAhead
    BY AgreementInit DEF Timely
<1>1. CapturedInPast
    BY DEF Init, CapturedInPast
<1>2. ASSUME NEW r \in TimelyRequests PROVE Ahead(r)
  <2>1. handler[r] = "idle" /\ sweep.phase = "idle"
      BY Zenon, TimeAssumption DEF Init
  <2> QED BY Zenon, <2>1 DEF Ahead, Renewing
<1> QED BY <1>1, <1>2 DEF LeaseAhead

\* The instant a handler captured stays in the past.
LEMMA CapturedStep == Agreement /\ CapturedInPast /\ [Next]_vars => CapturedInPast'
<1> SUFFICES ASSUME Agreement, CapturedInPast, [Next]_vars, NEW x \in Requests,
                    handler'[x] = "admitting"
             PROVE  requestedAt'[x] <= now'
    BY Zenon DEF CapturedInPast
<1>1. TypeOK /\ now \in Nat /\ requestedAt[x] \in Nat
    BY Instants DEF Agreement, TypeOK
<1>2. CASE Tick
  <2>1. UNCHANGED <<handler, requestedAt>> /\ now' = now + 1
      BY Zenon, <1>2 DEF Tick
  <2> QED BY <1>1, <2>1 DEF CapturedInPast
<1>3. ASSUME NEW r \in Requests, Arrive(r) PROVE requestedAt'[x] <= now'
    BY <1>1, <1>3 DEF Arrive, TypeOK, CapturedInPast
<1>4. CASE UNCHANGED <<now, requestedAt>> /\ handler[x] = "admitting"
    BY Zenon, <1>4 DEF CapturedInPast
<1>5. ASSUME NEW r \in Requests, RenewQuotaLease(r) PROVE UNCHANGED <<now, requestedAt>> /\ handler[x] = "admitting"
    BY Zenon, <1>5 DEF RenewQuotaLease
<1>6. ASSUME NEW r \in Requests, Handler(r) PROVE UNCHANGED <<now, requestedAt>> /\ handler[x] = "admitting"
  <2>1. \E h \in HandlerState \ {"admitting"} : handler' = [handler EXCEPT ![r] = h] \/ UNCHANGED handler
      BY Zenon, <1>6 DEF Handler, AdmitRequest, RejectRequest, CompleteUsageRequest, CompletionFails,
                  CompletionConflicts, HandlerSettles, HandlerState
  <2>2. UNCHANGED <<now, requestedAt>>
      BY <1>6 DEF Handler, AdmitRequest, RejectRequest, CompleteUsageRequest, CompletionFails,
                  CompletionConflicts, HandlerSettles
  <2> QED BY Zenon, <1>1, <2>1, <2>2 DEF TypeOK
<1>7. CASE Maintenance
  <2>1. UNCHANGED <<now, handler, requestedAt>>
      BY Zenon, <1>7 DEF Maintenance, ListUnsettled, ListStale, EndSweep, AbortList, SweepOne,
                  RetryUnsettled, ReleaseStale, SkipConflict, sweepUnchanged
  <2> QED BY Zenon, <1>4, <2>1
<1>8. CASE Crash
    BY <1>4, <1>8 DEF Crash
<1>9. CASE UNCHANGED vars
    BY Zenon, <1>4, <1>9 DEF vars
<1> QED BY Zenon, <1>2, <1>3, <1>4, <1>5, <1>6, <1>7, <1>8, <1>9 DEF Next

\* One step keeps the lease of a handler that renews in time ahead of the clock.
LEMMA AheadStep ==
  ASSUME Agreement, CapturedInPast, [Next]_vars, NEW x \in TimelyRequests, Ahead(x)
  PROVE  Ahead(x)'
<1>1. Ahead(x) /\ x \in Requests
    BY TimeAssumption
<1>2. TypeOK /\ NoRowsYet
    BY DEF Agreement
<1>3. now \in Nat /\ requestedAt[x] \in Nat /\ lease[x] \in Nat /\ handler[x] \in HandlerState
  <2>1. now \in Times /\ requestedAt[x] \in Times /\ lease[x] \in Nat /\ handler[x] \in HandlerState
      BY Zenon, <1>1, <1>2 DEF TypeOK
  <2> QED BY Zenon, <2>1, Instants
<1>4. CASE Tick
  <2>1. UNCHANGED <<handler, requestedAt, quota, lease, sweep>> /\ now' = now + 1
      BY Zenon, <1>4 DEF Tick, rows
  <2>2. /\ Renewing(x) /\ quota[x] = "reserved" => lease[x] > now + 1
        /\ handler[x] = "admitting" => requestedAt[x] + LeaseTTL > now + 1
      BY Zenon, <1>4 DEF Tick
  <2> QED BY Zenon, <1>1, <1>3, <2>1, <2>2, Durations DEF Ahead, Renewing
<1>5. CASE Crash
    BY Zenon, <1>1, <1>5 DEF Crash, rows, Ahead, Renewing
<1>6. CASE ListUnsettled \/ EndSweep
  <2>1. sweep'.phase \in {"retry", "idle"}
      BY <1>6 DEF ListUnsettled, EndSweep
  <2>2. UNCHANGED <<now, handler, requestedAt, quota, lease>>
      BY <1>6 DEF ListUnsettled, EndSweep, sweepUnchanged, rows
  <2> QED BY Zenon, <1>1, <2>1, <2>2 DEF Ahead, Renewing
<1>7. CASE ListStale
  <2>1. CASE x \in StaleReservations(sweep.at - StaleAfter)
    <3>1. quota[x] = "reserved" /\ ~ (lease[x] > now)
        BY <1>3, <2>1 DEF StaleReservations
    <3>2. handler[x] \notin {"idle", "admitting"} /\ ~ Renewing(x)
        BY <1>1, <1>2, <3>1 DEF NoRowsYet, Ahead
    <3>3. handler[x] = "done"
        BY <1>3, <3>2 DEF Renewing, HandlerState
    <3> QED BY Zenon, <1>1, <1>7, <3>3 DEF ListStale, sweepUnchanged, rows, Ahead, Renewing
  <2>2. CASE x \notin StaleReservations(sweep.at - StaleAfter)
    <3>1. x \notin sweep'.pending
        BY Zenon, <1>2, <1>7, <2>2 DEF ListStale, TypeOK
    <3> QED BY <1>1, <1>7, <3>1 DEF ListStale, sweepUnchanged, rows, Ahead, Renewing
  <2> QED BY <2>1, <2>2
<1>8. ASSUME sweepUnchanged, sweep'.pending \subseteq sweep.pending, sweep'.phase = sweep.phase,
             \/ UNCHANGED rows
             \/ \E r \in sweep.pending : SettleRequest(r) \/ (sweep.phase = "release" /\ ReleaseRequest(r))
      PROVE  Ahead(x)'
  <2>1. CASE UNCHANGED rows
      BY Zenon, <1>1, <1>8, <2>1 DEF sweepUnchanged, rows, Ahead, Renewing
  <2>2. ASSUME NEW r \in sweep.pending, SettleRequest(r) PROVE Ahead(x)'
    <3>1. (quota'[x] = quota[x] /\ lease'[x] = lease[x]) \/ quota'[x] = "settled"
        BY <1>1, <1>2, <2>2 DEF SettleRequest, settleQuotaTx, TypeOK
    <3> QED BY Zenon, <1>1, <1>8, <3>1 DEF sweepUnchanged, Ahead, Renewing
  <2>3. ASSUME NEW r \in sweep.pending, sweep.phase = "release", ReleaseRequest(r) PROVE Ahead(x)'
    <3>1. (quota'[x] = quota[x] /\ lease'[x] = lease[x]) \/ handler[x] = "done"
        BY <1>1, <1>2, <2>3 DEF ReleaseRequest, TypeOK, Ahead
    <3> QED BY ZenonT(30), <1>1, <1>8, <3>1 DEF sweepUnchanged, Ahead, Renewing
  <2> QED BY Zenon, <1>8, <2>1, <2>2, <2>3
<1>9. CASE AbortList
  <2>1. sweep'.pending = {} /\ sweep'.phase = sweep.phase
      BY <1>2, <1>9 DEF AbortList, TypeOK
  <2> QED BY <1>8, <1>9, <2>1 DEF AbortList
<1>10. ASSUME NEW r \in Requests, SweepOne(r) PROVE Ahead(x)'
  <2>1. sweep'.pending = sweep.pending \ {r} /\ sweep'.phase = sweep.phase
      BY <1>2, <1>10 DEF SweepOne, RetryUnsettled, ReleaseStale, SkipConflict, TypeOK
  <2> QED BY <1>8, <1>10, <2>1 DEF SweepOne, RetryUnsettled, ReleaseStale, SkipConflict
<1>11. ASSUME NEW r \in Requests, Arrive(r) PROVE Ahead(x)'
  <2>1. UNCHANGED <<now, quota, lease, sweep>> /\ handler[r] = "idle"
      BY Zenon, <1>11 DEF Arrive, rows
  <2>2. CASE x = r
    <3>1. handler'[x] = "admitting" /\ requestedAt'[x] = now
        BY Zenon, <1>2, <1>11, <2>2 DEF Arrive, TypeOK
    <3>2. now' < requestedAt'[x] + LeaseTTL
        BY <1>3, <2>1, <3>1, Durations
    <3> QED BY Zenon, <1>1, <2>1, <2>2, <3>1, <3>2 DEF Ahead, Renewing
  <2>3. CASE x # r
    <3>1. handler'[x] = handler[x] /\ requestedAt'[x] = requestedAt[x]
        BY <1>2, <1>11, <2>3 DEF Arrive, TypeOK
    <3> QED BY Zenon, <1>1, <2>1, <3>1 DEF Ahead, Renewing
  <2> QED BY <2>2, <2>3
<1>12. ASSUME NEW r \in Requests, RenewQuotaLease(r) PROVE Ahead(x)'
  <2>1. lease'[x] = lease[x] \/ lease'[x] > now
    <3>1. PICK at \in Times : /\ now - RenewalDelay <= at
                              /\ lease' = [lease EXCEPT ![r] = at + LeaseTTL]
        BY Zenon, <1>12 DEF RenewQuotaLease
    <3>2. RenewalDelay < LeaseTTL
        BY TimeAssumption
    <3>3. at \in Nat
        BY Instants
    <3>4. \A n, d, t, l \in Nat : n - d <= t /\ d < l => t + l > n
        OBVIOUS
    <3>5. at + LeaseTTL > now
        BY Zenon, <1>3, <3>1, <3>2, <3>3, <3>4, Durations
    <3> QED BY <1>2, <3>1, <3>5 DEF TypeOK
  <2> QED BY Zenon, <1>1, <1>12, <2>1 DEF RenewQuotaLease, Ahead, Renewing
<1>13. ASSUME NEW r \in Requests, AdmitRequest(r) PROVE Ahead(x)'
  <2>1. /\ UNCHANGED <<now, requestedAt, sweep>> /\ quota' = [quota EXCEPT ![r] = "reserved"]
        /\ handler[r] = "admitting" /\ (x # r => handler'[x] = handler[x])
        /\ handler'[r] \in {"forwarding", "done"}
      BY <1>2, <1>13 DEF AdmitRequest, reserveQuotaLockedTx, TypeOK
  <2>2. requestedAt[r] <= now /\ requestedAt[r] \in Nat
      BY <1>2, <2>1, Instants DEF CapturedInPast, TypeOK
  <2>3. CASE x = r
    <3>1. lease'[x] = requestedAt[r] + LeaseTTL
        BY Zenon, <1>13, <2>3, AdmittedLease
    <3>2. quota'[x] = "reserved"
        BY <1>2, <2>1, <2>3 DEF TypeOK
    <3>3. now < requestedAt[r] + LeaseTTL
        BY Zenon, <1>1, <2>1, <2>3 DEF Ahead
    <3> QED BY Zenon, <1>1, <2>1, <2>2, <2>3, <3>1, <3>2, <3>3 DEF Ahead, Renewing
  <2>4. CASE x # r
    <3>1. lease[x] > now => x \in LiveLeases(requestedAt[r])
        BY <1>1, <1>3, <2>2 DEF LiveLeases
    <3>2. lease'[x] = IF x \in LiveLeases(requestedAt[r]) THEN lease[x] ELSE 0
        BY Zenon, <1>1, <1>13, <2>4, AdmittedLease
    <3>3. quota'[x] = quota[x]
        BY <2>1, <2>4
    <3> QED BY Zenon, <1>1, <2>1, <2>4, <3>1, <3>2, <3>3 DEF Ahead, Renewing
  <2> QED BY <2>3, <2>4
<1>14. ASSUME NEW r \in Requests, RejectRequest(r) \/ CompletionConflicts(r) PROVE Ahead(x)'
    BY <1>1, <1>2, <1>14 DEF RejectRequest, CompletionConflicts, rows, Ahead, Renewing, TypeOK
<1>15. ASSUME NEW r \in Requests, CompleteUsageRequest(r) \/ CompletionFails(r) PROVE Ahead(x)'
  <2>1. UNCHANGED <<now, requestedAt, quota, lease, sweep>>
      BY Zenon, <1>15 DEF CompleteUsageRequest, CompletionFails, CompleteUsageTx, rows
  <2>2. handler'[x] = handler[x] \/ (handler[x] = "forwarding" /\ handler'[x] \in {"settling", "done"})
      BY Zenon, <1>1, <1>2, <1>15 DEF CompleteUsageRequest, CompletionFails, TypeOK
  <2> QED BY Zenon, <1>1, <2>1, <2>2 DEF Ahead, Renewing
<1>16. ASSUME NEW r \in Requests, HandlerSettles(r) PROVE Ahead(x)'
  <2>1. /\ UNCHANGED <<now, requestedAt, sweep>>
        /\ handler'[x] = handler[x] \/ handler'[x] = "done"
        /\ (quota'[x] = quota[x] /\ lease'[x] = lease[x]) \/ quota'[x] = "settled"
      BY ZenonT(30), <1>1, <1>2, <1>16 DEF HandlerSettles, SettleRequest, settleQuotaTx, rows, TypeOK
  <2> QED BY Zenon, <1>1, <2>1 DEF Ahead, Renewing
<1>17. CASE UNCHANGED vars
    BY <1>1, <1>17 DEF vars, rows, Ahead, Renewing
<1> QED BY Zenon, <1>4, <1>5, <1>6, <1>7, <1>9, <1>10, <1>11, <1>12, <1>13, <1>14, <1>15, <1>16, <1>17
        DEF Next, Maintenance, Handler

\* The three parts of Timely are kept together.
LEMMA TimelyStep == Timely /\ [Next]_vars => Timely'
  BY AheadStep, AgreementStep, CapturedStep DEF Timely, LeaseAhead

\* If the handlers renew in time, no request is released under a running handler,
\* although the sweep acts on lists that are older than its releases.
THEOREM LiveRequestKeptHolds == Spec => []LiveRequestKept
<1>1. Timely => LiveRequestKept
    BY DEF Timely, LeaseAhead, Ahead, LiveRequestKept
<1> QED BY <1>1, TimelyInit, TimelyStep, PTL DEF Spec
=============================================================================
