----------------------------- MODULE Summaries -----------------------------
(***************************************************************************)
(* Daily and monthly usage summaries that outlive the request details they *)
(* were computed from (store/usage.go, store/information_worker.go,        *)
(* maintenance/jobs.go).  A day is recomputed from the details while it is *)
(* yesterday; a month is recomputed from the details, or, once a cleanup   *)
(* cutoff lies inside it, from the kept days; details expire; a cleanup    *)
(* job removes everything before its cutoff.  Every one of these is a      *)
(* transaction under the maintenance lock.                                 *)
(*                                                                         *)
(* The clock counts days.  One dimension tuple (user, key, model, ...) is  *)
(* modelled: rows of different tuples never meet.  A summary is its        *)
(* request_count; the other columns are sums over the same rows.           *)
(***************************************************************************)
EXTENDS Clock, FiniteSets, FiniteSetsExt

CONSTANTS
    Counted,            \* usage requests
    MonthLength,        \* days in a month
    DetailDays,         \* retention of details: 90 days, more than two months
    RunnerDelay,        \* days that may pass between reading the clock and storing a row
    MaxCutoffs,         \* bound on cleanup jobs
    LastAdmission,      \* bound: last day on which requests arrive
    SummaryHorizon      \* bound on the clock

ASSUME SummaryAssumption ==
    /\ MonthLength \in Nat \ {0} /\ DetailDays \in Nat /\ DetailDays >= 2 * MonthLength
    /\ RunnerDelay \in Nat /\ MaxCutoffs \in Nat /\ LastAdmission \in Nat /\ SummaryHorizon \in Nat

VARIABLES
    detail,             \* usage_requests: state, requested and completed day
    daily,              \* usage_daily by day
    monthly,            \* usage_monthly by month
    cleanup,            \* the newest cleanup job and the largest cutoff of all jobs
    cutoffs             \* number of jobs created

summaryVars == <<detail, daily, monthly, cleanup, cutoffs>>

Days == 0..SummaryHorizon
MonthOf(d) == d \div MonthLength
MonthStart(m) == m * MonthLength
ClockReadings == {t \in 0..now : now - t <= RunnerDelay}
Months == {MonthOf(d) : d \in Days}

\* No row: no count.
NoSummary == [count |-> 0, at |-> Never]
Missing == [state |-> "absent", requested |-> 0, completed |-> 0, open |-> FALSE]

SummaryInit ==
    /\ detail = [r \in Counted |-> Missing]
    /\ daily = [d \in Days |-> NoSummary]
    /\ monthly = [m \in Months |-> 0]
    /\ cleanup = [status |-> "none", cutoff |-> Never, largest |-> Never]
    /\ cutoffs = 0

-----------------------------------------------------------------------------
(* Requests *)

\* Admission stores the row; the reservations are open until it is settled.
RecordRequest(r) ==
    /\ detail[r].state = "absent" /\ now <= LastAdmission
    /\ detail' = [detail EXCEPT ![r] = [state |-> "in_progress", requested |-> now,
                                        completed |-> 0, open |-> TRUE]]
    /\ UNCHANGED <<daily, monthly, cleanup, cutoffs>>

\* CompleteUsageRequest, which may come days later (a gateway that was down):
\* completed_at is the caller's instant, read before the row is stored.
CompleteDetail(r) ==
    /\ detail[r].state = "in_progress"
    /\ \E at \in ClockReadings :
        /\ at >= detail[r].requested
        /\ detail' = [detail EXCEPT ![r].state = "completed", ![r].completed = at]
    /\ UNCHANGED <<daily, monthly, cleanup, cutoffs>>

SettleDetail(r) ==
    /\ detail[r].state = "completed" /\ detail[r].open
    /\ detail' = [detail EXCEPT ![r].open = FALSE]
    /\ UNCHANGED <<daily, monthly, cleanup, cutoffs>>

Completed == {r \in Counted : detail[r].state = "completed"}
OfDay(rs, d) == {r \in rs : detail[r].requested = d}
OfMonth(rs, m) == {r \in rs : MonthOf(detail[r].requested) = m}

-----------------------------------------------------------------------------
(* Aggregation *)

\* The watermark: GREATEST(now(), max(completed_at)).
Watermark(rs) == Max({now} \cup {detail[r].completed : r \in rs})

FromDetails(d) ==
    LET rs == OfDay(Completed, d)
    IN  IF rs = {} THEN NoSummary ELSE [count |-> Cardinality(rs), at |-> Watermark(rs)]

\* AggregateUsageDay: not for a day before the cutoff of any job.
RecomputeDay(d) ==
    /\ daily' = IF cleanup.largest > d THEN daily ELSE [daily EXCEPT ![d] = FromDetails(d)]
    /\ UNCHANGED <<detail, monthly, cleanup, cutoffs>>

AggregateUsageDay(d) == RecomputeDay(d)

\* Completions the kept row has not seen: they are newer than its watermark.
LateThan(row, rs) == {r \in rs : detail[r].completed > row.at}

\* mutant: the watermark of the kept row is not consulted
EveryDetail(row, rs) == rs

Late(row, rs) == LateThan(row, rs)

\* persistInformationMonthDaysTx: for every kept day, the row plus its late
\* completions competes with a full recount; the larger wins, a tie goes to
\* the recount.
PersistedDay(d) ==
    LET row == daily[d]
        rs == OfDay(Completed, d)
        late == Late(row, rs)
        kept == [count |-> row.count + Cardinality(late),
                 at |-> Max({row.at} \cup {detail[r].completed : r \in late})]
        recount == FromDetails(d)
    IN  IF row = NoSummary THEN recount
        ELSE IF recount.count >= kept.count THEN recount ELSE kept

persistInformationMonthDay(d) == PersistedDay(d)

KeptDays(m, from) == {d \in Days : MonthOf(d) = m /\ d >= from}

\* rebuildInformationMonthTx: persist the kept days, then add them up.
Rebuild(m, from) ==
    /\ daily' = [d \in Days |-> IF d \in KeptDays(m, from) THEN persistInformationMonthDay(d) ELSE daily[d]]
    /\ monthly' = [monthly EXCEPT ![m] = MapThenSumSet(LAMBDA d : daily'[d].count, KeptDays(m, from))]

\* AggregateUsageMonth: a month before the cutoff is left alone, the month of
\* the cutoff is rebuilt from its kept days, an old month from all its days,
\* any other is counted from the details.
RecomputeMonth(m) ==
    LET cutoff == cleanup.largest
        inside == cutoff >= MonthStart(m)
    IN  /\ IF cutoff >= MonthStart(m + 1) THEN UNCHANGED <<daily, monthly>>
           ELSE IF inside \/ MonthStart(m) < now - DetailDays
           THEN Rebuild(m, IF inside THEN cutoff ELSE MonthStart(m))
           ELSE /\ monthly' = [monthly EXCEPT ![m] = Cardinality(OfMonth(Completed, m))]
                /\ UNCHANGED daily
        /\ UNCHANGED <<detail, cleanup, cutoffs>>

AggregateUsageMonth(m) == RecomputeMonth(m)

\* runOnce reads the clock, then aggregates yesterday, this month and the
\* previous month; each is a transaction of its own that may fail, and that may
\* have waited past midnight for the maintenance lock.
RunAggregation ==
    \E at \in ClockReadings :
        \/ at >= 1 /\ AggregateUsageDay(at - 1)
        \/ \E m \in {MonthOf(at), MonthOf(at) - 1} \cap Months : AggregateUsageMonth(m)

-----------------------------------------------------------------------------
(* Retention and cleanup *)

Expire(rs) == detail' = [r \in Counted |-> IF r \in rs THEN [detail[r] EXCEPT !.state = "deleted"] ELSE detail[r]]

\* DeleteUsageRequestsBefore
ExpireDetails ==
    /\ LET old == {r \in Completed : ~detail[r].open /\ detail[r].completed < now - DetailDays}
       IN  old # {} /\ Expire(old)
    /\ UNCHANGED <<daily, monthly, cleanup, cutoffs>>

Unfinished == cleanup.status = "running"

\* CreateInformationCleanupJob: at most one unfinished job, which keeps the
\* last whole day at least.
CreateCleanup ==
    /\ ~Unfinished /\ cutoffs < MaxCutoffs
    /\ \E c \in 1..(now - 1) : cleanup' = [status |-> "running", cutoff |-> c,
                                     largest |-> Max({c, cleanup.largest})]
    /\ cutoffs' = cutoffs + 1
    /\ UNCHANGED <<detail, daily, monthly>>

\* A batch of the job while there are details to delete.
CleanDetails ==
    /\ Unfinished
    /\ LET old == {r \in Completed : detail[r].requested < cleanup.cutoff /\ ~detail[r].open}
       IN  /\ old # {}
           /\ \E rs \in SUBSET old : rs # {} /\ Expire(rs)
    /\ UNCHANGED <<daily, monthly, cleanup, cutoffs>>

OldDays == {d \in Days : daily[d] # NoSummary /\ d < cleanup.cutoff}
OldMonths == {m \in Months : monthly[m] > 0 /\ m < MonthOf(cleanup.cutoff)}

\* finishInformationSummaries: the oldest days and months go first; when none
\* is left the month of the cutoff is rebuilt and the job completes.
finishInformationSummaries ==
    /\ Unfinished
    /\ {r \in Completed : detail[r].requested < cleanup.cutoff /\ ~detail[r].open} = {}
    /\ IF OldDays \cup OldMonths # {}
       THEN /\ daily' = [d \in Days |-> IF OldDays # {} /\ d = Min(OldDays) THEN NoSummary ELSE daily[d]]
            /\ monthly' = [m \in Months |-> IF OldMonths # {} /\ m = Min(OldMonths) THEN 0 ELSE monthly[m]]
            /\ UNCHANGED cleanup
       ELSE /\ Rebuild(MonthOf(cleanup.cutoff), cleanup.cutoff)
            /\ cleanup' = [cleanup EXCEPT !.status = "completed"]
    /\ UNCHANGED <<detail, cutoffs>>

SummaryTick == now < SummaryHorizon /\ now' = now + 1 /\ UNCHANGED summaryVars

SummaryWork ==
    \/ \E r \in Counted : RecordRequest(r) \/ CompleteDetail(r) \/ SettleDetail(r)
    \/ RunAggregation
    \/ ExpireDetails
    \/ CreateCleanup
    \/ CleanDetails
    \/ finishInformationSummaries

SummaryNext == (SummaryWork /\ UNCHANGED now) \/ SummaryTick

-----------------------------------------------------------------------------
(* Properties *)

EverCompleted == {r \in Counted : detail[r].state \in {"completed", "deleted"}}

\* No completion is counted twice, in no day and no month, although the kept
\* rows are added to by the watermark and recounted in turns.
NothingCountedTwice ==
    /\ \A d \in Days : daily[d].count <= Cardinality(OfDay(EverCompleted, d))
    /\ \A m \in Months : monthly[m] <= Cardinality(OfMonth(EverCompleted, m))

\* A day that was summarised keeps its count when its details are gone: only a
\* cleanup whose cutoff is past the day lowers it.
DaysKeepTheirCount ==
    \A d \in Days : daily'[d].count < daily[d].count => cleanup.cutoff > d

\* The same of a month: it is lowered only by a cutoff that reaches it.  (A
\* cutoff on its first day rebuilds it from its days; a day nobody summarised
\* before its details expired is then missing.)
MonthsKeepTheirCount ==
    \A m \in Months : monthly'[m] < monthly[m] => cleanup.largest >= MonthStart(m)

\* A completion is counted at most once and, once counted, stays counted until
\* a cleanup reaches it: NothingCountedTwice after every step, DaysKeepTheirCount
\* and MonthsKeepTheirCount by it.
CountedOnceForGood ==
    [][NothingCountedTwice' /\ DaysKeepTheirCount /\ MonthsKeepTheirCount]_summaryVars

=============================================================================
