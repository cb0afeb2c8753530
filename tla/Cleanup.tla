------------------------------ MODULE Cleanup ------------------------------
(***************************************************************************)
(* Deleting history that is older than a confirmed cutoff                  *)
(* (store/information.go, store/information_worker.go).  An owner creates  *)
(* a durable job; the maintenance runner of any gateway then runs bounded  *)
(* batches of it, each one transaction, until nothing is left to delete.   *)
(* The rows form a graph (a lot names the ledger entry it came from, an    *)
(* allocation the lot or the period it was paid from, ...) whose foreign   *)
(* keys are all ON DELETE RESTRICT, so a batch that picks an inconsistent  *)
(* set of rows fails as a whole and the job cannot go on.                  *)
(*                                                                         *)
(* The tables are sets of rows.  The writers are reduced to what they do   *)
(* to those rows: one user, one subscription, requests that cost one unit. *)
(* Every transaction takes the account lock, so each is one step.          *)
(***************************************************************************)
EXTENDS Clock, FiniteSets, FiniteSetsExt

CONSTANTS
    CleanRequests,      \* request ids
    CleanOps,           \* billing operation ids, each used for one kind of change
    Recharges,          \* the operations that are recharges
    Grant,              \* the operation that sets the subscription
    Disabling,          \* the operations that disable it
    BatchLimit,         \* limit of RunInformationCleanupBatch
    DetailLife,         \* days DeleteUsageRequestsBefore keeps request details
    MaxPeriods,         \* bound on subscription periods
    Confirmations,      \* operation ids of cleanup jobs, in the order they are used
    RetentionDays,      \* numbers of days an owner asks to keep
    CleanHorizon        \* bound on the clock, in days

ASSUME CleanupAssumption ==
    /\ CleanOps = Recharges \cup {Grant} \cup Disabling
    /\ BatchLimit \in Nat \ {0} /\ DetailLife \in Nat
    /\ MaxPeriods \in Nat /\ CleanHorizon \in Nat
    /\ RetentionDays \subseteq Nat \ {0}

VARIABLES
    db,                 \* the tables
    jobs,               \* information_cleanup_jobs
    preview,            \* the preview an owner is about to confirm
    admitted,           \* history: the day a request was admitted
    executed,           \* history: how often an operation took effect
    paid                \* billing_accounts: the cash balance

cleanVars == <<db, jobs, preview, admitted, executed, paid>>

NoPreview == [days |-> 0, cutoff |-> 0]
Nowhere == [kind |-> "none", id |-> 0]
LotOf(n) == [kind |-> "lot", id |-> n]
PeriodOf(n) == [kind |-> "period", id |-> n]

\* Ledger entries: of a request, of an operation, or of a renewal.
ChargeEntry(q) == [kind |-> "usage_charge", of |-> q]
OpEntry(o) == [kind |-> "operation", of |-> o]
RenewalEntry(p) == [kind |-> "renewal", of |-> p]

Tables == {"usage", "hold", "quota", "lease", "allocation", "lot", "operation",
           "snapshot", "entry", "period", "subscription", "tombstone"}

CleanInit ==
    /\ db = [t \in Tables |-> {}]
    /\ jobs = {}
    /\ preview = NoPreview
    /\ admitted = [q \in CleanRequests |-> Never]
    /\ executed = [o \in CleanOps |-> 0]
    /\ paid = 0

RowsOf(table, q) == {r \in db[table] : r.request = q}
Enabled == {s \in db.subscription : s.enabled}

-----------------------------------------------------------------------------
(* The writers. *)

\* claimBillingOperationTx: a cleaned id is refused, a stored one is replayed.
NewOperation(o) ==
    /\ o \notin db.tombstone
    /\ o \notin {r.op : r \in db.operation}

ClaimBillingOperation(o) == NewOperation(o)

OperationRows(o, period) ==
    [db EXCEPT !.operation = @ \cup {[op |-> o]},
               !.entry = @ \cup {[id |-> OpEntry(o), day |-> now, period |-> period]}]

\* RechargeUser: a ledger entry, a lot that names it, the balance.
RechargeRows(o) ==
    /\ o \in Recharges /\ ClaimBillingOperation(o)
    /\ LET seq == 1 + Cardinality({x \in Recharges : executed[x] > 0})
       IN  db' = [OperationRows(o, 0) EXCEPT !.lot = @ \cup
                    {[seq |-> seq, source |-> OpEntry(o), left |-> 1, day |-> now]}]
    /\ executed' = [executed EXCEPT ![o] = @ + 1]
    /\ paid' = paid + 1
    /\ UNCHANGED <<jobs, preview, admitted>>

\* PutSubscription: the subscription, its first period, an entry that names it.
PutSubscriptionRows ==
    /\ ClaimBillingOperation(Grant)
    /\ db' = [OperationRows(Grant, 1) EXCEPT
                !.period = @ \cup {[id |-> 1, ends |-> now + 1, closed |-> FALSE]},
                !.subscription = {[enabled |-> TRUE, current |-> 1, disabled |-> 0]}]
    /\ executed' = [executed EXCEPT ![Grant] = @ + 1]
    /\ UNCHANGED <<jobs, preview, admitted, paid>>

\* An automatic renewal closes the ended period and opens the next.
RenewRows ==
    \E s \in Enabled : \E p \in db.period :
        /\ p.id = s.current /\ p.ends <= now /\ p.id < MaxPeriods
        /\ db' = [db EXCEPT
                    !.period = (@ \ {p}) \cup {[p EXCEPT !.closed = TRUE],
                                [id |-> p.id + 1, ends |-> now + 1, closed |-> FALSE]},
                    !.entry = @ \cup {[id |-> RenewalEntry(p.id + 1), day |-> now,
                                       period |-> p.id + 1]},
                    !.subscription = {[s EXCEPT !.current = p.id + 1]}]
        /\ UNCHANGED <<jobs, preview, admitted, executed, paid>>

\* DeleteSubscription closes the open period; the row keeps naming it.  Without
\* a period (a cleanup detached it) the operation leaves a snapshot instead.
DeleteSubscriptionRows(o) ==
    /\ o \in Disabling /\ ClaimBillingOperation(o)
    /\ \E s \in db.subscription :
        db' = [OperationRows(o, s.current) EXCEPT
                 !.snapshot = @ \cup {x \in {o} : s.current = 0},
                 !.period = {IF s.enabled /\ p.id = s.current THEN [p EXCEPT !.closed = TRUE] ELSE p : p \in @},
                 !.subscription = {[s EXCEPT !.enabled = FALSE,
                                             !.disabled = IF s.enabled THEN now ELSE @]}]
    /\ executed' = [executed EXCEPT ![o] = @ + 1]
    /\ UNCHANGED <<jobs, preview, admitted, paid>>

\* Admission fixes the newest lot and the current period as payment sources.
AdmitRows(q) ==
    /\ admitted[q] = Never
    /\ LET seqs == {l.seq : l \in db.lot}
           sources == {s.current : s \in {x \in Enabled : \E p \in db.period :
                                                p.id = x.current /\ p.ends > now}}
       IN  db' = [db EXCEPT
                    !.usage = @ \cup {[request |-> q, day |-> now, done |-> FALSE, ended |-> now]},
                    !.hold = @ \cup {[request |-> q, day |-> now, state |-> "reserved",
                                      cutoff |-> Max(seqs \cup {0}), period |-> Max(sources \cup {0})]},
                    !.quota = @ \cup {[request |-> q, day |-> now, state |-> "reserved"]},
                    !.lease = @ \cup {[request |-> q]}]
    /\ admitted' = [admitted EXCEPT ![q] = now]
    /\ UNCHANGED <<jobs, preview, executed, paid>>

\* The terminal usage row is stored before anything is settled.
FinishRows(q) ==
    \E u \in RowsOf("usage", q) :
        /\ ~u.done
        /\ db' = [db EXCEPT !.usage = (@ \ {u}) \cup {[u EXCEPT !.done = TRUE, !.ended = now]}]
        /\ UNCHANGED <<jobs, preview, admitted, executed, paid>>

\* Where the charge of a reservation may come from.
Payable(b) ==
    {PeriodOf(b.period) : x \in {y \in {b} : y.period # 0}} \cup
    {LotOf(l.seq) : l \in {x \in db.lot : x.left > 0 /\ x.seq <= b.cutoff}}

\* SettleRequest settles both reservations and ends the lease in one transaction.
SettleRequestRows(q) ==
    \E u \in RowsOf("usage", q), b \in RowsOf("hold", q), r \in RowsOf("quota", q) :
        /\ u.done /\ b.state = "reserved"
        /\ \E source \in IF Payable(b) = {} THEN {Nowhere} ELSE Payable(b) :
            /\ db' = [db EXCEPT
                        !.hold = (@ \ {b}) \cup {[b EXCEPT !.state = "settled"]},
                        !.quota = (@ \ {r}) \cup {[r EXCEPT !.state = "settled"]},
                        !.lease = @ \ {[request |-> q]},
                        !.entry = @ \cup {[id |-> ChargeEntry(q), day |-> b.day, period |-> 0]},
                        !.allocation = @ \cup {[request |-> q, source |-> s] : s \in {source} \ {Nowhere}},
                        !.lot = {IF source = LotOf(l.seq) THEN [l EXCEPT !.left = @ - 1] ELSE l : l \in @}]
            /\ paid' = IF source.kind = "lot" THEN paid - 1 ELSE paid
        /\ UNCHANGED <<jobs, preview, admitted, executed>>

-----------------------------------------------------------------------------
(* Retention of request details, and the cleanup job. *)

\* DeleteUsageRequestsBefore: finished details of settled requests.
DeleteUsageRequestsBefore ==
    /\ LET old == {u \in db.usage :
                     /\ u.done /\ u.ended < now - DetailLife
                     /\ \A r \in RowsOf("quota", u.request) \cup RowsOf("hold", u.request) :
                            r.state # "reserved"}
       IN  old # {} /\ db' = [db EXCEPT !.usage = @ \ old]
    /\ UNCHANGED <<jobs, preview, admitted, executed, paid>>

ActiveJobs == {j \in jobs : j.status # "completed"}

\* InformationCutoff: whole days before the last midnight.
InformationCutoff(days) == now - days

\* previewInformationCleanup only reads; its cutoff is what the owner confirms.
previewInformationCleanup ==
    /\ \E days \in RetentionDays : /\ days < now
                                   /\ preview' = [days |-> days, cutoff |-> InformationCutoff(days)]
    /\ UNCHANGED <<db, jobs, admitted, executed, paid>>

\* The confirmation may come on a later day.
AcceptsCutoff == preview # NoPreview /\ preview.cutoff <= InformationCutoff(preview.days)

\* CreateInformationCleanupJob: a known operation id is a replay; the unique
\* index allows one unfinished job.
CreateInformationCleanupJob(id) ==
    /\ id \notin {j.id : j \in jobs} /\ ActiveJobs = {}
    /\ jobs' = jobs \cup {[id |-> id, cutoff |-> preview.cutoff, status |-> "pending", deleted |-> FALSE]}
    /\ UNCHANGED <<db, admitted, executed, paid>>

createInformationCleanupJob(id) ==
    /\ AcceptsCutoff
    /\ CreateInformationCleanupJob(id)
    /\ preview' = NoPreview

\* At most n of a set, as LIMIT n takes them: request ids and row ids are
\* independent of age, so any n of them may come first.
Limited(S, n) == {T \in SUBSET S : Cardinality(T) = Min({n, Cardinality(S)})}

\* informationRequestCandidates: admitted before the cutoff, and finished in
\* every table that still knows the request.  The admission time is that of
\* the detail row, or of the reservations once the detail is gone.
RequestCandidates(cutoff) ==
    {q \in CleanRequests :
        /\ \E r \in RowsOf("usage", q) \cup RowsOf("hold", q) \cup RowsOf("quota", q) : r.day < cutoff
        /\ \A u \in RowsOf("usage", q) : u.done
        /\ \A b \in RowsOf("hold", q) : b.state # "reserved"
        /\ \A r \in RowsOf("quota", q) : r.state # "reserved"
        /\ RowsOf("lease", q) = {}}

\* mutant: a terminal usage row is taken for a settled request
RequestsFinished(cutoff) ==
    {q \in CleanRequests :
        /\ \E r \in RowsOf("usage", q) \cup RowsOf("hold", q) \cup RowsOf("quota", q) : r.day < cutoff
        /\ \A u \in RowsOf("usage", q) : u.done}

informationRequestCandidates(cutoff) == RequestCandidates(cutoff)

\* Spent lots that no kept allocation and no open reservation can name.
Lots(cutoff, requests) ==
    {l \in db.lot :
        /\ l.day < cutoff /\ l.left = 0
        /\ \A a \in db.allocation : a.source = LotOf(l.seq) => a.request \in requests
        /\ \A b \in db.hold : ~(b.state = "reserved" /\ b.cutoff >= l.seq)}

LotCandidates(cutoff, requests) == Lots(cutoff, requests)

\* Entries that a kept lot, the current period or an enabled subscription needs
\* stay; charges go with their request.
EntryCandidates(cutoff, requests, lots) ==
    {e \in db.entry :
        /\ \/ e.id.kind # "usage_charge" /\ e.day < cutoff
           \/ e.id.kind = "usage_charge" /\ e.id.of \in requests
        /\ \A l \in db.lot \ lots : l.source # e.id
        /\ \/ e.id.kind = "usage_charge"
           \/ \A s \in Enabled : s.current # e.period
        /\ ~(e.id.kind = "operation" /\ e.id.of \in db.snapshot /\ Enabled # {})}

Charges(entries) == {e \in entries : e.id.kind = "usage_charge"}

\* The limit is raised by the charges of the chosen requests, which sort first.
ChosenEntries(entries) ==
    {Charges(entries) \cup T : T \in Limited(entries \ Charges(entries), BatchLimit)}

LedgerCandidates(entries) == ChosenEntries(entries)

\* Ended and closed periods that no kept row names.
PeriodCandidates(cutoff, requests, entries) ==
    {p \in db.period :
        /\ p.ends < cutoff /\ p.closed
        /\ \A s \in Enabled : s.current # p.id
        /\ \A b \in db.hold : b.period = p.id => b.request \in requests
        /\ \A a \in db.allocation : a.source = PeriodOf(p.id) => a.request \in requests
        /\ \A e \in db.entry \ entries : e.period # p.id}

\* mutant: a period may go while kept ledger entries name it
PeriodsOfKeptEntries(cutoff, requests, entries) ==
    {p \in db.period :
        /\ p.ends < cutoff /\ p.closed
        /\ \A s \in Enabled : s.current # p.id
        /\ \A b \in db.hold : b.period = p.id => b.request \in requests
        /\ \A a \in db.allocation : a.source = PeriodOf(p.id) => a.request \in requests}

EndedPeriods(cutoff, requests, entries) == PeriodCandidates(cutoff, requests, entries)

SubscriptionCandidates(cutoff, entries, periods) ==
    {s \in db.subscription :
        /\ ~s.enabled /\ s.disabled < cutoff
        /\ db.period \subseteq periods
        /\ \A o \in db.snapshot : \E e \in entries : e.id = OpEntry(o)}

\* prepareInformationCandidates: every table's choice rests on the ones before.
ChoicesOfPeriods(cutoff, rs, ls, es) ==
    {[requests |-> rs, lots |-> ls, entries |-> es, periods |-> ps,
      subscriptions |-> SubscriptionCandidates(cutoff, es, ps)] :
        ps \in Limited(EndedPeriods(cutoff, rs, es), BatchLimit)}

ChoicesOfEntries(cutoff, rs, ls) ==
    UNION {ChoicesOfPeriods(cutoff, rs, ls, es) :
                es \in LedgerCandidates(EntryCandidates(cutoff, rs, ls))}

prepareInformationCandidates(cutoff) ==
    UNION {UNION {ChoicesOfEntries(cutoff, rs, ls) :
                        ls \in Limited(LotCandidates(cutoff, rs), BatchLimit)} :
                rs \in Limited(informationRequestCandidates(cutoff), BatchLimit)}

\* deleteInformationCandidates
Gone(c) ==
    LET of(rows) == {r \in rows : r.request \notin c.requests}
        ops == {o \in CleanOps : \E e \in c.entries : e.id = OpEntry(o)}
    IN  [db EXCEPT
            !.tombstone = @ \cup (ops \cap {r.op : r \in db.operation}),
            !.allocation = of(@), !.hold = of(@), !.quota = of(@), !.lease = of(@),
            !.lot = @ \ c.lots,
            !.snapshot = @ \ ops,
            !.operation = {r \in @ : r.op \notin ops},
            !.entry = @ \ c.entries,
            !.usage = of(@),
            !.period = @ \ c.periods,
            !.subscription = {IF ~s.enabled /\ \E p \in c.periods : p.id = s.current
                              THEN [s EXCEPT !.current = 0] ELSE s : s \in @ \ c.subscriptions}]

\* The foreign keys among these tables, all ON DELETE RESTRICT.
ForeignKeys(t) ==
    LET entries == {e.id : e \in t.entry}
        periods == {p.id : p \in t.period}
    IN  /\ \A a \in t.allocation : /\ a.request \in {b.request : b \in t.hold}
                                   /\ \/ a.source.kind = "lot" /\ a.source.id \in {l.seq : l \in t.lot}
                                      \/ a.source.kind = "period" /\ a.source.id \in periods
        /\ \A l \in t.lot : l.source \in entries
        /\ \A r \in t.operation : OpEntry(r.op) \in entries
        /\ \A e \in t.entry : /\ e.id.kind = "operation" => [op |-> e.id.of] \in t.operation
                              /\ e.period \in periods \cup {0}
        /\ \A o \in t.snapshot : OpEntry(o) \in entries /\ t.subscription # {}
        /\ \A p \in t.period : t.subscription # {}
        /\ \A s \in t.subscription : s.current \in periods \cup {0}
        /\ \A b \in t.hold : b.period \in periods \cup {0}

Empty(c) == c.requests = {} /\ c.lots = {} /\ c.entries = {} /\ c.periods = {} /\ c.subscriptions = {}

\* RunInformationCleanupBatch: one transaction.  A refused deletion rolls it
\* back and leaves the job to be retried; an empty choice completes the job.
RunCleanupBatch ==
    /\ \E job \in ActiveJobs : \E c \in prepareInformationCandidates(job.cutoff) :
        \/ /\ ~Empty(c) /\ ForeignKeys(Gone(c))
           /\ db' = Gone(c)
           /\ jobs' = (jobs \ {job}) \cup {[job EXCEPT !.status = "running", !.deleted = TRUE]}
        \/ /\ Empty(c)
           /\ jobs' = (jobs \ {job}) \cup {[job EXCEPT !.status = "completed"]}
           /\ UNCHANGED db
    /\ UNCHANGED <<preview, admitted, executed, paid>>

CleanTick == now < CleanHorizon /\ now' = now + 1 /\ UNCHANGED cleanVars

CleanWork ==
    \/ \E o \in Recharges : RechargeRows(o)
    \/ PutSubscriptionRows
    \/ RenewRows
    \/ \E o \in Disabling : DeleteSubscriptionRows(o)
    \/ \E q \in CleanRequests : AdmitRows(q) \/ FinishRows(q) \/ SettleRequestRows(q)
    \/ DeleteUsageRequestsBefore
    \/ previewInformationCleanup
    \/ \E id \in Confirmations : createInformationCleanupJob(id)
    \/ RunCleanupBatch

CleanNext == (CleanWork /\ UNCHANGED now) \/ CleanTick

CleanSpec == now = 0 /\ CleanInit /\ [][CleanNext]_<<now, cleanVars>>

\* The runner of every gateway runs a batch each second (maintenance.Runner.Run).
CleanFairness == WF_<<now, cleanVars>>(RunCleanupBatch /\ UNCHANGED now)

-----------------------------------------------------------------------------
(* Properties *)

Open(q) ==
    \/ \E u \in RowsOf("usage", q) : ~u.done
    \/ \E r \in RowsOf("hold", q) \cup RowsOf("quota", q) : r.state = "reserved"

\* Neither a cleanup batch nor the retention of details takes a row of a
\* request that still runs or still has something to settle, however old it is:
\* settlement needs the terminal usage row and both reservations.
OpenRequestsKept ==
    [][\A q \in CleanRequests : Open(q) =>
            \A t \in {"usage", "hold", "quota"} : (RowsOf(t, q))' # {} \/ RowsOf(t, q) = {}]_cleanVars

\* A request is cleaned as a whole: its charge, its allocation and its other
\* rows are there only with its billing reservation, however the limits of a
\* batch cut the tables (the usage detail alone may have expired before).
RequestsWhole ==
    \A q \in CleanRequests :
        \/ ChargeEntry(q) \in {e.id : e \in db.entry}
        \/ RowsOf("allocation", q) # {} \/ RowsOf("quota", q) # {} \/ RowsOf("usage", q) # {}
        => RowsOf("hold", q) # {}

\* Deleting history moves no money: the balance of the account is what the
\* remaining lots hold.
BalanceIsInLots == paid = MapThenSumSet(LAMBDA l : l.left, db.lot)

\* The cleanup takes only what is over, and all of it: OpenRequestsKept,
\* RequestsWhole and, for the money, BalanceIsInLots.
OnlyFinishedGoes == OpenRequestsKept /\ []RequestsWhole /\ []BalanceIsInLots

\* A job that was created completes (the runner retries it until it does),
\* although writers keep working.
JobCompletes ==
    \A id \in Confirmations :
        (id \in {j.id : j \in jobs}) ~> (id \in {j.id : j \in jobs \ ActiveJobs})

=============================================================================
