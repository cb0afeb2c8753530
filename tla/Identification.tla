--------------------------- MODULE Identification ---------------------------
(***************************************************************************)
(* Model identification runs (server/model_identification.go,              *)
(* store/model_identification.go).  An owner starts a run for an account   *)
(* and a model; a worker of that gateway sends the probes one after the    *)
(* other, records each phase, and stores a verdict or a failure.  A unique *)
(* index allows one running row across all gateways.  A gateway may die    *)
(* with a run in progress; every gateway then closes runs that are older   *)
(* than a live run can be.                                                 *)
(***************************************************************************)
EXTENDS Clock

CONSTANTS
    Subjects,           \* pairs of an account and a requested model
    MaxRuns,            \* bound on runs; a run id is its number
    Probes,             \* challenges per run (three)
    RunTimeout,         \* a worker's deadline after the start of its run
    RecoveryAfter,      \* age at which a run is taken for interrupted
    Validity,           \* how long a verdict is shown
    LastRun,            \* bound on the clock at which runs are still started
    RunHorizon          \* bound on the clock

ASSUME IdentificationAssumption ==
    /\ MaxRuns \in Nat /\ Probes \in Nat \ {0} /\ LastRun \in Nat /\ RunHorizon \in Nat
    /\ RunTimeout \in Nat \ {0} /\ RecoveryAfter \in Nat /\ RecoveryAfter > RunTimeout /\ Validity \in Nat \ {0}

VARIABLES
    finding,            \* model_identifications by subject
    worker              \* the goroutine of a run: what it does next

identVars == <<finding, worker>>

Runs == 1..MaxRuns

\* Phases in order: preflight, then probing (2 * i - 1) and validating (2 * i) for
\* each probe i, scoring (2 * Probes + 1), saving (the CASE expression of
\* UpdateModelIdentificationRun).
Preflight == 0
Saving == 2 * Probes + 2

NoVerdict == [run |-> 0, expires |-> Never]
NoFinding == [run |-> 0, status |-> "none", phase |-> Preflight, started |-> 0, verdict |-> NoVerdict]
NoWorker == [doing |-> "nothing", subject |-> "none", phase |-> Preflight, deadline |-> 0]

IdentInit ==
    /\ finding = [s \in Subjects |-> NoFinding]
    /\ worker = [r \in Runs |-> NoWorker]

Running == {s \in Subjects : finding[s].status = "running"}

\* CASE WHEN expires_at > at THEN ... ELSE NULL END, in every update.
Unexpired(verdict, at) == IF verdict.expires > at THEN verdict ELSE NoVerdict

-----------------------------------------------------------------------------
(* Starting and recovering runs *)

\* mutant: every running row is taken for interrupted, as after a restart
InterruptedAny(f, at) == f.status = "running"

\* mutant: only runs that have not begun to probe
InterruptedBeforeProbe(f, at) == f.status = "running" /\ f.phase = Preflight /\ f.started < at - RecoveryAfter

Interrupted(f, at) == f.status = "running" /\ f.started < at - RecoveryAfter

\* RecoverInterruptedModelIdentificationRuns
Recovered(at) ==
    [s \in Subjects |->
        IF Interrupted(finding[s], at)
        THEN [finding[s] EXCEPT !.status = "failed", !.verdict = Unexpired(@, at)]
        ELSE finding[s]]

RecoverInterruptedRuns ==
    /\ \E s \in Subjects : Interrupted(finding[s], now)
    /\ finding' = Recovered(now)
    /\ UNCHANGED worker

KeptVerdict(verdict, at) == Unexpired(verdict, at)

\* BeginModelIdentificationRun: recover, then insert or replace the row unless
\* it, or by the unique index any other, is running.
BeginModelIdentificationRun(s, r, at) ==
    LET rows == Recovered(at)
    IN  /\ \A x \in Subjects : rows[x].status # "running"
        /\ finding' = [rows EXCEPT ![s] =
                [run |-> r, status |-> "running", phase |-> Preflight, started |-> at,
                 verdict |-> KeptVerdict(@.verdict, at)]]

\* createModelIdentificationRun starts the worker once the row is stored.
createModelIdentificationRun(s) ==
    \E r \in Runs, at \in Instants :
        /\ \A x \in Runs : (x < r) <=> (worker[x] # NoWorker)
        /\ now <= LastRun
        /\ BeginModelIdentificationRun(s, r, at)
        /\ worker' = [worker EXCEPT ![r] = [doing |-> "working", subject |-> s,
                                            phase |-> Preflight, deadline |-> at + RunTimeout]]

-----------------------------------------------------------------------------
(* The worker *)

Working(r) == worker[r].doing = "working" /\ now < worker[r].deadline
Owns(r, s) == finding[s].run = r /\ finding[s].status = "running"

\* UpdateModelIdentificationRun: only forward, only the running run.
UpdateModelIdentificationRun(r, s, phase) ==
    /\ Owns(r, s) /\ finding[s].phase <= phase
    /\ finding' = [finding EXCEPT ![s].phase = phase]

Fails(r) == worker' = [worker EXCEPT ![r].doing = "failing"]

\* The next phase is recorded before the worker enters it; the probe, the check
\* of the reply and the score are what it does in between.
NextPhase(r) ==
    /\ Working(r) /\ worker[r].phase < Saving
    /\ LET s == worker[r].subject
           phase == worker[r].phase + 1
       IN  \/ /\ UpdateModelIdentificationRun(r, s, phase)
              /\ worker' = [worker EXCEPT ![r].phase = phase]
           \/ /\ ~Owns(r, s)
              /\ Fails(r) /\ UNCHANGED finding

\* CompleteModelIdentificationRun
CompleteModelIdentificationRun(r, s, at) ==
    /\ Owns(r, s)
    /\ finding' = [finding EXCEPT ![s].status = "succeeded", ![s].phase = Saving,
                                  ![s].verdict = [run |-> r, expires |-> at + Validity]]

\* The statement is sent before the deadline; it may take effect after it.
Complete(r) ==
    /\ worker[r].doing = "working" /\ worker[r].phase = Saving
    /\ \E at \in 0..now : /\ at + RunTimeout >= worker[r].deadline /\ at < worker[r].deadline
                          /\ CompleteModelIdentificationRun(r, worker[r].subject, at)
    /\ worker' = [worker EXCEPT ![r].doing = "ended"]

\* A call, a check or a statement fails, the deadline passes, or the gateway
\* is asked to stop (StopModelIdentifications).
Stops(r) ==
    /\ worker[r].doing = "working"
    /\ Fails(r) /\ UNCHANGED finding

FailsRun(r, s) == Owns(r, s)

\* FailModelIdentificationRun, with a context of its own; a failure to record
\* it leaves the row to the recovery.
FailModelIdentificationRun(r) ==
    /\ worker[r].doing = "failing"
    /\ LET s == worker[r].subject
       IN  \/ /\ FailsRun(r, s)
              /\ finding' = [finding EXCEPT ![s].status = "failed", ![s].verdict = Unexpired(@, now)]
           \/ UNCHANGED finding
    /\ worker' = [worker EXCEPT ![r].doing = "ended"]

\* The gateway dies.
Dies(r) ==
    /\ worker[r].doing \in {"working", "failing"}
    /\ worker' = [worker EXCEPT ![r].doing = "ended"]
    /\ UNCHANGED finding

\* PurgeExpiredModelIdentifications
PurgeExpired ==
    /\ \E s \in Subjects : finding[s].verdict # NoVerdict /\ finding[s].verdict.expires <= now
    /\ finding' = [s \in Subjects |-> [finding[s] EXCEPT !.verdict = Unexpired(@, now)]]
    /\ UNCHANGED worker

IdentTick == now < RunHorizon /\ now' = now + 1 /\ UNCHANGED identVars

WorkerStep(r) == NextPhase(r) \/ Complete(r) \/ Stops(r) \/ FailModelIdentificationRun(r) \/ Dies(r)

IdentNext ==
    \/ /\ \/ \E s \in Subjects : createModelIdentificationRun(s)
          \/ \E r \in Runs : WorkerStep(r)
          \/ RecoverInterruptedRuns
          \/ PurgeExpired
       /\ UNCHANGED now
    \/ IdentTick

IdentSpec == now = 0 /\ IdentInit /\ [][IdentNext]_<<now, identVars>>

\* cleanModelIdentifications runs every thirty seconds; time passes.
IdentFairness ==
    /\ WF_<<now, identVars>>(RecoverInterruptedRuns /\ UNCHANGED now)
    /\ WF_<<now, identVars>>(IdentTick)

-----------------------------------------------------------------------------
(* Properties *)

\* Probes of two runs never overlap, on no two gateways: while a worker may
\* still send a probe its row is the running one ("A new replica must not mark
\* another live replica's run as failed"), and no other row runs.
ProbesNeverOverlap ==
    /\ \A s, t \in Running : s = t
    /\ \A r \in Runs : Working(r) => finding[worker[r].subject].run = r /\ Running = {worker[r].subject}

\* The diagnostic slot becomes free again, whatever happens to the gateway
\* that holds it.
SlotFreed == \A r \in Runs : (\E s \in Subjects : Owns(r, s)) ~> ~(\E s \in Subjects : Owns(r, s))

=============================================================================
