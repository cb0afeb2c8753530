----------------------------- MODULE QuotaGuard -----------------------------
(***************************************************************************)
(* The guard that takes an upstream account out of allocation before its   *)
(* quota is used up.  The database holds one row for each account and the  *)
(* global safety percentage; every gateway process keeps a scheduler in    *)
(* memory that says when an account in use is checked next.                *)
(*                                                                         *)
(* One action is one committed transaction or one critical section of the  *)
(* scheduler's mutex.  A missing row and a row of defaults behave alike    *)
(* (every writer inserts the defaults first), so rows always exist here.   *)
(* Times are NULL when they are Never.                                     *)
(***************************************************************************)
EXTENDS Clock, FiniteSets, FiniteSetsExt

CONSTANTS
    Servers,            \* gateway processes
    GuardAccounts,      \* the Codex and Claude accounts
    Slots,              \* upstreamQuotaGuardConcurrency
    MinInterval, MaxInterval, RestoreDelay, UnknownResetHold, SamePeriod,
    MarginIntervals,    \* the intervals for margins up to 10, 20 and 35
    Percents,           \* safety percentages an Owner may set
    Reports,            \* what a reading may say of the two windows
    GuardHorizon,       \* bound on the clock
    MaxEvents           \* bound on edits, queries by people and restarts

ASSUME GuardAssumption ==
    /\ {MinInterval, MaxInterval, RestoreDelay, UnknownResetHold, SamePeriod} \subseteq Nat
    /\ MinInterval <= MaxInterval /\ RestoreDelay <= UnknownResetHold
    /\ Percents \subseteq 0..50 /\ Percents # {}
    /\ \A f \in Reports : \A w \in {"five_hour", "seven_day"} :
          f[w].used \in -1..100 /\ f[w].reset \in Nat \cup {Never}

VARIABLES
    guard,      \* upstream_quota_guard_states
    percent,    \* upstream_quota_guard_settings.safety_percent
    entry,      \* the scheduler of each process
    check,      \* the goroutine that checks an account for a process
    calls,      \* scheduler calls of handlers whose transaction has committed
    events      \* edits, queries by people and restarts so far

guardVars == <<guard, percent, entry, check, calls, events>>

Windows == {"five_hour", "seven_day"}
NotReported == [used |-> -1, reset |-> Never]
NotObserved == [at |-> Never, win |-> [w \in Windows |-> NotReported]]
DefaultRow == [status |-> "available", source |-> "auto", restore |-> Never, seen |-> NotObserved,
               checked |-> Never, next |-> Never]
NoEntry == [next |-> Never, running |-> FALSE]
NoCheck == [phase |-> "idle", at |-> 0, next |-> Never]

Observations(t) == {[at |-> t, win |-> f] : f \in Reports}

DefaultUpstreamQuotaGuardPercent == 5

GuardInit ==
    /\ guard = [a \in GuardAccounts |-> DefaultRow]
    /\ percent = DefaultUpstreamQuotaGuardPercent
    /\ entry = [s \in Servers |-> [a \in GuardAccounts |-> NoEntry]]
    /\ check = [s \in Servers |-> [a \in GuardAccounts |-> NoCheck]]
    /\ calls = [s \in Servers |-> {}]
    /\ events = 0

-----------------------------------------------------------------------------
(***************************************************************************)
(* The rule.                                                               *)
(***************************************************************************)
Current(window, at) == window # NotReported /\ (window.reset = Never \/ window.reset > at)

Tripped(window, p, at) == Current(window, at) /\ 100 - window.used <= p

Margin(window, p) == 100 - window.used - p

\* Half the time until usage that rises as it did since the previous reading
\* has used up the margin.
Predicted(obs, prev, w, p) ==
    LET current == obs.win[w]
        prior == prev.win[w]
    IN  IF /\ prior # NotReported /\ prior.reset # Never /\ current.reset # Never
           /\ current.used > prior.used /\ obs.at > prev.at
           /\ current.reset - prior.reset \in -SamePeriod..SamePeriod
        THEN (((obs.at - prev.at) * Margin(current, p)) \div (current.used - prior.used)) \div 2
        ELSE MaxInterval

MarginInterval(margin) ==
    CASE margin <= 10 -> MarginIntervals[1]
      [] margin > 10 /\ margin <= 20 -> MarginIntervals[2]
      [] margin > 20 /\ margin <= 35 -> MarginIntervals[3]
      [] OTHER -> MaxInterval

NextInterval(obs, prev, p, at) ==
    LET open == {w \in Windows : Current(obs.win[w], at)}
    IN  IF open = {} THEN MinInterval
        ELSE Max({MinInterval,
                  Min({MaxInterval, MarginInterval(Min({Margin(obs.win[w], p) : w \in open}))}
                      \cup {Predicted(obs, prev, w, p) : w \in open})})

RestoreTime(obs, p, at) ==
    LET tripped == {obs.win[w] : w \in {w \in Windows : Tripped(obs.win[w], p, at)}}
        resets == {t.reset : t \in tripped} \ {Never}
        hold == IF \E t \in tripped : t.reset = Never THEN {at + UnknownResetHold} ELSE {}
    IN  Max(hold \cup (IF resets = {} THEN {} ELSE {Max(resets) + RestoreDelay}))

evaluateUpstreamQuotaGuard(obs, prev, p, at) ==
    IF \E w \in Windows : Tripped(obs.win[w], p, at)
    THEN LET restore == RestoreTime(obs, p, at)
         IN  [limited |-> TRUE, restore |-> restore, next |-> restore]
    ELSE [limited |-> FALSE, restore |-> Never, next |-> at + NextInterval(obs, prev, p, at)]

limitedAt(row, at) == row.status = "limited" /\ (row.restore = Never \/ row.restore > at)

StatusOf(limited) == IF limited THEN "limited" ELSE "available"

NextAutomaticCheck(row) ==
    IF row.checked = Never THEN row.next ELSE Max({row.next, row.checked + MinInterval})

SoonestResets(row, at) == {row.seen.win[w].reset : w \in Windows} \cap {t \in Nat : t > at}

-----------------------------------------------------------------------------
(* The transactions, as functions of the row they lock.                    *)

Claimable(row, at) ==
    /\ row.next = Never \/ row.next <= at
    /\ row.checked = Never \/ row.checked <= at - MinInterval

RecordedOnly(row, obs) == [row EXCEPT !.seen = obs]

RecordUpstreamQuotaObservation(row, obs, automatic, p, at) ==
    IF ~automatic /\ row.source = "manual"
    THEN RecordedOnly(row, obs)
    ELSE LET d == evaluateUpstreamQuotaGuard(obs, row.seen, p, at)
         IN  [row EXCEPT !.status = StatusOf(d.limited), !.source = "auto", !.restore = d.restore,
                         !.seen = obs, !.next = d.next]

ManualRestore(row, limited, at) ==
    LET resets == SoonestResets(row, at)
    IN  IF limited /\ resets # {} THEN Min(resets) + RestoreDelay ELSE Never

SetUpstreamQuotaGuardStatus(row, limited, at) ==
    IF limitedAt(row, at) = limited THEN row
    ELSE LET restore == ManualRestore(row, limited, at)
             following == IF row.checked = Never THEN at ELSE Max({at, row.checked + MinInterval})
         IN  [row EXCEPT !.status = StatusOf(limited), !.source = "manual", !.restore = restore,
                         !.next = IF limited THEN restore ELSE following]

ReappliedToLimited(row, p, at) ==
    IF row.source # "auto" \/ row.seen = NotObserved \/ ~limitedAt(row, at) THEN row
    ELSE LET d == evaluateUpstreamQuotaGuard(row.seen, NotObserved, p, at)
         IN  [row EXCEPT !.status = StatusOf(d.limited), !.restore = d.restore,
                         !.next = IF d.limited THEN d.next ELSE Never]

SetUpstreamQuotaGuardSettings(row, p, at) ==
    IF row.source # "auto" \/ row.seen = NotObserved THEN row
    ELSE LET d == evaluateUpstreamQuotaGuard(row.seen, NotObserved, p, at)
         IN  [row EXCEPT !.status = StatusOf(d.limited), !.restore = d.restore,
                         !.next = IF d.limited THEN d.next ELSE Never]

-----------------------------------------------------------------------------
(***************************************************************************)
(* The scheduler of one process and the goroutine it starts.               *)
(***************************************************************************)
Running(s) == {a \in GuardAccounts : entry[s][a].running}

begin(s, a) ==
    /\ ~entry[s][a].running
    /\ now >= entry[s][a].next
    /\ Cardinality(Running(s)) < Slots
    /\ entry' = [entry EXCEPT ![s][a].running = TRUE]

finish(s, a, next) == entry' = [entry EXCEPT ![s][a] = [next |-> next, running |-> FALSE]]

\* A handler calls reschedule or forget after its transaction has committed,
\* so the calls of several handlers may run in another order.
Answer(s, call) ==
    /\ events < MaxEvents
    /\ events' = events + 1
    /\ calls' = [calls EXCEPT ![s] = @ \cup {call}]

reschedule(s, call) ==
    /\ call \in calls[s] /\ call.account \in GuardAccounts
    /\ calls' = [calls EXCEPT ![s] = @ \ {call}]
    /\ entry' = IF entry[s][call.account].running THEN entry
                ELSE [entry EXCEPT ![s][call.account] = [next |-> call.next, running |-> FALSE]]
    /\ UNCHANGED <<guard, percent, check, events, now>>

AllAccounts == [account |-> "all", next |-> Never]

forget(s) ==
    /\ AllAccounts \in calls[s]
    /\ calls' = [calls EXCEPT ![s] = @ \ {AllAccounts}]
    /\ entry' = [entry EXCEPT ![s] = [a \in GuardAccounts |->
                                        IF entry[s][a].running THEN entry[s][a] ELSE NoEntry]]
    /\ UNCHANGED <<guard, percent, check, events, now>>

noteUpstreamQuotaUse(s, a) ==
    /\ begin(s, a)
    /\ check' = [check EXCEPT ![s][a] = [NoCheck EXCEPT !.phase = "claim", !.at = now]]
    /\ UNCHANGED <<guard, percent, calls, events, now>>

\* What runUpstreamQuotaCheck hands to finish.
Returns(s, a, next) == check' = [check EXCEPT ![s][a] = [NoCheck EXCEPT !.phase = "finish", !.next = next]]

\* Failures, and an account that is not synchronized yet, wait for the
\* minimum interval.
CheckFails(s, a) ==
    /\ check[s][a].phase \in {"claim", "record"}
    /\ Returns(s, a, check[s][a].at + MinInterval)
    /\ UNCHANGED <<guard, percent, entry, calls, events, now>>

ClaimUpstreamQuotaCheck(s, a) ==
    /\ check[s][a].phase = "claim"
    /\ LET at == check[s][a].at
       IN  \/ /\ Claimable(guard[a], at)
              /\ guard' = [guard EXCEPT ![a].checked = at]
              /\ check' = [check EXCEPT ![s][a].phase = "record"]
           \/ /\ ~Claimable(guard[a], at)
              /\ Returns(s, a, NextAutomaticCheck(guard[a]))
              /\ guard' = guard
    /\ UNCHANGED <<percent, entry, calls, events, now>>

\* A reading may say anything, so the choice of it waits until it is recorded;
\* other writers may come between the reading and the record.
readUpstreamQuotaGuard(from) == UNION {Observations(t) : t \in from..now}

RecordAutomatic(s, a) ==
    /\ check[s][a].phase = "record"
    /\ \E obs \in readUpstreamQuotaGuard(check[s][a].at) :
          LET row == RecordUpstreamQuotaObservation(guard[a], obs, TRUE, percent, check[s][a].at)
          IN  /\ guard' = [guard EXCEPT ![a] = row]
              /\ Returns(s, a, NextAutomaticCheck(row))
    /\ UNCHANGED <<percent, entry, calls, events, now>>

FinishCheck(s, a) ==
    /\ check[s][a].phase = "finish"
    /\ finish(s, a, check[s][a].next)
    /\ check' = [check EXCEPT ![s][a] = NoCheck]
    /\ UNCHANGED <<guard, percent, calls, events, now>>

\* A reading an Owner's or a member's query took up to Lag ago.
recordUpstreamQuotaReading(s, a) ==
    /\ \E t \in Instants : \E obs \in Observations(t) :
          LET row == RecordUpstreamQuotaObservation(guard[a], obs, FALSE, percent, now)
          IN  /\ guard' = [guard EXCEPT ![a] = row]
              /\ Answer(s, [account |-> a, next |-> NextAutomaticCheck(row)])
    /\ UNCHANGED <<percent, entry, check, now>>

setUpstreamAccountQuotaGuard(s, a) ==
    /\ \E limited \in BOOLEAN, at \in Instants :
          LET row == SetUpstreamQuotaGuardStatus(guard[a], limited, at)
          IN  /\ guard' = [guard EXCEPT ![a] = row]
              /\ Answer(s, [account |-> a, next |-> NextAutomaticCheck(row)])
    /\ UNCHANGED <<percent, entry, check, now>>

setUpstreamQuotaGuardSettings(s) ==
    /\ \E p \in Percents, at \in Instants :
          /\ percent' = p
          /\ guard' = [a \in GuardAccounts |-> SetUpstreamQuotaGuardSettings(guard[a], p, at)]
    /\ Answer(s, AllAccounts)
    /\ UNCHANGED <<entry, check, now>>

\* A process dies with its scheduler and its goroutines and starts again.
RestartServer(s) ==
    /\ events < MaxEvents
    /\ entry' = [entry EXCEPT ![s] = [a \in GuardAccounts |-> NoEntry]]
    /\ check' = [check EXCEPT ![s] = [a \in GuardAccounts |-> NoCheck]]
    /\ calls' = [calls EXCEPT ![s] = {}]
    /\ events' = events + 1
    /\ UNCHANGED <<guard, percent, now>>

GuardTick == now < GuardHorizon /\ Advance /\ UNCHANGED guardVars

GuardNext ==
    \/ GuardTick
    \/ \E s \in Servers :
          \/ setUpstreamQuotaGuardSettings(s)
          \/ RestartServer(s)
          \/ forget(s)
          \/ \E call \in calls[s] : reschedule(s, call)
          \/ \E a \in GuardAccounts :
                \/ noteUpstreamQuotaUse(s, a)
                \/ CheckFails(s, a)
                \/ ClaimUpstreamQuotaCheck(s, a)
                \/ RecordAutomatic(s, a)
                \/ FinishCheck(s, a)
                \/ recordUpstreamQuotaReading(s, a)
                \/ setUpstreamAccountQuotaGuard(s, a)

GuardSpec == now = 0 /\ GuardInit /\ [][GuardNext]_<<now, guardVars>>

-----------------------------------------------------------------------------
Rows == [status : {"available", "limited"}, source : {"auto", "manual"},
         restore : Nat \cup {Never}, checked : Nat \cup {Never}, next : Nat \cup {Never},
         seen : [at : Nat \cup {Never}, win : Reports \cup {NotObserved.win}]]

(***************************************************************************)
(* The state of an account the rule governs agrees with its last reading   *)
(* under the percentage in force: it is open only if no window of the      *)
(* reading that has not reset since is within the percentage, and when it  *)
(* is limited, some window of the reading was, and the account stays out   *)
(* until RestoreDelay after every such window resets.                      *)
(***************************************************************************)
GuardMatchesSettings ==
    \A a \in GuardAccounts :
       LET row == guard[a] IN
       row.source = "auto" /\ row.seen # NotObserved =>
          IF row.status = "limited"
          THEN /\ \E w \in Windows : row.seen.win[w] # NotReported /\ Margin(row.seen.win[w], percent) <= 0
               /\ \A w \in Windows :
                     Tripped(row.seen.win[w], percent, now) => row.restore >= row.seen.win[w].reset + RestoreDelay
          ELSE \A w \in Windows : ~Tripped(row.seen.win[w], percent, now)

=============================================================================
