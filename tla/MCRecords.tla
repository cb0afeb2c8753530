------------------------------- MODULE MCRecords -------------------------------
(***************************************************************************)
(* Small instances of the parts that keep what users may use, what they    *)
(* paid and what is left of it: models and prices, cash, summaries, the    *)
(* cleanup and the quota guard.  They share no state but the clock, so a   *)
(* behaviour follows one of them, chosen at the start, while the others    *)
(* rest.                                                                   *)
(***************************************************************************)
EXTENDS ModelAccess, ModelPrices, Cash, Summaries, Cleanup, QuotaGuard, TLC

CONSTANTS o1, o2, o3, o4,   \* operations of Cash
          d1, d2,           \* requests of Summaries
          v1, v2            \* servers of QuotaGuard

VARIABLE component

\* Quota windows: five hours and seven days, with the percentage used and the
\* instant of the reset.
Window(used, reset) == [used |-> used, reset |-> reset]
Report(short, long) == [w \in {"five_hour", "seven_day"} |-> IF w = "five_hour" THEN short ELSE long]
MCReports == {Report(Window(20, Never), Window(60, 4)), Report(Window(60, 2), Window(20, 4))}
MCMarginIntervals == <<1, 2, 2>>

\* A server whose scheduler of quota checks is as it was at the start.
Quiet(s) ==
    /\ entry[s] = [a \in GuardAccounts |-> NoEntry] /\ check[s] = [a \in GuardAccounts |-> NoCheck]
    /\ calls[s] = {}

\* Operations of Cash, requests of Summaries and servers of QuotaGuard are
\* interchangeable, so they are used in order; the second server checks
\* together with the first one around at most one event.  A step that leaves
\* this order is not taken.
Claimed(o) == operation[o] # NoOperation \/ o \in tombstone \/ answered[o] # {}
Interchangeable ==
    /\ Claimed(o2) => Claimed(o1)
    /\ Claimed(o3) => Claimed(o2)
    /\ Claimed(o4) => Claimed(o3)
    /\ detail[d1].state = "absent" => detail[d2].state = "absent"
    /\ Quiet(v1) \/ events > 1 => Quiet(v2)

recordVars == <<now, modelVars, priceVars, cashVars, summaryVars, cleanVars, guardVars>>

\* The parts that start in more than one state start in one of them when they
\* rest; the structures of ModelPrices are interchangeable, so g1 starts with s1.
Rest ==
    /\ \/ component = "prices" /\ configured \in {c \in [PriceGateways -> Structures] : c["g1"] = "s1"}
       \/ component # "prices" /\ configured = [g \in PriceGateways |-> CHOOSE s \in Structures : TRUE]
    /\ \/ component = "cash"
       \/ component # "cash" /\ rate = CHOOSE r \in Rates : TRUE

Init ==
    /\ component \in {"models", "prices", "cash", "summaries", "cleanup", "guard"}
    /\ Rest
    /\ now = 0
    /\ ModelInit /\ PriceInit /\ CashInit /\ SummaryInit /\ CleanInit /\ GuardInit

Next ==
    /\ \/ component = "models" /\ ModelNext /\ UNCHANGED now
       \/ component = "prices" /\ PriceNext /\ UNCHANGED now
       \/ component = "cash" /\ CashNext /\ UNCHANGED now
       \/ component = "summaries" /\ SummaryNext
       \/ component = "cleanup" /\ CleanNext
       \/ component = "guard" /\ GuardNext
    /\ component # "models" => UNCHANGED modelVars
    /\ component # "prices" => UNCHANGED priceVars
    /\ component # "cash" => UNCHANGED cashVars
    /\ component # "summaries" => UNCHANGED summaryVars
    /\ component # "cleanup" => UNCHANGED cleanVars
    /\ component # "guard" => UNCHANGED guardVars
    /\ UNCHANGED component /\ Interchangeable'

Spec == Init /\ [][Next]_<<component, recordVars>>

=============================================================================
