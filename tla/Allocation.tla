----------------------------- MODULE Allocation -----------------------------
(***************************************************************************)
(* The choice of an upstream account among candidates by weight and cost   *)
(* (selectUpstreamAllocation), one loop iteration at a time.  The first    *)
(* loop adds up weights and costs, the second one collects the candidates  *)
(* with the largest deficit against their share, and a draw proportional   *)
(* to the weights breaks the tie.  Costs are exact rationals in the code;  *)
(* multiples of one unit here.                                             *)
(***************************************************************************)
EXTENDS Integers, FiniteSets

CONSTANTS
    Candidates,     \* 1..n, the candidates in the order of the query's rows
    MaxWeight,      \* the largest weight
    MaxCost         \* the largest cost

ASSUME AllocationAssumption ==
    /\ Candidates \subseteq Nat \ {0} /\ IsFiniteSet(Candidates)
    /\ \A i \in Candidates : 1..i \subseteq Candidates
    /\ MaxWeight \in Nat /\ MaxCost \in Nat

VARIABLES
    weight, cost,               \* of the candidates
    stage,                      \* "sum", "compare", "draw", "chosen" or "none"
    position,                   \* the next candidate of the loop
    totalWeight, totalCost,     \* of the candidates with a weight
    largest,                    \* the largest deficit so far
    ties, tiedWeight,           \* the candidates that have it, and their weight
    chosen                      \* the answer, 0 for none

allocationVars == <<weight, cost, stage, position, totalWeight, totalCost, largest, ties, tiedWeight, chosen>>
inputVars == <<weight, cost>>

AllocationInit ==
    /\ weight \in [Candidates -> 0..MaxWeight] /\ cost \in [Candidates -> 0..MaxCost]
    /\ stage = "sum" /\ position = 1
    /\ totalWeight = 0 /\ totalCost = 0
    /\ largest = 0 /\ ties = {} /\ tiedWeight = 0 /\ chosen = 0

\* A candidate without a weight takes no part, and neither does what it spent.
SummedCost(i) == IF weight[i] = 0 THEN 0 ELSE cost[i]

AddUp ==
    /\ stage = "sum" /\ position \in Candidates
    /\ totalWeight' = totalWeight + weight[position]
    /\ totalCost' = totalCost + SummedCost(position)
    /\ position' = position + 1
    /\ UNCHANGED <<inputVars, stage, largest, ties, tiedWeight, chosen>>

AddedUp ==
    /\ stage = "sum" /\ position \notin Candidates
    /\ stage' = IF totalWeight = 0 THEN "none" ELSE "compare"
    /\ position' = 1
    /\ UNCHANGED <<inputVars, totalWeight, totalCost, largest, ties, tiedWeight, chosen>>

Deficit(i) == totalCost * weight[i] - cost[i] * totalWeight

KeepTies(i) == ties = {} \/ Deficit(i) >= largest

Larger(i) == ties = {} \/ Deficit(i) > largest

Compare ==
    /\ stage = "compare" /\ position \in Candidates
    /\ position' = position + 1
    /\ IF weight[position] = 0 \/ (~Larger(position) /\ Deficit(position) < largest)
       THEN UNCHANGED <<largest, ties, tiedWeight>>
       ELSE IF Larger(position)
       THEN largest' = Deficit(position) /\ ties' = {position} /\ tiedWeight' = weight[position]
       ELSE ties' = ties \union {position} /\ tiedWeight' = tiedWeight + weight[position] /\ UNCHANGED largest
    /\ UNCHANGED <<inputVars, stage, totalWeight, totalCost, chosen>>

Compared ==
    /\ stage = "compare" /\ position \notin Candidates
    /\ stage' = "draw"
    /\ UNCHANGED <<inputVars, position, totalWeight, totalCost, largest, ties, tiedWeight, chosen>>

\* The weight of the tied candidates before i, in the order of the loop.
Before[i \in Candidates] == IF i = 1 THEN 0 ELSE Before[i - 1] + (IF i - 1 \in ties THEN weight[i - 1] ELSE 0)

\* The number d drawn below tiedWeight answers candidate i.
DrawnBy(i, d) == Before[i] <= d /\ d < Before[i] + weight[i]

Draw(d) ==
    /\ stage = "draw"
    /\ \E i \in ties : /\ Cardinality(ties) = 1 \/ DrawnBy(i, d)
                       /\ chosen' = i
    /\ stage' = "chosen"
    /\ UNCHANGED <<inputVars, position, totalWeight, totalCost, largest, ties, tiedWeight>>

AllocationNext ==
    \/ AddUp \/ AddedUp \/ Compare \/ Compared
    \/ \E d \in 0..(tiedWeight - 1) : Draw(d)

AllocationSpec == AllocationInit /\ [][AllocationNext]_allocationVars

-----------------------------------------------------------------------------
(* Properties.                                                             *)

\* When the loop ends the ties are exactly the candidates with a weight whose
\* deficit no other candidate exceeds, whatever order the rows came in
\* (selectUpstreamAllocation).
TiesAreLargest ==
    stage \in {"draw", "chosen"} =>
        ties = {i \in Candidates : weight[i] > 0 /\ \A j \in Candidates : weight[j] > 0 => Deficit(j) <= Deficit(i)}

\* What the candidates with a weight among 1..i spent.
SpentUpTo[i \in Candidates \union {0}] ==
    IF i = 0 THEN 0 ELSE SpentUpTo[i - 1] + (IF weight[i] = 0 THEN 0 ELSE cost[i])

=============================================================================
