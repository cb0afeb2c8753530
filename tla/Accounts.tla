------------------------------ MODULE Accounts ------------------------------
(***************************************************************************)
(* What the billing modules share: the account holders and the arithmetic  *)
(* of cash lots.  A lot is a row of billing_cash_credit_lots; `rows' maps  *)
(* lot_sequence to the row of one user.  Amounts are integers in units of  *)
(* the smallest amount, 10^-12 USD (internal/billing/amount.go).           *)
(***************************************************************************)
EXTENDS Integers, Sequences, FiniteSets, Functions

CONSTANT Users      \* account holders

\* billingMin
Least(a, b) == IF a < b THEN a ELSE b

\* The money left in the lots of a set of sequence numbers.
LotsTotal(rows, seqs) == SumFunctionOnSet([i \in DOMAIN rows |-> rows[i].remaining], seqs)

\* What the loop over the lots in lot_sequence order takes from lot i when it
\* needs an amount from the lots up to the cutoff: nothing once the earlier
\* lots have covered it.
Deduction(rows, cutoff, needed, i) ==
    LET covered == LotsTotal(rows, {j \in DOMAIN rows : j < i})
    IN  IF i > cutoff \/ covered >= needed THEN 0
        ELSE Least(rows[i].remaining, needed - covered)

DrainLots(rows, cutoff, needed) ==
    [i \in DOMAIN rows |-> [rows[i] EXCEPT !.remaining = @ - Deduction(rows, cutoff, needed, i)]]

=============================================================================
