------------------------------- MODULE Clock -------------------------------
(***************************************************************************)
(* Time as the store sees it.  Most transactions work with an instant that *)
(* the caller read before it waited for the locks (normalizedBillingTime), *)
(* so that instant may be up to Lag older than the clock.                  *)
(***************************************************************************)
EXTENDS Integers

CONSTANTS
    Lag,            \* how old the instant of a transaction may be
    Horizon         \* bound on the clock

ASSUME ClockAssumption == Lag \in Nat /\ Horizon \in Nat

VARIABLE now

Never == -1         \* NULL in expires_at and ends_at

After(t, at) == t = Never \/ t > at

\* Instants a transaction that runs now may have read.
Instants == {t \in 0..now : now - t <= Lag}

Advance == now < Horizon /\ now' = now + 1

=============================================================================
