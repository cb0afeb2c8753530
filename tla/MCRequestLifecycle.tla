------------------------- MODULE MCRequestLifecycle -------------------------
(***************************************************************************)
(* Small instances of RequestLifecycle: two requests of one user, with     *)
(* different keys; midnight falls after minute 0.                          *)
(***************************************************************************)
EXTENDS RequestLifecycle

CONSTANTS r1, r2, k1, k2, u1

MCKeyOf == [r \in Requests |-> IF r = r1 THEN k1 ELSE k2]
MCUserOf == [k \in Keys |-> u1]
MCDayOf == [t \in 0..MaxTime |-> (t + 2) \div 3]
=============================================================================
