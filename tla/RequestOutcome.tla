--------------------------- MODULE RequestOutcome ---------------------------
(***************************************************************************)
(* What the accounting of a request promises, whatever is lost or crashes  *)
(* on the way: an admitted request ends exactly one way.  Either its work  *)
(* is recorded and then charged, once, or it is voided and never charged.  *)
(***************************************************************************)
CONSTANT Requests

VARIABLE outcome

Init == outcome = [r \in Requests |-> "absent"]

Move(r, from, to) ==
    /\ outcome[r] = from
    /\ outcome' = [outcome EXCEPT ![r] = to]

Admit(r) == Move(r, "absent", "admitted")
Perform(r) == Move(r, "admitted", "performed")
Charge(r) == Move(r, "performed", "charged")
Void(r) == Move(r, "admitted", "voided")

Next == \E r \in Requests : Admit(r) \/ Perform(r) \/ Charge(r) \/ Void(r)

Spec == Init /\ [][Next]_outcome

\* An admitted request does not stay open for ever.
Resolved ==
    \A r \in Requests : outcome[r] \in {"admitted", "performed"} ~> outcome[r] \in {"charged", "voided"}
=============================================================================
