------------------------------ MODULE MCGroups ------------------------------
(* Small instances of Groups for TLC. *)
EXTENDS Groups, TLC

EditedTerms == [limit : {1}, member : {NoLimit}, len : {1, 2}, count : {0, 3}]

\* A history before the first step: group 2 was created without an end, and
\* every user joined it.
GroupRow ==
    replaceGroupPeriodTx([limit |-> 1, member |-> NoLimit, len |-> 2, anchor |-> 0, count |-> 0, number |-> 1,
                          expires |-> Never, archived |-> FALSE, periods |-> <<>>, term |-> 1], 0)

JoinedInit ==
    /\ now = 0
    /\ group = [g \in Groups |-> IF g = 2 THEN GroupRow ELSE NoGroupRow]
    /\ membership = [g \in Groups |-> [u \in Users |-> IF g = 2 THEN DefaultPriority ELSE 0]]
    /\ mirror = [u \in Users |-> 2]
    /\ clearing = NoClearing
    /\ claimed = 0

JoinedSpec == JoinedInit /\ [][GroupsNext]_<<now, groupVars>>

=============================================================================
