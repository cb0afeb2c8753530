----------------------------- MODULE MCBilling -----------------------------
(* Small instances of Billing for TLC. *)
EXTENDS Billing

OneTerm == {[price |-> 1, days |-> 1, allowance |-> 2, min |-> 1]}
MixedTerms == {[price |-> 1, days |-> d, allowance |-> 2, min |-> 1] : d \in {1, 7}}
SingleUser == [c \in Clients |-> CHOOSE u \in Users : TRUE]
OpenTerms == {[limit |-> 2, member |-> NoLimit, len |-> 1, count |-> 0]}
LimitTerms == {[limit |-> 3, member |-> 2, len |-> 1, count |-> 0], [limit |-> 1, member |-> NoLimit, len |-> 1, count |-> 0]}

Symmetry == Permutations(Users) \cup Permutations(Requests) \cup Permutations(Ops) \cup Permutations(Upstreams)

\* A history before the first step.  Every user was credited once with Money,
\* has one subscription per ID in Subs (without an end), and is a
\* member of every group; each group offers some upstream accounts.
Money == 1

GroupRow(t) ==
    replaceGroupPeriodTx([limit |-> t.limit, member |-> t.member, len |-> t.len, anchor |-> 0,
                          count |-> t.count, number |-> 1,
                          expires |-> groupExpiration(t.len, t.len, t.count, 1), archived |-> FALSE,
                          periods |-> <<>>, term |-> 1], 0)

FundedInit ==
    /\ balance = [u \in Users |-> Money]
    /\ nextLot = [u \in Users |-> 2]
    /\ lots = [u \in Users |-> [i \in {1} |-> [remaining |-> Money, entry |-> 1]]]
    /\ rate = 1
    /\ operation = [op \in Ops |-> NoOperation]
    /\ tombstone = {}
    /\ ledger = <<[op |-> "earlier", user |-> "none", amount |-> Money, after |-> Money, kept |-> TRUE]>>
    /\ answered = [op \in Ops |-> {}]
    /\ effects = [op \in Ops |-> 0]
    /\ now = 0
    /\ plan = [p \in Plans |-> NoPlanRow]
    /\ \E term \in [Subs -> Terms], owner \in [Subs -> Users] :
          /\ sub = [s \in Subs |->
                      [user |-> owner[s], enabled |-> TRUE, days |-> term[s].days, allowance |-> term[s].allowance,
                       count |-> 0, number |-> 1, expires |-> Never, current |-> 1, plan |-> NoPlan,
                       config |-> 1, charge |-> TRUE, priority |-> 1]]
          /\ ents = [s \in Subs |-> <<Entitlement(0, term[s].days, term[s].allowance, 0, 1)>>]
          /\ periods = [s \in Subs |->
                          <<[start |-> 0, end |-> term[s].days * DayTicks, allowance |-> term[s].allowance,
                             remaining |-> term[s].allowance, number |-> 1, ent |-> 1, open |-> TRUE]>>]
    /\ config = 1
    /\ quote = [c \in Clients |-> NoQuote]
    /\ \E t \in GroupTerms : group = [g \in Groups |-> GroupRow(t)]
    /\ membership = [g \in Groups |-> [u \in Users |-> DefaultPriority]]
    /\ mirror = [u \in Users |-> IF Groups = {} THEN NoGroup ELSE CHOOSE g \in Groups : TRUE]
    /\ clearing = NoClearing
    /\ claimed = 0
    /\ request = [r \in Requests |-> NoRequest]
    /\ pool \in [Groups -> (SUBSET Upstreams) \ {{}}]
    /\ cash = [u \in Users |-> [priority |-> 100, disabled |-> FALSE]]
    /\ erased = {}

FundedSpec == FundedInit /\ [][BillingNext]_allVars

=============================================================================
