--------------------------- MODULE MCSubscriptions ---------------------------
(* Small instances of Subscriptions for TLC. *)
EXTENDS Subscriptions, TLC

OneTerm == {[price |-> 1, days |-> 1, allowance |-> 1, min |-> 1]}
TwoTerms == OneTerm \cup {[price |-> 2, days |-> 2, allowance |-> 2, min |-> 1]}
SingleUser == [c \in Clients |-> CHOOSE u \in Users : TRUE]

\* A history before the first step: the operations "earlier" funded every
\* account with 6 and put some plans on sale.
Money == 6

FundedInit ==
    /\ balance = [u \in Users |-> Money]
    /\ nextLot = [u \in Users |-> 2]
    /\ lots = [u \in Users |-> [i \in {1} |-> [remaining |-> Money, entry |-> 1]]]
    /\ rate = CHOOSE r \in Rates : TRUE
    /\ operation = [op \in Ops |-> NoOperation]
    /\ tombstone = {}
    /\ ledger = <<[op |-> "earlier", user |-> "none", amount |-> Money, after |-> Money, kept |-> TRUE]>>
    /\ answered = [op \in Ops |-> {}]
    /\ effects = [op \in Ops |-> 0]
    /\ now = 0
    /\ plan \in [Plans -> [terms : Terms, version : {1}, active : {TRUE}, deleted : {FALSE}] \cup {NoPlanRow}]
    /\ sub = [s \in Subs |-> NoSub]
    /\ ents = [s \in Subs |-> <<>>]
    /\ periods = [s \in Subs |-> <<>>]
    /\ config = 0
    /\ quote = [c \in Clients |-> NoQuote]

=============================================================================
