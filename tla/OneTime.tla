------------------------------ MODULE OneTime ------------------------------
(***************************************************************************)
(* What a store of one-time tokens promises: a token is issued once with a *)
(* deadline, it is redeemed at most once and only before its deadline, and *)
(* a token that is gone never comes back.  Losing a live token is allowed: *)
(* it expires, it is refused, or the process that holds it restarts.       *)
(***************************************************************************)
EXTENDS Integers

CONSTANTS
    Tokens,
    Life,           \* the longest a token lives
    Slack           \* how old the instant of a redemption may be

VARIABLES
    clock,          \* the current instant
    token,          \* "unused", "live" or "gone"
    deadline,       \* until when a live token can be redeemed
    redeemed        \* how often a token was redeemed

oneTimeVars == <<token, deadline, redeemed>>

OneTimeInit ==
    /\ token = [t \in Tokens |-> "unused"]
    /\ deadline = [t \in Tokens |-> -1]
    /\ redeemed = [t \in Tokens |-> 0]

LiveTokens == {t \in Tokens : token[t] = "live"}

\* The tokens of lost vanish, whatever else the step does.
Without(lost, f, v) == [t \in Tokens |-> IF t \in lost THEN v ELSE f[t]]

LoseTokens(lost) ==
    /\ token' = Without(lost, token, "gone")
    /\ deadline' = Without(lost, deadline, -1)
    /\ UNCHANGED redeemed

\* A store drops the expired tokens while it issues a new one.
IssueToken(t, lost) ==
    /\ token[t] = "unused"
    /\ token' = [Without(lost, token, "gone") EXCEPT ![t] = "live"]
    /\ deadline'[t] \in 0..(clock + Life)
    /\ deadline' = [Without(lost, deadline, -1) EXCEPT ![t] = deadline'[t]]
    /\ UNCHANGED redeemed

RedeemToken(t) ==
    /\ token[t] = "live" /\ deadline[t] > clock - Slack
    /\ token' = [token EXCEPT ![t] = "gone"]
    /\ deadline' = [deadline EXCEPT ![t] = -1]
    /\ redeemed' = [redeemed EXCEPT ![t] = @ + 1]

OneTimeNext ==
    \/ \E t \in Tokens : RedeemToken(t)
    \/ \E lost \in SUBSET LiveTokens : LoseTokens(lost) \/ \E t \in Tokens : IssueToken(t, lost)

OneTimeSpec == OneTimeInit /\ [][OneTimeNext]_oneTimeVars
=============================================================================
