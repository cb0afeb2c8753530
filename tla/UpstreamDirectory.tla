-------------------------- MODULE UpstreamDirectory --------------------------
(***************************************************************************)
(* The directory of one provider's upstream accounts, kept in step with    *)
(* the sidecar's account list.  Every gateway process lists the accounts   *)
(* and applies the list under a mutex of its own, which it also holds      *)
(* while it changes an account's status at the sidecar; the processes      *)
(* share the database, where a list applies only to rows that are not      *)
(* newer.  Responses naming an unknown account leave a placeholder.        *)
(***************************************************************************)
EXTENDS Clock

CONSTANTS UpAccounts,    \* account identifiers
          Gateways,      \* gateway processes
          MaxChanges,    \* bound: changes of the sidecar's own state
          MaxLists,      \* bound: account lists taken
          UpHorizon      \* bound: last instant

ASSUME DirectoryAssumption ==
    MaxChanges \in Nat /\ MaxLists \in Nat /\ UpHorizon \in Nat

VARIABLES
    sidecar,     \* [UpAccounts -> [status, version]]: what the sidecar holds
    revision,    \* the sidecar's changes so far
    row,         \* [UpAccounts -> directory row]; seen is the sidecar version
                 \* its status came from (Never for a placeholder)
    preference,  \* [UpAccounts -> an Owner's local settings of the account]
    lists,       \* lists taken so far
    syncing,     \* [Gateways -> NoSync or the list being applied]
    \* history, never read by the code:
    confirmed,   \* [Gateways -> [UpAccounts -> version it last confirmed]]
    newest       \* the applied list with the latest time

directoryVars == <<sidecar, revision, row, preference, lists, syncing, confirmed, newest>>

-----------------------------------------------------------------------------
RemoteStatuses == {"absent", "available", "unavailable", "unknown"}
NoSync == [list |-> <<>>, at |-> Never]
NoRow == [known |-> FALSE, status |-> "unavailable", updated |-> Never, seen |-> Never]

\* what a listed account becomes in the snapshot that is stored: available
\* only when every source status is known and the account says so
upstreamAccountSnapshots(list) ==
    [a \in UpAccounts |->
        IF list[a].status = "available" THEN "available" ELSE "unavailable"]

DirectoryInit ==
    /\ sidecar = [a \in UpAccounts |-> [status |-> "available", version |-> 0]]
    /\ revision = 0
    /\ row = [a \in UpAccounts |-> NoRow]
    /\ preference = [a \in UpAccounts |-> "default"]
    /\ lists = 0
    /\ syncing = [g \in Gateways |-> NoSync]
    /\ confirmed = [g \in Gateways |-> [a \in UpAccounts |-> 0]]
    /\ newest = [list |-> <<>>, at |-> Never, rows |-> {}]

-----------------------------------------------------------------------------
Turn(a, status) ==
    /\ revision < MaxChanges
    /\ status # sidecar[a].status
    /\ revision' = revision + 1
    /\ sidecar' = [sidecar EXCEPT ![a] = [status |-> status, version |-> revision']]

\* the sidecar gains, loses, enables or disables an account by itself
SidecarTurns(a, status) ==
    /\ Turn(a, status)
    /\ UNCHANGED <<now, row, preference, lists, syncing, confirmed, newest>>

Unlocked(g) == syncing[g] = NoSync

\* an administrator turns an account on or off: the mutex is held while the
\* sidecar answers, and its answer is the confirmation
setUpstreamAccountStatus(g, a, enabled) ==
    /\ Unlocked(g)
    /\ sidecar[a].status # "absent"
    /\ Turn(a, IF enabled THEN "available" ELSE "unavailable")
    /\ confirmed' = [confirmed EXCEPT ![g][a] = revision']
    /\ UNCHANGED <<now, row, preference, lists, syncing, newest>>

\* the list arrives; the time that will order it is read once it has
syncUpstreamAccountsLocked(g) ==
    /\ Unlocked(g)
    /\ lists < MaxLists
    /\ lists' = lists + 1
    /\ \E at \in Instants : syncing' = [syncing EXCEPT ![g] = [list |-> sidecar, at |-> at]]
    /\ UNCHANGED <<now, sidecar, revision, row, preference, confirmed, newest>>

\* mutant: lists are applied in the order they commit
AppliedAsTheyCommit(a, at) == TRUE

\* the row is not newer than a list stamped at
Newer(a, at) == row[a].updated <= at

\* rows listed are inserted or refreshed, rows missing are made unavailable,
\* neither when the row is already newer than the list
SyncedRow(a, list, at) ==
    LET listed == list[a].status # "absent"
        status == IF listed THEN upstreamAccountSnapshots(list)[a] ELSE "unavailable"
    IN  IF Newer(a, at) /\ (listed \/ row[a].known)
        THEN [known |-> TRUE, status |-> status, updated |-> at, seen |-> list[a].version]
        ELSE row[a]

SyncUpstreamAccounts(g) ==
    /\ ~Unlocked(g)
    /\ LET list == syncing[g].list
           at == syncing[g].at
       IN  /\ row' = [a \in UpAccounts |-> SyncedRow(a, list, at)]
           /\ newest' = IF at >= newest.at
                        THEN [list |-> list, at |-> at,
                              rows |-> {a \in UpAccounts : row'[a].known}]
                        ELSE newest
    /\ syncing' = [syncing EXCEPT ![g] = NoSync]
    /\ UNCHANGED <<now, sidecar, revision, preference, lists, confirmed>>

\* the list or its transaction fails, or the process restarts
AbandonSync(g) ==
    /\ ~Unlocked(g)
    /\ syncing' = [syncing EXCEPT ![g] = NoSync]
    /\ UNCHANGED <<now, sidecar, revision, row, preference, lists, confirmed, newest>>

\* a response names an account the directory does not have yet
EnsureUpstreamAccount(a) ==
    /\ ~row[a].known
    /\ \E at \in Instants :
        row' = [row EXCEPT ![a] = [known |-> TRUE, status |-> "unavailable",
                                   updated |-> at, seen |-> Never]]
    /\ UNCHANGED <<now, sidecar, revision, preference, lists, syncing, confirmed, newest>>

\* weight, limit, alias or access is edited: updated_at belongs to
\* synchronisation and stays as it is
EditPreference(a) ==
    /\ row[a].known
    /\ preference[a] = "default"
    /\ preference' = [preference EXCEPT ![a] = "edited"]
    /\ UNCHANGED <<now, sidecar, revision, row, lists, syncing, confirmed, newest>>

DirectoryTick == now < UpHorizon /\ now' = now + 1 /\ UNCHANGED directoryVars

DirectoryNext ==
    \/ \E a \in UpAccounts, status \in RemoteStatuses : SidecarTurns(a, status)
    \/ \E g \in Gateways, a \in UpAccounts, enabled \in BOOLEAN :
            setUpstreamAccountStatus(g, a, enabled)
    \/ \E g \in Gateways :
            \/ syncUpstreamAccountsLocked(g)
            \/ SyncUpstreamAccounts(g)
            \/ AbandonSync(g)
    \/ \E a \in UpAccounts : EnsureUpstreamAccount(a) \/ EditPreference(a)
    \/ DirectoryTick

DirectorySpec == now = 0 /\ DirectoryInit /\ [][DirectoryNext]_<<now, directoryVars>>

-----------------------------------------------------------------------------
(* Properties                                                              *)

\* Of all the lists applied, the one with the latest time decides: every row
\* it found carries what it says, however late an older list commits and
\* whatever local preference is edited since (SyncUpstreamAccounts' updated_at
\* guard; only a placeholder stamped later may keep its own status).
NewestSnapshotWins ==
    newest.at # Never =>
        \A a \in newest.rows :
            \/ /\ row[a].updated = newest.at
               /\ row[a].seen = newest.list[a].version
               /\ row[a].status = upstreamAccountSnapshots(newest.list)[a]
            \/ row[a].updated > newest.at /\ row[a].seen = Never

\* A process never writes over a status change it has confirmed with a list it
\* took before the change: the mutex keeps an older list from finishing after
\* (setUpstreamAccountStatus, upstreamAccountsJSON).
ConfirmedStatusKept ==
    \A g \in Gateways, a \in UpAccounts :
        SyncUpstreamAccounts(g) /\ row'[a] # row[a] => row'[a].seen >= confirmed[g][a]

\* The directory never goes back to older news of an account: NewestSnapshotWins
\* among the lists after every step, ConfirmedStatusKept by it against a change
\* made through the process.
DirectoryMovesForward == [][NewestSnapshotWins' /\ ConfirmedStatusKept]_directoryVars

=============================================================================
