--------------------------- MODULE UpstreamProofs ---------------------------
(***************************************************************************)
(* The upstream accounts, for any accounts, gateways, grants, runs and     *)
(* crashes: the directory moves forward only, the credential the bridge    *)
(* saves stays saved, an account withdrawn from a user is not chosen, and  *)
(* the probes of an account never overlap.                                 *)
(***************************************************************************)
EXTENDS UpstreamDirectory, Keyring, UpstreamAccess, Identification, TLAPS

\* The provers to try, and their time, for a leaf that names none.
USE SMTT(30), ZenonT(30), SMTT(60)

-----------------------------------------------------------------------------
(* The directory                                                           *)

Entries == [status : RemoteStatuses, version : Nat]
Lists == [UpAccounts -> Entries]
DirectoryRows == [known : BOOLEAN, status : {"available", "unavailable"}, updated : Int, seen : Int]

DirectoryTypeOK ==
    /\ now \in Nat /\ revision \in Nat
    /\ sidecar \in Lists
    /\ row \in [UpAccounts -> DirectoryRows]
    /\ syncing \in [Gateways -> {NoSync} \cup [list : Lists, at : Nat]]
    /\ confirmed \in [Gateways -> [UpAccounts -> Nat]]
    /\ newest = [list |-> <<>>, at |-> Never, rows |-> {}]
         \/ newest \in [list : Lists, at : Nat, rows : SUBSET UpAccounts]

\* What a row says of an account against the newest list applied: a row that
\* carries a list's news is not newer than that list, and one the newest list
\* found is as it says or a later placeholder.
RowFollows(a) ==
    /\ row[a].seen # Never => row[a].updated <= newest.at
    /\ a \in newest.rows =>
        /\ row[a].known
        /\ \/ /\ row[a].updated = newest.at
              /\ row[a].seen = newest.list[a].version
              /\ row[a].status = upstreamAccountSnapshots(newest.list)[a]
           \/ row[a].updated > newest.at /\ row[a].seen = Never

\* A gateway's list is never older than what the gateway has confirmed.
ListsCurrent ==
    \A g \in Gateways, a \in UpAccounts :
        /\ confirmed[g][a] <= sidecar[a].version
        /\ syncing[g] # NoSync => confirmed[g][a] <= syncing[g].list[a].version

DirectoryInvariant ==
    /\ DirectoryTypeOK
    /\ \A a \in UpAccounts : sidecar[a].version <= revision
    /\ \A a \in UpAccounts : RowFollows(a)
    /\ ListsCurrent

\* A list being applied is a list with an instant.
LEMMA SyncRead ==
    ASSUME DirectoryTypeOK, NEW g \in Gateways, ~Unlocked(g)
    PROVE  /\ syncing[g].list \in Lists /\ syncing[g].at \in Nat
           /\ syncing[g] # NoSync
<1>1. syncing[g] \in [list : Lists, at : Nat]
  BY DEF DirectoryTypeOK, Unlocked
<1> QED BY <1>1 DEF Unlocked

\* What the newest list's fields are.
LEMMA NewestType ==
    ASSUME DirectoryTypeOK
    PROVE  /\ newest.at \in Int /\ newest.rows \subseteq UpAccounts
           /\ newest.at = Never => newest.rows = {}
           /\ newest.at # Never => newest.at \in Nat /\ newest.list \in Lists
BY DEF DirectoryTypeOK, Never

\* A step that leaves rows and lists alone.
LEMMA RowsUntouched ==
    ASSUME DirectoryInvariant, DirectoryTypeOK', UNCHANGED <<row, newest>>,
           \A a \in UpAccounts : (sidecar[a].version <= revision)', ListsCurrent'
    PROVE  DirectoryInvariant'
BY DEF DirectoryInvariant, RowFollows, upstreamAccountSnapshots

\* The row after a list, case by case.
LEMMA SyncedRowCases ==
    ASSUME NEW a \in UpAccounts, NEW list, NEW at
    PROVE  \/ SyncedRow(a, list, at) = row[a] /\ ~(row[a].updated <= at /\ (list[a].status # "absent" \/ row[a].known))
           \/ /\ row[a].updated <= at
              /\ SyncedRow(a, list, at) = [known |-> TRUE, status |-> upstreamAccountSnapshots(list)[a],
                                           updated |-> at, seen |-> list[a].version]
BY Zenon DEF SyncedRow, Newer, upstreamAccountSnapshots

\* The sidecar changes, by itself or for an administrator whose gateway holds
\* no list.
LEMMA TurnStep ==
    ASSUME DirectoryInvariant, NEW a \in UpAccounts, NEW status \in RemoteStatuses, Turn(a, status),
           UNCHANGED <<now, row, syncing, newest>>,
           \/ UNCHANGED confirmed
           \/ \E g \in Gateways : Unlocked(g) /\ confirmed' = [confirmed EXCEPT ![g][a] = revision']
    PROVE  DirectoryInvariant'
<1>0. DirectoryTypeOK
  BY DEF DirectoryInvariant
<1>1. /\ revision \in Nat /\ revision' = revision + 1
      /\ sidecar' = [sidecar EXCEPT ![a] = [status |-> status, version |-> revision']]
  BY <1>0 DEF Turn, DirectoryTypeOK
<1>2. sidecar' \in Lists /\ \A b \in UpAccounts : sidecar'[b] = IF b = a THEN [status |-> status, version |-> revision'] ELSE sidecar[b]
  BY <1>0, <1>1 DEF DirectoryTypeOK, Lists, Entries
<1>3. /\ confirmed' \in [Gateways -> [UpAccounts -> Nat]]
      /\ \A g \in Gateways, b \in UpAccounts :
            confirmed'[g][b] = confirmed[g][b] \/ (Unlocked(g) /\ b = a /\ confirmed'[g][b] = revision')
  <2>0. confirmed \in [Gateways -> [UpAccounts -> Nat]] /\ revision' \in Nat
    BY <1>0, <1>1 DEF DirectoryTypeOK
  <2>1. CASE UNCHANGED confirmed
    BY <2>0, <2>1
  <2>2. CASE ~UNCHANGED confirmed
    <3>1. PICK g \in Gateways : Unlocked(g) /\ confirmed' = [confirmed EXCEPT ![g][a] = revision']
      BY <2>2
    <3> DEFINE row2 == [confirmed[g] EXCEPT ![a] = revision']
    <3>2. row2 \in [UpAccounts -> Nat] /\ row2[a] = revision' /\ \A b \in UpAccounts : b # a => row2[b] = confirmed[g][b]
      BY <2>0
    <3>3. confirmed' = [confirmed EXCEPT ![g] = row2]
      BY <2>0, <3>1
    <3> HIDE DEF row2
    <3>4. /\ confirmed' \in [Gateways -> [UpAccounts -> Nat]] /\ confirmed'[g] = row2
          /\ \A o \in Gateways : o # g => confirmed'[o] = confirmed[o]
      BY <2>0, <3>2, <3>3
    <3> QED BY <3>1, <3>2, <3>4
  <2> QED BY <2>1, <2>2
<1>4. DirectoryTypeOK'
  BY <1>0, <1>1, <1>2, <1>3 DEF DirectoryTypeOK, NoSync
<1>5. ASSUME NEW b \in UpAccounts
      PROVE  sidecar[b].version <= sidecar'[b].version /\ sidecar'[b].version <= revision' /\ sidecar[b].version \in Nat
  BY <1>0, <1>1, <1>2 DEF DirectoryInvariant, DirectoryTypeOK, Lists, Entries
<1>6. ASSUME NEW g \in Gateways, NEW b \in UpAccounts
      PROVE  /\ confirmed'[g][b] = confirmed[g][b] \/ (Unlocked(g) /\ b = a /\ confirmed'[g][b] = revision')
             /\ confirmed[g][b] \in Nat
  BY <1>0, <1>3 DEF DirectoryTypeOK
<1>7. ListsCurrent'
  <2>1. ASSUME NEW g \in Gateways, NEW b \in UpAccounts
        PROVE  /\ confirmed'[g][b] <= sidecar'[b].version
               /\ syncing[g] # NoSync => confirmed'[g][b] <= syncing[g].list[b].version
    <3>1. confirmed[g][b] <= sidecar[b].version /\ (syncing[g] # NoSync => confirmed[g][b] <= syncing[g].list[b].version)
      BY DEF DirectoryInvariant, ListsCurrent
    <3>2. sidecar'[a].version = revision'
      BY <1>2
    <3> QED BY <1>1, <1>5, <1>6, <3>1, <3>2 DEF Unlocked
  <2> QED BY <2>1 DEF ListsCurrent, NoSync
<1> QED BY <1>4, <1>5, <1>7, RowsUntouched

\* A list is applied.
LEMMA ApplyStep ==
    ASSUME DirectoryInvariant, NEW g \in Gateways, SyncUpstreamAccounts(g)
    PROVE  /\ DirectoryInvariant'
           /\ \A a \in UpAccounts : row'[a] # row[a] => row'[a].seen >= confirmed[g][a]
<1> DEFINE list == syncing[g].list
<1> DEFINE at == syncing[g].at
<1>0. DirectoryTypeOK /\ row \in [UpAccounts -> DirectoryRows]
  BY DEF DirectoryInvariant, DirectoryTypeOK
<1>1. list \in Lists /\ at \in Nat /\ syncing[g] # NoSync
  BY <1>0, SyncRead DEF SyncUpstreamAccounts
<1>2. /\ row' = [a \in UpAccounts |-> SyncedRow(a, list, at)]
      /\ newest' = IF at >= newest.at THEN [list |-> list, at |-> at, rows |-> {a \in UpAccounts : row'[a].known}]
                   ELSE newest
      /\ syncing' = [syncing EXCEPT ![g] = NoSync]
      /\ UNCHANGED <<now, sidecar, revision, confirmed>>
  BY DEF SyncUpstreamAccounts
<1> HIDE DEF list, at
<1>3. /\ upstreamAccountSnapshots(list) \in [UpAccounts -> {"available", "unavailable"}]
      /\ \A a \in UpAccounts : list[a].version \in Nat
  BY <1>1 DEF upstreamAccountSnapshots, Lists, Entries
<1>4. ASSUME NEW a \in UpAccounts
      PROVE  /\ row'[a] \in DirectoryRows
             /\ \/ row'[a] = row[a] /\ ~(row[a].updated <= at /\ (list[a].status # "absent" \/ row[a].known))
                \/ /\ row[a].updated <= at
                   /\ row'[a].known /\ row'[a].status = upstreamAccountSnapshots(list)[a]
                   /\ row'[a].updated = at /\ row'[a].seen = list[a].version
  <2>1. row'[a] = SyncedRow(a, list, at)
    BY <1>2
  <2>2. row[a] \in DirectoryRows
    BY <1>0
  <2>3. upstreamAccountSnapshots(list)[a] \in {"available", "unavailable"} /\ list[a].version \in Nat
    BY <1>3
  <2>4. CASE row'[a] = row[a] /\ ~(row[a].updated <= at /\ (list[a].status # "absent" \/ row[a].known))
    BY <2>2, <2>4
  <2>5. CASE /\ row[a].updated <= at
             /\ row'[a] = [known |-> TRUE, status |-> upstreamAccountSnapshots(list)[a],
                           updated |-> at, seen |-> list[a].version]
    <3>1. row'[a] \in DirectoryRows
      BY <1>1, <2>3, <2>5 DEF DirectoryRows
    <3>2. row'[a].known = TRUE
      BY <2>5
    <3> QED BY <2>5, <3>1, <3>2
  <2> QED BY <2>1, <2>4, <2>5, SyncedRowCases
<1>5. row' \in [UpAccounts -> DirectoryRows]
  BY <1>2, <1>4
<1>6. newest' = newest \/ newest' \in [list : Lists, at : Nat, rows : SUBSET UpAccounts]
  BY <1>1, <1>2
<1>7. DirectoryTypeOK'
  BY Zenon, <1>0, <1>2, <1>5, <1>6 DEF DirectoryTypeOK, NoSync
<1>8. ASSUME NEW a \in UpAccounts
      PROVE  RowFollows(a)'
  <2>1. newest.at \in Int /\ row[a] \in DirectoryRows /\ RowFollows(a)
    BY <1>0, NewestType DEF DirectoryInvariant
  <2>2. row[a].updated \in Int /\ row[a].seen \in Int /\ row[a].known \in BOOLEAN
    BY <2>1 DEF DirectoryRows
  <2>3. CASE at >= newest.at
    <3>1. newest'.at = at /\ newest'.list = list /\ newest'.rows = {b \in UpAccounts : row'[b].known}
      BY <1>2, <2>3
    <3>2. row'[a].seen # Never => row'[a].updated <= newest'.at
      BY <1>1, <1>4, <2>1, <2>2, <2>3, <3>1 DEF RowFollows
    <3>3. ASSUME row'[a].known, row'[a] = row[a],
                 ~(row[a].updated <= at /\ (list[a].status # "absent" \/ row[a].known))
          PROVE  row'[a].updated > at /\ row'[a].seen = Never
      BY <1>1, <2>1, <2>2, <2>3, <3>3 DEF RowFollows
    <3> QED BY <1>4, <3>1, <3>2, <3>3 DEF RowFollows, upstreamAccountSnapshots
  <2>4. CASE ~(at >= newest.at)
    <3>1. newest' = newest /\ at < newest.at
      BY <1>1, <1>2, <2>1, <2>4
    <3>2. CASE row'[a] = row[a]
      BY <2>1, <3>1, <3>2 DEF RowFollows, upstreamAccountSnapshots
    <3>3. CASE row'[a] # row[a]
      <4>1. row[a].updated <= at /\ row'[a].updated = at
        BY <1>4, <3>3
      <4>2. a \notin newest.rows
        BY <1>1, <2>1, <2>2, <3>1, <4>1 DEF RowFollows
      <4> QED BY <1>1, <2>1, <3>1, <4>1, <4>2 DEF RowFollows
    <3> QED BY <3>2, <3>3
  <2> QED BY <2>3, <2>4
<1>9. ListsCurrent'
  BY Zenon, <1>0, <1>2 DEF DirectoryInvariant, ListsCurrent, DirectoryTypeOK, NoSync
<1>10. \A a \in UpAccounts : (sidecar[a].version <= revision)'
  BY <1>2 DEF DirectoryInvariant
<1>11. ASSUME NEW a \in UpAccounts, row'[a] # row[a]
       PROVE  row'[a].seen >= confirmed[g][a]
  <2>1. row'[a].seen = list[a].version
    BY <1>4, <1>11
  <2>2. confirmed[g][a] <= list[a].version /\ confirmed[g][a] \in Nat
    BY <1>0, <1>1 DEF DirectoryInvariant, ListsCurrent, list, DirectoryTypeOK
  <2> QED BY <1>3, <2>1, <2>2
<1> QED BY <1>7, <1>8, <1>9, <1>10, <1>11 DEF DirectoryInvariant

\* Every step keeps the directory's invariant.
LEMMA DirectoryStep ==
    ASSUME DirectoryInvariant, [DirectoryNext]_<<now, directoryVars>>
    PROVE  DirectoryInvariant'
<1>0. DirectoryTypeOK
  BY DEF DirectoryInvariant
<1>1. ASSUME NEW a \in UpAccounts, NEW status \in RemoteStatuses, SidecarTurns(a, status)
      PROVE  DirectoryInvariant'
  BY <1>1, TurnStep DEF SidecarTurns
<1>2. ASSUME NEW g \in Gateways, NEW a \in UpAccounts, NEW on \in BOOLEAN, setUpstreamAccountStatus(g, a, on)
      PROVE  DirectoryInvariant'
  <2>1. (IF on THEN "available" ELSE "unavailable") \in RemoteStatuses
    BY DEF RemoteStatuses
  <2> QED BY Zenon, <1>2, <2>1, TurnStep DEF setUpstreamAccountStatus
<1>3. ASSUME NEW g \in Gateways, syncUpstreamAccountsLocked(g)
      PROVE  DirectoryInvariant'
  <2>1. PICK at \in Instants : syncing' = [syncing EXCEPT ![g] = [list |-> sidecar, at |-> at]]
    BY Zenon, <1>3 DEF syncUpstreamAccountsLocked
  <2>2. at \in Nat
    BY <1>0 DEF Instants, DirectoryTypeOK
  <2>3. UNCHANGED <<now, sidecar, revision, row, confirmed, newest>>
    BY <1>3 DEF syncUpstreamAccountsLocked
  <2>4. DirectoryTypeOK'
    BY Zenon, <1>0, <2>1, <2>2, <2>3 DEF DirectoryTypeOK, NoSync
  <2>5. ListsCurrent'
    BY <1>0, <2>1, <2>3 DEF DirectoryInvariant, ListsCurrent, DirectoryTypeOK, NoSync
  <2> QED BY <2>3, <2>4, <2>5, RowsUntouched DEF DirectoryInvariant
<1>4. ASSUME NEW g \in Gateways, SyncUpstreamAccounts(g)
      PROVE  DirectoryInvariant'
  BY <1>4, ApplyStep
<1>5. ASSUME NEW g \in Gateways, AbandonSync(g)
      PROVE  DirectoryInvariant'
  <2>1. syncing' = [syncing EXCEPT ![g] = NoSync] /\ UNCHANGED <<now, sidecar, revision, row, confirmed, newest>>
    BY Zenon, <1>5 DEF AbandonSync
  <2>2. DirectoryTypeOK'
    BY Zenon, <1>0, <2>1 DEF DirectoryTypeOK, NoSync
  <2>3. ListsCurrent'
    BY <1>0, <2>1 DEF DirectoryInvariant, ListsCurrent, DirectoryTypeOK, NoSync
  <2> QED BY <2>1, <2>2, <2>3, RowsUntouched DEF DirectoryInvariant
<1>6. ASSUME NEW a \in UpAccounts, EnsureUpstreamAccount(a)
      PROVE  DirectoryInvariant'
  <2>1. PICK at \in Instants : row' = [row EXCEPT ![a] = [known |-> TRUE, status |-> "unavailable", updated |-> at, seen |-> Never]]
    BY ZenonT(30), <1>6 DEF EnsureUpstreamAccount
  <2>2. at \in Nat /\ Never \in Int
    BY <1>0 DEF Instants, DirectoryTypeOK, Never
  <2>3. ~row[a].known /\ UNCHANGED <<now, sidecar, revision, syncing, confirmed, newest>>
    BY <1>6 DEF EnsureUpstreamAccount
  <2>4. row' \in [UpAccounts -> DirectoryRows]
    <3> DEFINE new == [known |-> TRUE, status |-> "unavailable", updated |-> at, seen |-> Never]
    <3>1. new \in DirectoryRows
      BY <2>2 DEF DirectoryRows
    <3>2. row \in [UpAccounts -> DirectoryRows]
      BY Zenon, <1>0 DEF DirectoryTypeOK
    <3> HIDE DEF new
    <3> QED BY <2>1, <3>1, <3>2 DEF new
  <2>5. DirectoryTypeOK' /\ ListsCurrent'
    BY <1>0, <2>3, <2>4 DEF DirectoryTypeOK, DirectoryInvariant, ListsCurrent, NoSync
  <2>6. ASSUME NEW b \in UpAccounts
        PROVE  RowFollows(b)'
    <3>1. CASE b = a
      <4>1. row'[b].seen = Never /\ b \notin newest.rows
        BY Zenon, <1>0, <2>1, <2>3, <3>1 DEF DirectoryInvariant, RowFollows, DirectoryTypeOK
      <4> QED BY Zenon, <2>3, <4>1 DEF RowFollows
    <3>2. CASE b # a
      <4>1. row'[b] = row[b]
        BY <1>0, <2>1, <3>2 DEF DirectoryTypeOK
      <4> QED BY Zenon, <2>3, <4>1 DEF DirectoryInvariant, RowFollows, upstreamAccountSnapshots
    <3> QED BY <3>1, <3>2
  <2> QED BY <2>3, <2>5, <2>6 DEF DirectoryInvariant
<1>7. ASSUME UNCHANGED <<sidecar, revision, row, syncing, confirmed, newest>>, now' \in Nat
      PROVE  DirectoryInvariant'
  <2>1. DirectoryTypeOK' /\ ListsCurrent'
    BY Zenon, <1>0, <1>7 DEF DirectoryTypeOK, DirectoryInvariant, ListsCurrent, NoSync
  <2> QED BY Zenon, <1>7, <2>1, RowsUntouched DEF DirectoryInvariant
<1>8. ASSUME NEW a \in UpAccounts, EditPreference(a)
      PROVE  DirectoryInvariant'
  BY Zenon, <1>0, <1>7, <1>8 DEF EditPreference, DirectoryTypeOK
<1>9. CASE DirectoryTick \/ UNCHANGED <<now, directoryVars>>
  BY <1>0, <1>7, <1>9 DEF DirectoryTick, directoryVars, DirectoryTypeOK
<1> QED BY <1>1, <1>2, <1>3, <1>4, <1>5, <1>6, <1>8, <1>9 DEF DirectoryNext

\* However many gateways list and apply, in whatever order their lists commit:
\* every row carries the newest list applied, and no gateway writes over a
\* change of an account's status that it has confirmed.
THEOREM DirectoryMovesForwardHolds == DirectorySpec => []NewestSnapshotWins /\ DirectoryMovesForward
<1>1. now = 0 /\ DirectoryInit => DirectoryInvariant
  <2> SUFFICES ASSUME now = 0, DirectoryInit PROVE DirectoryInvariant
    OBVIOUS
  <2>1. Never \in Int
    BY DEF Never
  <2>2. DirectoryTypeOK
    BY Zenon, <2>1 DEF DirectoryInit, DirectoryTypeOK, Lists, Entries, RemoteStatuses, DirectoryRows, NoRow
  <2>3. \A a \in UpAccounts : RowFollows(a)
    BY DEF DirectoryInit, RowFollows, NoRow
  <2> QED BY <2>2, <2>3 DEF DirectoryInvariant, DirectoryInit, ListsCurrent
<1>2. DirectoryInvariant /\ [DirectoryNext]_<<now, directoryVars>> => DirectoryInvariant'
  BY Zenon, DirectoryStep
<1>3. DirectoryInvariant => NewestSnapshotWins
  BY NewestType DEF DirectoryInvariant, NewestSnapshotWins, RowFollows
<1>4. DirectoryInvariant => ConfirmedStatusKept
  BY ApplyStep DEF ConfirmedStatusKept
<1>5. DirectoryInvariant' => NewestSnapshotWins'
  BY <1>3, PTL
<1>6. DirectoryInvariant /\ [DirectoryNext]_<<now, directoryVars>> =>
        [NewestSnapshotWins' /\ ConfirmedStatusKept]_directoryVars
  BY <1>2, <1>4, <1>5
<1> QED BY <1>1, <1>2, <1>3, <1>6, PTL DEF DirectorySpec, DirectoryMovesForward

-----------------------------------------------------------------------------
(* The credential                                                          *)

KeyringTypeOK ==
    /\ manifest \in Nat /\ generation \in Nat /\ tokens \in Nat
    /\ parts \subseteq [generation : Nat, part : Nat, token : Nat]
    /\ run \in [CliRuns -> [stage : {"idle", "running", "exited", "ended"}, token : Nat, base : Nat, baseToken : Nat]]
    /\ saving \in [by : CliRuns \cup {"none"}, step : {"none", "parts", "manifest", "discard", "clear"},
                   generation : Nat, part : Nat, old : Nat]
    /\ saving.step = "none" <=> saving = NoSave

\* All the parts of a generation, of one token.
Whole(ps, g, t) ==
    /\ \A i \in 1..Parts : [generation |-> g, part |-> i, token |-> t] \in ps
    /\ \A p \in ps : p.generation = g => p.token = t /\ p.part \in 1..Parts

\* A save under way is of a run that has exited; until its manifest is stored it
\* writes to a generation of its own, and the run started from the one in use.
SaveInvariant ==
    saving.step # "none" =>
        /\ saving.by \in CliRuns /\ run[saving.by].stage = "exited" /\ run[saving.by].token # 0
        /\ saving.generation = generation
        /\ saving.step # "clear" =>
            manifest < saving.generation /\ run[saving.by].base = manifest /\ saving.old = manifest
        /\ saving.step = "parts" =>
            /\ saving.part \in 1..Parts
            /\ \A i \in 1..(saving.part - 1) :
                [generation |-> saving.generation, part |-> i, token |-> run[saving.by].token] \in parts
            /\ \A p \in parts : p.generation = saving.generation =>
                p.token = run[saving.by].token /\ p.part \in 1..Parts
        /\ saving.step = "manifest" => Whole(parts, saving.generation, run[saving.by].token)
        /\ saving.step = "clear" => manifest = saving.generation /\ saving.old # manifest

\* A run in progress that started without a credential is a login on its own,
\* and nothing has been committed since, but by itself.
FirstLogin(c) ==
    /\ run[c].stage = "idle" => run[c] = NoRun
    /\ run[c].stage \in {"running", "exited"} /\ run[c].base = 0 =>
        /\ process = "login" /\ RunsInProgress = {c}
        /\ manifest = 0 \/ (saving.step = "clear" /\ saving.by = c)

CredentialInvariant ==
    /\ KeyringTypeOK
    /\ manifest <= generation
    /\ \A p \in parts : p.generation \in 1..generation
    /\ manifest # 0 => \E t \in Nat \ {0} : Whole(parts, manifest, t)
    /\ SaveInvariant
    /\ \A c \in CliRuns : FirstLogin(c)

\* A whole generation leads to its token.
LEMMA WholeToken ==
    ASSUME NEW g, NEW t, Whole(parts, g, t)
    PROVE  TokenOf(g) = t
<1>1. Parts \in Nat /\ 1 \in 1..Parts
  BY KeyringAssumption
<1> DEFINE values == {p.token : p \in PartsOf(g)}
<1> DEFINE numbers == {p.part : p \in PartsOf(g)}
<1>2. ASSUME NEW i \in 1..Parts
      PROVE  i \in numbers /\ t \in values
  <2>1. [generation |-> g, part |-> i, token |-> t] \in PartsOf(g)
    BY DEF Whole, PartsOf
  <2> QED BY <2>1
<1>3. values = {t}
  BY <1>1, <1>2 DEF Whole, PartsOf
<1>4. numbers = 1..Parts
  BY <1>2 DEF Whole, PartsOf
<1>5. \E v \in values : values = {v}
  BY Zenon, <1>3
<1>6. (CHOOSE v \in values : TRUE) = t
  BY <1>3
<1> QED BY Zenon, <1>4, <1>5, <1>6 DEF TokenOf

\* Runs and manifest as they were, the save over.
LEMMA SaveOver ==
    ASSUME CredentialInvariant, NEW c \in CliRuns, RunEnds(c), saving' = NoSave, manifest' \in Nat,
           UNCHANGED <<process, generation, tokens>>, parts' \subseteq parts,
           manifest' <= generation,
           manifest' # 0 => \E t \in Nat \ {0} : Whole(parts', manifest', t),
           manifest' = manifest \/ run[c].stage = "exited",
           saving.step = "clear" => saving.by = c
    PROVE  CredentialInvariant'
<1>0. KeyringTypeOK /\ run \in [CliRuns -> [stage : {"idle", "running", "exited", "ended"}, token : Nat, base : Nat, baseToken : Nat]]
  BY DEF CredentialInvariant, KeyringTypeOK
<1>1. [NoRun EXCEPT !.stage = "ended"] = [stage |-> "ended", token |-> 0, base |-> 0, baseToken |-> 0]
  BY DEF NoRun
<1>2. /\ run' \in [CliRuns -> [stage : {"idle", "running", "exited", "ended"}, token : Nat, base : Nat, baseToken : Nat]]
      /\ run'[c].stage = "ended" /\ \A d \in CliRuns : d # c => run'[d] = run[d]
  BY <1>0, <1>1 DEF RunEnds
<1>3. NoSave \in [by : CliRuns \cup {"none"}, step : {"none", "parts", "manifest", "discard", "clear"},
                  generation : Nat, part : Nat, old : Nat] /\ NoSave.step = "none"
  BY DEF NoSave
<1>4. KeyringTypeOK'
  BY Zenon, <1>0, <1>2, <1>3 DEF KeyringTypeOK
<1>5. SaveInvariant'
  BY <1>3 DEF SaveInvariant
<1>6. RunsInProgress' = RunsInProgress \ {c}
  BY <1>2 DEF RunsInProgress
<1>7. ASSUME NEW d \in CliRuns
      PROVE  FirstLogin(d)'
  <2>1. CASE d = c
    BY Zenon, <1>2, <2>1 DEF FirstLogin
  <2>2. CASE d # c
    <3>1. run'[d] = run[d] /\ FirstLogin(d)
      BY <1>2, <2>2 DEF CredentialInvariant
    <3>2. ASSUME run[d].stage \in {"running", "exited"}, run[d].base = 0
          PROVE  manifest' = 0 /\ RunsInProgress' = {d}
      <4>1. RunsInProgress = {d} /\ c \notin RunsInProgress /\ manifest = 0
        BY Zenon, <2>2, <3>1, <3>2 DEF FirstLogin
      <4>2. run[c].stage # "exited"
        BY <4>1 DEF RunsInProgress
      <4> QED BY Zenon, <1>6, <4>1, <4>2
    <3> QED BY <3>1, <3>2 DEF FirstLogin, NoRun
  <2> QED BY <2>1, <2>2
<1> QED BY <1>4, <1>5, <1>7 DEF CredentialInvariant

\* A run starts from the generation in use, or as a first login.
LEMMA RestoreStep ==
    ASSUME CredentialInvariant, NEW c \in CliRuns, Restore(c)
    PROVE  CredentialInvariant'
<1> DEFINE r == [stage |-> "running", token |-> TokenOf(manifest), base |-> manifest, baseToken |-> TokenOf(manifest)]
<1> DEFINE first == [run[c] EXCEPT !.stage = "running"]
<1>0. KeyringTypeOK /\ run[c] = NoRun /\ saving = NoSave /\ saving.step = "none"
  BY DEF CredentialInvariant, Restore, KeyringTypeOK, FirstLogin
<1>1. UNCHANGED <<process, manifest, parts, generation, tokens, saving>>
  BY Zenon DEF Restore
<1>2. CASE RunEnds(c)
  BY <1>0, <1>1, <1>2, SaveOver DEF CredentialInvariant, KeyringTypeOK
<1>3. ASSUME NEW x \in [stage : {"running"}, token : Nat, base : Nat, baseToken : Nat], run' = [run EXCEPT ![c] = x],
             x.base = 0 => manifest = 0 /\ process = "login" /\ RunsInProgress = {}
      PROVE  CredentialInvariant'
  <2>1. /\ run' \in [CliRuns -> [stage : {"idle", "running", "exited", "ended"}, token : Nat, base : Nat, baseToken : Nat]]
        /\ run'[c] = x /\ \A d \in CliRuns : d # c => run'[d] = run[d]
    BY Zenon, <1>0, <1>3 DEF KeyringTypeOK
  <2>2. KeyringTypeOK' /\ SaveInvariant'
    BY <1>0, <1>1, <2>1 DEF KeyringTypeOK, SaveInvariant
  <2>3. RunsInProgress' = RunsInProgress \cup {c}
    BY <2>1 DEF RunsInProgress
  <2>4. ASSUME NEW d \in CliRuns
        PROVE  FirstLogin(d)'
    <3>1. CASE d = c
      BY Zenon, <1>1, <1>3, <2>1, <2>3, <3>1 DEF FirstLogin
    <3>2. CASE d # c
      <4>1. run'[d] = run[d] /\ FirstLogin(d)
        BY <2>1, <3>2 DEF CredentialInvariant
      <4>2. ~(run[d].stage \in {"running", "exited"} /\ run[d].base = 0)
        BY <4>1, <3>2 DEF FirstLogin, Restore
      <4> QED BY <4>1, <4>2 DEF FirstLogin, NoRun
    <3> QED BY <3>1, <3>2
  <2> QED BY <1>1, <2>2, <2>4 DEF CredentialInvariant
<1>4. CASE manifest # 0 /\ TokenOf(manifest) # 0 /\ run' = [run EXCEPT ![c] = r]
  <2>1. TokenOf(manifest) \in Nat /\ manifest \in Nat
    BY <1>0, <1>4, WholeToken DEF CredentialInvariant, KeyringTypeOK
  <2>2. r \in [stage : {"running"}, token : Nat, base : Nat, baseToken : Nat] /\ r.base # 0
    BY <1>4, <2>1
  <2> HIDE DEF r
  <2> QED BY Zenon, <1>3, <1>4, <2>2
<1>5. CASE manifest = 0 /\ c \in Logins /\ run' = [run EXCEPT ![c].stage = "running"]
  <2>1. run' = [run EXCEPT ![c] = first]
    BY <1>0, <1>5 DEF KeyringTypeOK
  <2>2. first \in [stage : {"running"}, token : Nat, base : Nat, baseToken : Nat]
    BY <1>0 DEF NoRun
  <2> HIDE DEF first
  <2>3. process = "login" /\ RunsInProgress = {}
    BY <1>5 DEF Restore
  <2> QED BY Zenon, <1>3, <1>5, <2>1, <2>2, <2>3
<1> QED BY <1>2, <1>4, <1>5 DEF Restore

\* A run exits, with the token it has or another one.
LEMMA ExitStep ==
    ASSUME CredentialInvariant, NEW c \in CliRuns, CliExits(c)
    PROVE  CredentialInvariant'
<1>0. KeyringTypeOK /\ run[c].stage = "running" /\ tokens \in Nat /\ tokens + 1 \in Nat
  BY DEF CredentialInvariant, CliExits, KeyringTypeOK
<1>1. UNCHANGED <<process, manifest, parts, generation, saving>>
  BY DEF CliExits
<1>2. /\ tokens' \in Nat
      /\ run' \in [CliRuns -> [stage : {"idle", "running", "exited", "ended"}, token : Nat, base : Nat, baseToken : Nat]]
      /\ run'[c].stage = "exited" /\ run'[c].base = run[c].base
      /\ \A d \in CliRuns : d # c => run'[d] = run[d]
  BY <1>0 DEF CliExits, KeyringTypeOK
<1>3. KeyringTypeOK'
  BY <1>0, <1>1, <1>2 DEF KeyringTypeOK
<1>4. RunsInProgress' = RunsInProgress
  BY Zenon, <1>0, <1>2 DEF RunsInProgress
<1>5. saving.step # "none" => saving.by # c
  BY ZenonT(30), <1>0 DEF CredentialInvariant, SaveInvariant
<1>6. SaveInvariant'
  BY ZenonT(30), <1>1, <1>2, <1>5 DEF CredentialInvariant, SaveInvariant, Whole
<1>7. ASSUME NEW d \in CliRuns
      PROVE  FirstLogin(d)'
  <2>1. FirstLogin(d) /\ FirstLogin(c)
    BY DEF CredentialInvariant
  <2> QED BY <1>0, <1>1, <1>2, <1>4, <2>1 DEF FirstLogin, NoRun
<1> QED BY <1>1, <1>3, <1>6, <1>7 DEF CredentialInvariant

\* A save begins, in a generation that has no parts.
LEMMA BeginSaveStep ==
    ASSUME CredentialInvariant, NEW c \in CliRuns, SaveBegins(c)
    PROVE  CredentialInvariant'
<1>0. KeyringTypeOK /\ saving.step = "none" /\ generation \in Nat /\ manifest \in Nat /\ manifest <= generation
  BY DEF CredentialInvariant, SaveBegins, KeyringTypeOK
<1>1. /\ UNCHANGED <<process, manifest, parts, tokens, run>>
      /\ generation' = generation + 1
      /\ saving' = [by |-> c, step |-> "parts", generation |-> generation + 1, part |-> 1, old |-> manifest]
      /\ run[c].stage = "exited" /\ run[c].token # 0 /\ SaveWanted(c)
  BY Zenon DEF SaveBegins
<1>2. KeyringTypeOK'
  BY <1>0, <1>1 DEF KeyringTypeOK, NoSave
<1>3. run[c].base = manifest
  BY Zenon, <1>0, <1>1 DEF CredentialInvariant, FirstLogin, SaveWanted
<1>4. \A p \in parts : p.generation \in 1..generation /\ p.generation # generation + 1
  BY <1>0 DEF CredentialInvariant
<1>5. SaveInvariant'
  <2>1. /\ saving'.by = c /\ saving'.step = "parts" /\ saving'.generation = generation'
        /\ saving'.part = 1 /\ saving'.old = manifest
    BY Zenon, <1>1
  <2>2. 1 \in 1..Parts /\ 1..(1 - 1) = {}
    BY KeyringAssumption
  <2>3. manifest < generation'
    <3>1. generation' = generation + 1
      BY Zenon, <1>1
    <3> QED BY <1>0, <3>1
  <2>4. \A p \in parts : p.generation # generation'
    BY Zenon, <1>1, <1>4
  <2> QED BY Zenon, <1>1, <1>3, <2>1, <2>2, <2>3, <2>4 DEF SaveInvariant
<1>6. ASSUME NEW d \in CliRuns
      PROVE  FirstLogin(d)'
  <2>1. FirstLogin(d)
    BY Zenon DEF CredentialInvariant
  <2>2. RunsInProgress' = RunsInProgress
    BY Zenon, <1>1 DEF RunsInProgress
  <2> QED BY Zenon, <1>0, <1>1, <2>1, <2>2 DEF FirstLogin, NoRun
<1>7. \A p \in parts' : p.generation \in 1..generation'
  <2>1. \A n \in 1..generation : n \in 1..(generation + 1)
    BY <1>0
  <2> QED BY Zenon, <1>1, <1>4, <2>1
<1>8. manifest' <= generation' /\ (manifest' # 0 => \E t \in Nat \ {0} : Whole(parts', manifest', t))
  BY <1>0, <1>1 DEF CredentialInvariant
<1> QED BY Zenon, <1>2, <1>5, <1>6, <1>7, <1>8 DEF CredentialInvariant

\* A part is stored, or not, or nobody knows.
LEMMA StorePartStep ==
    ASSUME CredentialInvariant, NEW c \in CliRuns, StorePart(c)
    PROVE  CredentialInvariant'
<1> DEFINE g == saving.generation
<1> DEFINE t == run[c].token
<1>0. KeyringTypeOK /\ SaveInvariant /\ saving.by = c /\ saving.step = "parts"
  BY Zenon DEF CredentialInvariant, StorePart, Saves
<1>1. /\ g = generation /\ g \in Nat /\ manifest \in Nat /\ manifest < g /\ t \in Nat
      /\ saving.part \in 1..Parts /\ Parts \in Nat
  BY <1>0, KeyringAssumption DEF SaveInvariant, KeyringTypeOK
<1>2. Part = [generation |-> g, part |-> saving.part, token |-> t] /\ UNCHANGED <<process, manifest, generation, tokens, run>>
  BY <1>0 DEF Part, StorePart
<1> HIDE DEF g, t
<1>3. parts' \in {parts, parts \cup {Part}}
  BY Zenon DEF StorePart
<1>4. /\ parts' \subseteq [generation : Nat, part : Nat, token : Nat]
      /\ \A p \in parts' : p.generation \in 1..generation
  BY <1>0, <1>1, <1>2, <1>3 DEF CredentialInvariant, KeyringTypeOK
<1>5. ASSUME manifest # 0
      PROVE  \E v \in Nat \ {0} : Whole(parts', manifest, v)
  <2>1. PICK v \in Nat \ {0} : Whole(parts, manifest, v)
    BY <1>5 DEF CredentialInvariant
  <2>2. Part.generation # manifest
    BY <1>1, <1>2
  <2>3. Whole(parts', manifest, v)
    BY ZenonT(30), <1>3, <2>1, <2>2 DEF Whole
  <2> QED BY <2>3
<1>6. \A p \in parts' : p.generation = g => p.token = t /\ p.part \in 1..Parts
  BY <1>0, <1>1, <1>2, <1>3 DEF SaveInvariant, g, t
<1>7. /\ KeyringTypeOK' /\ SaveInvariant' /\ saving'.step # "clear"
  <2>1. CASE /\ parts' = parts \cup {Part}
             /\ saving' = [saving EXCEPT !.part = @ + 1, !.step = IF saving.part = Parts THEN "manifest" ELSE "parts"]
    <3>1. /\ saving' \in [by : CliRuns \cup {"none"}, step : {"none", "parts", "manifest", "discard", "clear"},
                          generation : Nat, part : Nat, old : Nat]
          /\ saving'.by = c /\ saving'.generation = g /\ saving'.part = saving.part + 1 /\ saving'.old = manifest
          /\ saving'.step = IF saving.part = Parts THEN "manifest" ELSE "parts"
      <4> DEFINE n == saving.part + 1
      <4> DEFINE st == IF saving.part = Parts THEN "manifest" ELSE "parts"
      <4>1. n \in Nat /\ st \in {"manifest", "parts"} /\ saving' = [saving EXCEPT !.part = n, !.step = st]
        BY <1>1, <2>1
      <4>2. /\ saving.old = manifest /\ saving.generation = g
            /\ saving \in [by : CliRuns \cup {"none"}, step : {"none", "parts", "manifest", "discard", "clear"},
                           generation : Nat, part : Nat, old : Nat]
        BY <1>0 DEF KeyringTypeOK, SaveInvariant, g
      <4> HIDE DEF n, st
      <4>3. /\ saving' \in [by : CliRuns \cup {"none"}, step : {"none", "parts", "manifest", "discard", "clear"},
                            generation : Nat, part : Nat, old : Nat]
            /\ saving'.by = saving.by /\ saving'.generation = saving.generation /\ saving'.part = n
            /\ saving'.old = saving.old /\ saving'.step = st
        BY Zenon, <4>1, <4>2
      <4> QED BY <1>0, <4>2, <4>3 DEF n, st
    <3>2. KeyringTypeOK'
      <4>1. saving'.step # "none" /\ NoSave.step = "none"
        BY <3>1 DEF NoSave
      <4> QED BY Zenon, <1>0, <1>2, <1>4, <3>1, <4>1 DEF KeyringTypeOK
    <3>3. \A i \in 1..saving.part : [generation |-> g, part |-> i, token |-> t] \in parts'
      <4>1. \A i \in 1..(saving.part - 1) : [generation |-> g, part |-> i, token |-> t] \in parts
        BY Zenon, <1>0 DEF SaveInvariant, g, t
      <4>2. saving.part \in Nat
        BY <1>0 DEF KeyringTypeOK
      <4>3. \A i \in 1..saving.part : i \in 1..(saving.part - 1) \/ i = saving.part
        BY <4>2
      <4>4. parts \subseteq parts' /\ [generation |-> g, part |-> saving.part, token |-> t] \in parts'
        BY Zenon, <1>1, <1>2, <2>1
      <4> QED BY ZenonT(30), <4>1, <4>3, <4>4
    <3>4. saving.part = Parts => Whole(parts', g, t)
      BY Zenon, <1>6, <3>3 DEF Whole
    <3>5. /\ run'[c].stage = "exited" /\ run'[c].token = t /\ t # 0 /\ run'[c].base = manifest' /\ manifest' < g /\ g = generation'
      BY ZenonT(30), <1>0, <1>1, <1>2 DEF SaveInvariant, t
    <3>6. SaveInvariant'
      BY <1>1, <1>2, <1>6, <3>1, <3>3, <3>4, <3>5 DEF SaveInvariant
    <3> QED BY <3>1, <3>2, <3>6
  <2>2. CASE saving' = [saving EXCEPT !.step = "discard"]
    <3>1. /\ saving' \in [by : CliRuns \cup {"none"}, step : {"none", "parts", "manifest", "discard", "clear"},
                          generation : Nat, part : Nat, old : Nat]
          /\ saving'.by = c /\ saving'.generation = g /\ saving'.step = "discard" /\ saving'.old = saving.old
      BY Zenon, <1>0, <2>2 DEF KeyringTypeOK, g
    <3>2. KeyringTypeOK'
      <4>1. saving'.step # "none" /\ NoSave.step = "none"
        BY <3>1 DEF NoSave
      <4> QED BY Zenon, <1>0, <1>2, <1>4, <3>1, <4>1 DEF KeyringTypeOK
    <3>3. SaveInvariant'
      BY ZenonT(30), <1>0, <1>1, <1>2, <3>1 DEF SaveInvariant
    <3> QED BY <3>1, <3>2, <3>3
  <2> QED BY <2>1, <2>2 DEF StorePart
<1>8. ASSUME NEW d \in CliRuns
      PROVE  FirstLogin(d)'
  <2>1. FirstLogin(d) /\ RunsInProgress' = RunsInProgress
    BY Zenon, <1>2 DEF CredentialInvariant, RunsInProgress
  <2> QED BY ZenonT(30), <1>0, <1>2, <2>1 DEF FirstLogin, NoRun
<1>9. manifest' <= generation' /\ manifest' = manifest /\ generation' = generation
  BY Zenon, <1>2 DEF CredentialInvariant
<1> QED BY <1>4, <1>5, <1>7, <1>8, <1>9 DEF CredentialInvariant

\* The parts of a failed save or of the generation before are removed, or not.
LEMMA RemoveStep ==
    ASSUME CredentialInvariant, NEW c \in CliRuns, DiscardParts(c) \/ ClearOld(c)
    PROVE  CredentialInvariant'
<1>0. KeyringTypeOK /\ SaveInvariant /\ saving.by = c /\ saving.step \in {"discard", "clear"}
  BY Zenon DEF CredentialInvariant, DiscardParts, ClearOld, Saves
<1>1. /\ RunEnds(c) /\ saving' = NoSave /\ UNCHANGED <<process, manifest, generation, tokens>>
      /\ \E g \in Nat : g # manifest /\ parts' \in {parts, parts \ PartsOf(g)}
  BY <1>0 DEF DiscardParts, ClearOld, SaveEnds, SaveInvariant, Saves, KeyringTypeOK
<1>2. PICK g \in Nat : g # manifest /\ parts' \in {parts, parts \ PartsOf(g)}
  BY <1>1
<1>3. ASSUME manifest # 0
      PROVE  \E v \in Nat \ {0} : Whole(parts', manifest, v)
  <2>1. PICK v \in Nat \ {0} : Whole(parts, manifest, v)
    BY <1>3 DEF CredentialInvariant
  <2>2. Whole(parts', manifest, v)
    BY <1>2, <2>1 DEF Whole, PartsOf
  <2> QED BY <2>2
<1>4. parts' \subseteq parts
  BY <1>2
<1> QED BY Zenon, <1>0, <1>1, <1>3, <1>4, SaveOver DEF CredentialInvariant, KeyringTypeOK

\* The manifest names the new generation, or not, or nobody knows.
LEMMA StoreManifestStep ==
    ASSUME CredentialInvariant, NEW c \in CliRuns, StoreManifest(c)
    PROVE  CredentialInvariant'
<1>0. /\ KeyringTypeOK /\ SaveInvariant /\ saving.by = c /\ saving.step = "manifest"
      /\ UNCHANGED <<process, parts, generation, tokens>>
  BY Zenon DEF CredentialInvariant, StoreManifest, Saves
<1>1. /\ saving.generation = generation /\ generation \in Nat /\ manifest < generation /\ manifest \in Nat
      /\ run[c].stage = "exited" /\ run[c].token \in Nat \ {0} /\ Whole(parts, generation, run[c].token)
      /\ run[c].base = manifest /\ saving.old = manifest
  BY ZenonT(30), <1>0 DEF SaveInvariant, KeyringTypeOK
<1>2. ASSUME manifest' \in {manifest, generation}
      PROVE  manifest' \in Nat /\ manifest' <= generation /\ (manifest' # 0 => \E t \in Nat \ {0} : Whole(parts', manifest', t))
  BY <1>0, <1>1, <1>2 DEF CredentialInvariant
<1>3. CASE manifest' \in {manifest, saving.generation} /\ SaveEnds(c)
  BY <1>0, <1>1, <1>2, <1>3, SaveOver DEF SaveEnds
<1>4. CASE manifest' = saving.generation /\ saving' = [saving EXCEPT !.step = "clear"] /\ UNCHANGED run
  <2>1. /\ saving' \in [by : CliRuns \cup {"none"}, step : {"none", "parts", "manifest", "discard", "clear"},
                        generation : Nat, part : Nat, old : Nat]
        /\ saving'.by = c /\ saving'.generation = generation /\ saving'.step = "clear" /\ saving'.old = saving.old
    BY <1>0, <1>1, <1>4 DEF KeyringTypeOK
  <2>2. KeyringTypeOK'
    BY <1>0, <1>1, <1>4, <2>1 DEF KeyringTypeOK, NoSave
  <2>3. SaveInvariant'
    BY <1>0, <1>1, <1>4, <2>1 DEF SaveInvariant
  <2>4. ASSUME NEW d \in CliRuns
        PROVE  FirstLogin(d)'
    <3>1. FirstLogin(d) /\ RunsInProgress' = RunsInProgress
      BY <1>4 DEF CredentialInvariant, RunsInProgress
    <3>2. c \in RunsInProgress
      BY <1>1 DEF RunsInProgress
    <3> QED BY <1>0, <1>4, <2>1, <3>1, <3>2 DEF FirstLogin, NoRun
  <2> QED BY <1>0, <1>1, <1>2, <1>4, <2>2, <2>3, <2>4 DEF CredentialInvariant
<1> QED BY <1>3, <1>4 DEF StoreManifest, CommitFails

\* A process starts, or ends in the middle of anything.
LEMMA ProcessStep ==
    ASSUME CredentialInvariant, StopProcess \/ \E kind \in {"bridge", "login"} : StartProcess(kind)
    PROVE  CredentialInvariant'
<1>0. KeyringTypeOK
  BY DEF CredentialInvariant
<1>1. CASE StopProcess
  <2>1. UNCHANGED <<manifest, parts, generation, tokens>> /\ saving' = NoSave
    BY <1>1 DEF StopProcess
  <2>2. ASSUME NEW c \in CliRuns
        PROVE  /\ run'[c] \in [stage : {"idle", "running", "exited", "ended"}, token : Nat, base : Nat, baseToken : Nat]
               /\ run'[c].stage \notin {"running", "exited"}
               /\ run'[c].stage = "idle" => run'[c] = run[c]
    <3>1. run'[c] = IF c \in RunsInProgress THEN [NoRun EXCEPT !.stage = "ended"] ELSE run[c]
      BY <1>1 DEF StopProcess
    <3>2. [NoRun EXCEPT !.stage = "ended"] = [stage |-> "ended", token |-> 0, base |-> 0, baseToken |-> 0]
      BY DEF NoRun
    <3>3. run[c] \in [stage : {"idle", "running", "exited", "ended"}, token : Nat, base : Nat, baseToken : Nat]
      BY <1>0 DEF KeyringTypeOK
    <3>4. CASE c \in RunsInProgress
      BY <3>1, <3>2, <3>4
    <3>5. CASE c \notin RunsInProgress
      BY <3>1, <3>3, <3>5 DEF RunsInProgress
    <3> QED BY <3>4, <3>5
  <2>3. run' \in [CliRuns -> [stage : {"idle", "running", "exited", "ended"}, token : Nat, base : Nat, baseToken : Nat]]
    BY <1>1, <2>2 DEF StopProcess
  <2>4. /\ NoSave \in [by : CliRuns \cup {"none"}, step : {"none", "parts", "manifest", "discard", "clear"},
                       generation : Nat, part : Nat, old : Nat]
        /\ NoSave.step = "none"
    BY Zenon DEF NoSave
  <2>5. KeyringTypeOK' /\ SaveInvariant'
    BY Zenon, <1>0, <2>1, <2>3, <2>4 DEF KeyringTypeOK, SaveInvariant
  <2>6. \A c \in CliRuns : FirstLogin(c)'
    BY <2>2 DEF FirstLogin, CredentialInvariant, NoRun
  <2> QED BY <2>1, <2>5, <2>6 DEF CredentialInvariant
<1>2. ASSUME NEW kind \in {"bridge", "login"}, StartProcess(kind)
      PROVE  CredentialInvariant'
  <2>1. process = "stopped" /\ UNCHANGED <<manifest, parts, generation, tokens, run, saving>>
    BY Zenon, <1>2 DEF StartProcess, credentialVars
  <2>2. KeyringTypeOK' /\ SaveInvariant' /\ RunsInProgress' = RunsInProgress
    BY Zenon, <1>0, <2>1 DEF KeyringTypeOK, SaveInvariant, CredentialInvariant, RunsInProgress, NoSave
  <2>3. ASSUME NEW c \in CliRuns
        PROVE  FirstLogin(c)'
    <3>1. FirstLogin(c) /\ run'[c] = run[c]
      BY Zenon, <2>1 DEF CredentialInvariant
    <3> QED BY <2>1, <3>1 DEF FirstLogin, NoRun
  <2> QED BY Zenon, <2>1, <2>2, <2>3 DEF CredentialInvariant
<1> QED BY <1>1, <1>2

\* Every step keeps the credential's invariant, and the generation in use is
\* replaced only by a run that started from it.
LEMMA CredentialStep ==
    ASSUME CredentialInvariant, [KeyringNext]_keyringVars
    PROVE  CredentialInvariant' /\ (manifest' # manifest => run[saving.by].base = manifest)
<1>1. ASSUME NEW c \in CliRuns, CliStep(c)
      PROVE  CredentialInvariant' /\ (manifest' # manifest => run[saving.by].base = manifest)
  <2>1. CASE SaveNothing(c)
    <3>1. RunEnds(c) /\ saving' = NoSave /\ saving.step = "none" /\ UNCHANGED <<process, manifest, parts, generation, tokens>>
      BY Zenon, <1>1, <2>1 DEF SaveNothing, CredentialInvariant, KeyringTypeOK
    <3>2. CredentialInvariant'
      BY <3>1, SaveOver DEF CredentialInvariant, KeyringTypeOK
    <3> QED BY <3>1, <3>2
  <2>2. CASE Restore(c) \/ CliExits(c) \/ SaveBegins(c) \/ StorePart(c) \/ DiscardParts(c) \/ ClearOld(c)
    <3>1. CredentialInvariant'
      BY Zenon, <2>2, RestoreStep, ExitStep, BeginSaveStep, StorePartStep, RemoveStep
    <3>2. manifest' = manifest
      BY <2>2 DEF Restore, CliExits, SaveBegins, StorePart, DiscardParts, ClearOld
    <3> QED BY <3>1, <3>2
  <2>3. CASE StoreManifest(c)
    <3>1. run[saving.by].base = manifest
      BY <2>3 DEF CredentialInvariant, SaveInvariant, StoreManifest, Saves
    <3> QED BY <2>3, <3>1, StoreManifestStep
  <2> QED BY Zenon, <1>1, <2>1, <2>2, <2>3 DEF CliStep
<1>2. ASSUME UNCHANGED <<process, credentialVars>>
      PROVE  CredentialInvariant' /\ manifest' = manifest
  <2>1. UNCHANGED <<process, manifest, parts, generation, tokens, run, saving>>
    BY Zenon, <1>2 DEF credentialVars
  <2>2. KeyringTypeOK' /\ SaveInvariant' /\ RunsInProgress' = RunsInProgress
    BY ZenonT(30), <2>1 DEF KeyringTypeOK, SaveInvariant, CredentialInvariant, RunsInProgress, NoSave
  <2>3. \A c \in CliRuns : FirstLogin(c)'
    BY <2>1, <2>2 DEF CredentialInvariant, FirstLogin, NoRun
  <2> QED BY <2>1, <2>2, <2>3 DEF CredentialInvariant
<1>3. ASSUME NEW a \in Listed, RegisterLogin(a) \/ \E on \in BOOLEAN : SetEnabled(a, on)
      PROVE  CredentialInvariant' /\ manifest' = manifest
  BY Zenon, <1>2, <1>3 DEF RegisterLogin, SetEnabled, persist
<1>4. CASE StopProcess \/ \E kind \in {"bridge", "login"} : StartProcess(kind)
  BY <1>4, ProcessStep DEF StopProcess, StartProcess, credentialVars
<1>5. CASE UNCHANGED keyringVars
  BY <1>2, <1>5 DEF keyringVars
<1> QED BY Zenon, <1>1, <1>3, <1>4, <1>5 DEF KeyringNext

-----------------------------------------------------------------------------
(* The registry                                                            *)

AccountStates == {"absent", "enabled", "disabled"}

\* What was confirmed of an account is what the file says and what the process
\* would write again.
RegistryInvariant ==
    /\ records \in [Listed -> AccountStates] /\ file \in [Listed -> AccountStates]
    /\ told \in [Listed -> AccountStates \cup {"unknown"}]
    /\ \A a \in Listed : told[a] # "unknown" => file[a] = told[a] /\ records[a] = told[a]

\* One change of the registry, however it ends.
LEMMA PersistStep ==
    ASSUME RegistryInvariant, NEW a \in Listed, NEW value \in AccountStates, persist(a, value)
    PROVE  RegistryInvariant'
<1> DEFINE next == [records EXCEPT ![a] = value]
<1>1. next \in [Listed -> AccountStates] /\ next[a] = value /\ \A b \in Listed : b # a => next[b] = records[b]
  BY DEF RegistryInvariant
<1>2. PICK outcome \in {"done", "unwritten", "unsynced"} :
        /\ file' = Persisted(next, outcome)
        /\ records' = Remembered(next, outcome)
        /\ told' = CASE outcome = "done" -> [told EXCEPT ![a] = value]
                     [] outcome = "unsynced" -> [told EXCEPT ![a] = "unknown"]
                     [] OTHER -> told
  BY DEF persist
<1> HIDE DEF next
<1>3. CASE outcome = "done"
  BY <1>1, <1>2, <1>3 DEF RegistryInvariant, Persisted, Remembered
<1>4. CASE outcome = "unsynced"
  BY <1>1, <1>2, <1>4 DEF RegistryInvariant, Persisted, Remembered
<1>5. CASE outcome = "unwritten"
  BY <1>1, <1>2, <1>5 DEF RegistryInvariant, Persisted, Remembered
<1> QED BY <1>3, <1>4, <1>5

\* Every step keeps the registry's invariant.
LEMMA RegistryStep ==
    ASSUME RegistryInvariant, [KeyringNext]_keyringVars
    PROVE  RegistryInvariant'
<1>1. ASSUME UNCHANGED registryVars
      PROVE  RegistryInvariant'
  BY <1>1 DEF registryVars, RegistryInvariant
<1>2. ASSUME NEW c \in CliRuns, CliStep(c)
      PROVE  RegistryInvariant'
  BY <1>1, <1>2
     DEF CliStep, Restore, CliExits, SaveNothing, SaveBegins, StorePart, DiscardParts, StoreManifest, ClearOld
<1>3. ASSUME NEW a \in Listed, RegisterLogin(a) \/ \E on \in BOOLEAN : SetEnabled(a, on)
      PROVE  RegistryInvariant'
  <2>1. \E value \in AccountStates : persist(a, value)
    BY <1>3 DEF RegisterLogin, SetEnabled, RegistryInvariant, AccountStates
  <2> QED BY Zenon, <2>1, PersistStep
<1>4. ASSUME NEW kind \in {"bridge", "login"}, StartProcess(kind)
      PROVE  RegistryInvariant'
  <2>1. records' = file /\ file' = file /\ told' = [a \in Listed |-> IF told[a] = "unknown" THEN file[a] ELSE told[a]]
    BY <1>4 DEF StartProcess
  <2> QED BY Zenon, <2>1 DEF RegistryInvariant, AccountStates
<1>5. CASE StopProcess \/ UNCHANGED keyringVars
  BY <1>1, <1>5 DEF StopProcess, keyringVars
<1> QED BY <1>2, <1>3, <1>4, <1>5 DEF KeyringNext

\* The manifest always leads to a whole credential, only a run that started
\* from the generation in use replaces it, and a confirmed change of the
\* registry survives: through every failure of a command, every crash and any
\* number of overlapping runs, for credentials of any number of parts.
THEOREM SavedStaysSavedHolds == KeyringSpec => [](CommittedWhole /\ ConfirmedSurvives) /\ SavedStaysSaved
<1>1. KeyringInit => CredentialInvariant /\ RegistryInvariant
  <2> SUFFICES ASSUME KeyringInit PROVE CredentialInvariant /\ RegistryInvariant
    BY Zenon
  <2>1. KeyringTypeOK
    BY ZenonT(30) DEF KeyringInit, KeyringTypeOK, NoRun, NoSave
  <2>2. SaveInvariant /\ \A c \in CliRuns : FirstLogin(c)
    BY DEF KeyringInit, SaveInvariant, FirstLogin, NoRun, NoSave
  <2>3. CredentialInvariant
    BY <2>1, <2>2 DEF KeyringInit, CredentialInvariant
  <2>4. RegistryInvariant
    BY Zenon DEF KeyringInit, RegistryInvariant, AccountStates
  <2> QED BY <2>3, <2>4
<1>2. CredentialInvariant /\ [KeyringNext]_keyringVars =>
        CredentialInvariant' /\ [NewerCredentialKept]_keyringVars
  BY CredentialStep DEF NewerCredentialKept
<1>3. RegistryInvariant /\ [KeyringNext]_keyringVars => RegistryInvariant'
  BY RegistryStep
<1>4. CredentialInvariant => CommittedWhole
  BY WholeToken DEF CredentialInvariant, CommittedWhole
<1>5. RegistryInvariant => ConfirmedSurvives
  BY DEF RegistryInvariant, ConfirmedSurvives
<1>6. CredentialInvariant' /\ RegistryInvariant' => CommittedWhole' /\ ConfirmedSurvives'
  BY <1>4, <1>5, PTL
<1>7. CredentialInvariant /\ RegistryInvariant /\ [KeyringNext]_keyringVars =>
        [CommittedWhole' /\ ConfirmedSurvives' /\ NewerCredentialKept]_keyringVars
  BY <1>2, <1>3, <1>6
<1> QED BY <1>1, <1>2, <1>3, <1>4, <1>5, <1>7, PTL DEF KeyringSpec, SavedStaysSaved

-----------------------------------------------------------------------------
(* The accounts of a user.  What was taken from the user is not in the     *)
(* rule that every choice reads.                                           *)

RuleExcludes ==
    /\ DOMAIN scope = {"mode", "accounts"} /\ scope.mode \in {"all", "selected"}
    /\ scope.mode = "all" => withdrawn = {}
    /\ scope.mode = "selected" => withdrawn \cap scope.accounts = {}
    /\ "answer" \in DOMAIN demand

\* A withdrawn account is not eligible, and only eligible accounts of the pool
\* are picked.
LEMMA PickedIsEligible ==
    ASSUME NEW ids, NEW a \in SelectUpstreamAccount(ids)
    PROVE  a \in ids /\ Eligible(a)
<1>1. a \in {b \in ids : Eligible(b)}
  BY DEF SelectUpstreamAccount, selectUpstreamAllocation
<1> QED BY <1>1

\* An account that the rule withdrew from the user is not eligible.
LEMMA WithdrawnIsNotEligible ==
    ASSUME RuleExcludes, NEW a, Eligible(a)
    PROVE  a \notin withdrawn
BY DEF RuleExcludes, Eligible, userUpstreamAccessPredicate

\* An administrator rewrites the rule.
LEMMA RuleStep ==
    ASSUME RuleExcludes,
           \/ \E mode \in {"all", "selected"}, accounts \in SUBSET Pooled : setUserUpstreamAccess(mode, accounts)
           \/ \E action \in {"all", "enable", "disable"}, selected \in SUBSET Pooled :
                setUserUpstreamAccessBatch(action, selected)
    PROVE  RuleExcludes' /\ demand' = demand
<1>1. ASSUME NEW mode \in {"all", "selected"}, NEW accounts \in SUBSET Pooled, setUserUpstreamAccess(mode, accounts)
      PROVE  RuleExcludes' /\ demand' = demand
  <2>1. /\ scope' = [mode |-> mode, accounts |-> accounts] /\ demand' = demand
        /\ withdrawn' = IF mode = "all" THEN {} ELSE Pooled \ accounts
    BY <1>1 DEF setUserUpstreamAccess, SetUserUpstreamAccess, replaceUserUpstreamAccessTx, Edit
  <2> QED BY <2>1 DEF RuleExcludes
<1>2. ASSUME NEW action \in {"all", "enable", "disable"}, NEW selected \in SUBSET Pooled,
             setUserUpstreamAccessBatch(action, selected)
      PROVE  RuleExcludes' /\ demand' = demand
  <2>1. /\ scope' = nextUserUpstreamAccess(action, scope, selected, known) /\ demand' = demand
        /\ withdrawn' = CASE action = "all" -> {}
                          [] action = "enable" -> withdrawn \ selected
                          [] action = "disable" -> withdrawn \union selected
    BY <1>2 DEF setUserUpstreamAccessBatch, SetUserUpstreamAccessBatch, replaceUserUpstreamAccessTx, Edit
  <2>2. CASE action = "all"
    BY ZenonT(30), <2>1, <2>2 DEF RuleExcludes, nextUserUpstreamAccess
  <2>3. CASE action = "enable"
    <3>1. withdrawn' = withdrawn \ selected
      BY <2>1, <2>3
    <3>2. CASE scope.mode = "all"
      <4>1. scope' = scope
        BY <2>1, <2>3, <3>2 DEF nextUserUpstreamAccess
      <4> QED BY <2>1, <3>1, <4>1 DEF RuleExcludes
    <3>3. CASE scope.mode = "selected"
      <4>1. scope' = [scope EXCEPT !.accounts = @ \union selected]
        BY <2>1, <2>3, <3>3 DEF nextUserUpstreamAccess
      <4>2. DOMAIN scope' = {"mode", "accounts"} /\ scope'.mode = "selected" /\ scope'.accounts = scope.accounts \union selected
        BY <3>3, <4>1 DEF RuleExcludes
      <4> QED BY <2>1, <3>1, <3>3, <4>2 DEF RuleExcludes
    <3> QED BY <3>2, <3>3 DEF RuleExcludes
  <2>4. CASE action = "disable"
    <3>1. withdrawn' = withdrawn \union selected
      BY <2>1, <2>4
    <3>2. scope' = [mode |-> "selected",
                    accounts |-> (IF scope.mode = "all" THEN known ELSE scope.accounts) \ selected]
      BY <2>1, <2>4 DEF nextUserUpstreamAccess
    <3> QED BY <2>1, <3>1, <3>2 DEF RuleExcludes
  <2> QED BY <2>2, <2>3, <2>4
<1> QED BY <1>1, <1>2

\* No other administrative step touches the rule or the request.
LEMMA OtherEdits ==
    ASSUME RuleExcludes,
           \/ \E a \in Pooled : Register(a) \/ HoldChanges(a) \/ Charged(a)
           \/ \E a \in Pooled, mode \in {"shared", "exclusive"}, users \in SUBSET ({Self} \union Others) :
                setUpstreamAccountAccess(a, mode, users)
           \/ \E a \in Pooled, w \in {0, 2} : setUpstreamAccountAllocationWeight(a, w)
           \/ \E g \in GroupSet, strategy \in {"", "all", "selected"}, accounts \in SUBSET Pooled :
                setGroupUpstreamPolicy(g, strategy, accounts)
           \/ StatusChanges
           \/ \E new \in {"none", "scope", "layers"} : SidecarReplaced(new)
    PROVE  RuleExcludes' /\ demand' = demand
<1>1. UNCHANGED <<scope, withdrawn, demand>>
  BY Zenon DEF Register, HoldChanges, Charged, setUpstreamAccountAccess, SetUpstreamAccountAccess,
         setUpstreamAccountAllocationWeight, SetUpstreamAccountAllocationWeight, setGroupUpstreamPolicy,
         SetGroupUpstreamAccounts, StatusChanges, SidecarReplaced, Edit, ruleVars, accountVars
<1> QED BY ZenonT(30), <1>1 DEF RuleExcludes

\* Whatever the request does, its answer gains only what may be picked.
LEMMA DemandStep ==
    ASSUME RuleExcludes,
           \/ \E n \in 0..Len(GroupOrder), personal \in BOOLEAN :
                Admit(SubSeq(GroupOrder, n + 1, Len(GroupOrder)), personal)
           \/ prepareAccountScope \/ CapabilityUnavailable
           \/ \E pools \in {SentPools, <<>>} : upstreamAccountSelection(pools)
           \/ readPool \/ poolsExhausted \/ selectFrom \/ Retry
    PROVE  RuleExcludes' /\ (demand'.answer \ demand.answer) \cap withdrawn = {}
<1>0. UNCHANGED <<scope, withdrawn>>
  BY Zenon
     DEF Admit, prepareAccountScope, CapabilityUnavailable, upstreamAccountSelection, readPool, poolsExhausted,
         selectFrom, Retry, ruleVars
<1>1. ASSUME "answer" \in DOMAIN demand', (demand'.answer \ demand.answer) \cap withdrawn = {}
      PROVE  RuleExcludes' /\ (demand'.answer \ demand.answer) \cap withdrawn = {}
  BY <1>0, <1>1 DEF RuleExcludes
<1>2. ASSUME NEW groups, NEW personal, Admit(groups, personal) PROVE "answer" \in DOMAIN demand' /\ demand'.answer = {}
  <2> DEFINE layers == fundingLayersTx(groups, personal)
  <2> DEFINE to == IF layers = <<>> THEN "refused" ELSE "admitted"
  <2>1. demand' = [NoDemand EXCEPT !.layers = layers, !.stage = to]
    BY Zenon, <1>2 DEF Admit
  <2> HIDE DEF layers, to
  <2> QED BY <2>1 DEF NoDemand
<1>3. ASSUME prepareAccountScope \/ CapabilityUnavailable PROVE "answer" \in DOMAIN demand' /\ demand'.answer = demand.answer
  <2>1. \/ demand' = [demand EXCEPT !.stage = "failed"]
        \/ demand' = [demand EXCEPT !.stage = "dispatched", !.sent = resolveFundingLayers(demand.layers)]
    BY <1>3 DEF prepareAccountScope, CapabilityUnavailable
  <2> QED BY Zenon, <2>1 DEF RuleExcludes
<1>4. ASSUME NEW pools, upstreamAccountSelection(pools) PROVE "answer" \in DOMAIN demand' /\ demand'.answer = {}
  <2> DEFINE cut == [i \in DOMAIN pools |-> pools[i].accounts \intersect Untried]
  <2> DEFINE to == IF pools = <<>> THEN "select" ELSE "pool"
  <2> DEFINE allowed == IF pools = <<>> THEN Untried ELSE {}
  <2>1. demand' = [demand EXCEPT !.pools = cut, !.next = 1, !.answer = {}, !.edits = edits, !.stage = to,
                                 !.allowed = allowed]
    BY <1>4 DEF upstreamAccountSelection
  <2> HIDE DEF cut, to, allowed
  <2> QED BY <2>1 DEF RuleExcludes
<1>5. ASSUME readPool \/ poolsExhausted PROVE "answer" \in DOMAIN demand' /\ demand'.answer = demand.answer
  <2>1. \/ demand' = [demand EXCEPT !.next = @ + 1]
        \/ demand' = [demand EXCEPT !.stage = "exhausted"]
        \/ \E allowed : demand' = [demand EXCEPT !.allowed = allowed, !.stage = "select"]
    BY Zenon, <1>5 DEF readPool, poolsExhausted
  <2> QED BY Zenon, <2>1 DEF RuleExcludes
<1>6. ASSUME selectFrom
      PROVE  "answer" \in DOMAIN demand' /\ (demand'.answer \ demand.answer) \cap withdrawn = {}
  <2>1. CASE \E a \in SelectUpstreamAccount(demand.allowed) :
                demand' = [demand EXCEPT !.answer = {a}, !.stage = "answered"]
    <3>1. PICK a \in SelectUpstreamAccount(demand.allowed) :
                demand' = [demand EXCEPT !.answer = {a}, !.stage = "answered"]
      BY Zenon, <2>1
    <3>2. a \notin withdrawn
      BY <3>1, PickedIsEligible, WithdrawnIsNotEligible
    <3>3. "answer" \in DOMAIN demand' /\ demand'.answer = {a}
      BY <3>1 DEF RuleExcludes
    <3> QED BY <3>2, <3>3
  <2>2. CASE \/ demand' = [demand EXCEPT !.stage = "refused"]
             \/ demand' = [demand EXCEPT !.next = @ + 1, !.stage = "pool"]
    BY Zenon, <2>2 DEF RuleExcludes
  <2> QED BY Zenon, <1>6, <2>1, <2>2 DEF selectFrom
<1>7. ASSUME Retry PROVE "answer" \in DOMAIN demand' /\ demand'.answer = {}
  <2>1. demand' = [demand EXCEPT !.tried = @ \union demand.answer, !.answer = {}, !.stage = "dispatched"]
    BY <1>7 DEF Retry
  <2> QED BY <2>1 DEF RuleExcludes
<1> QED BY Zenon, <1>1, <1>2, <1>3, <1>4, <1>5, <1>6, <1>7

\* No step answers with an account that was withdrawn.
LEMMA AccessStep ==
    ASSUME RuleExcludes, [AccessNext]_accessVars
    PROVE  RuleExcludes' /\ (demand'.answer \ demand.answer) \cap withdrawn = {}
<1>1. CASE UNCHANGED accessVars
  BY <1>1 DEF RuleExcludes, accessVars
<1>2. CASE AccessNext
  BY Zenon, <1>2, RuleStep, OtherEdits, DemandStep DEF AccessNext
<1> QED BY Zenon, <1>1, <1>2

\* An account that was taken from the user is not chosen until it is given
\* back, for any accounts, users, groups and interleaving of edits with the
\* choice.
THEOREM WithdrawnNotChosenHolds == AccessSpec => [][WithdrawnNotChosen]_accessVars
<1>1. AccessInit => RuleExcludes
  <2> SUFFICES ASSUME AccessInit PROVE RuleExcludes
    BY Zenon
  <2>1. scope = [mode |-> "all", accounts |-> {}] /\ demand = NoDemand /\ withdrawn = {}
    BY Zenon DEF AccessInit
  <2>2. DOMAIN scope = {"mode", "accounts"} /\ scope.mode = "all"
    BY <2>1
  <2>3. "answer" \in DOMAIN NoDemand
    BY DEF NoDemand
  <2> QED BY Zenon, <2>1, <2>2, <2>3 DEF RuleExcludes
<1>2. RuleExcludes /\ [AccessNext]_accessVars => RuleExcludes' /\ [WithdrawnNotChosen]_accessVars
  BY AccessStep DEF WithdrawnNotChosen
<1> QED BY <1>1, <1>2, PTL DEF AccessSpec

-----------------------------------------------------------------------------
(* Identification runs.                                                    *)

Verdicts == [run : Nat, expires : Int]

Findings ==
    [run : Nat, status : {"none", "running", "failed", "succeeded"}, phase : Int, started : Int, verdict : Verdicts]

Workers ==
    [doing : {"nothing", "working", "failing", "ended"}, subject : Subjects \cup {"none"}, phase : Int, deadline : Int]

IdentTypeOK == now \in Nat /\ finding \in [Subjects -> Findings] /\ worker \in [Runs -> Workers]

\* A worker before its deadline has the running row, and started with it.
RowKept(r) ==
    worker[r].doing = "working" =>
        /\ worker[r].subject \in Subjects
        /\ now < worker[r].deadline =>
            /\ finding[worker[r].subject].run = r
            /\ finding[worker[r].subject].status = "running"
            /\ worker[r].deadline = finding[worker[r].subject].started + RunTimeout

IdentInvariant ==
    /\ IdentTypeOK
    /\ \A s, x \in Running : s = x
    /\ \A r \in Runs : RowKept(r)

-----------------------------------------------------------------------------
\* Dropping an expired verdict gives a verdict.
LEMMA UnexpiredType ==
    ASSUME NEW v \in Verdicts, NEW at
    PROVE  Unexpired(v, at) \in Verdicts
BY DEF Unexpired, NoVerdict, Verdicts, Never

\* What the recovery of interrupted runs leaves.
LEMMA RecoveredRows ==
    ASSUME IdentTypeOK, NEW at
    PROVE  /\ Recovered(at) \in [Subjects -> Findings]
           /\ \A s \in Subjects :
                \/ Recovered(at)[s] = finding[s] /\ ~Interrupted(finding[s], at)
                \/ Interrupted(finding[s], at) /\ Recovered(at)[s].status = "failed"
<1>1. ASSUME NEW s \in Subjects
      PROVE  /\ [finding[s] EXCEPT !.status = "failed", !.verdict = Unexpired(@, at)] \in Findings
             /\ [finding[s] EXCEPT !.status = "failed", !.verdict = Unexpired(@, at)].status = "failed"
             /\ finding[s] \in Findings
  <2>1. finding[s] \in Findings
    BY Zenon DEF IdentTypeOK
  <2>2. Unexpired(finding[s].verdict, at) \in Verdicts
    BY ZenonT(30), <2>1, UnexpiredType DEF Findings
  <2> QED BY ZenonT(30), <2>1, <2>2 DEF Findings
<1> QED BY Zenon, <1>1 DEF Recovered

\* A run that the recovery takes for interrupted is past its deadline.
LEMMA InterruptedIsOver ==
    ASSUME IdentInvariant, NEW r \in Runs, NEW at \in Nat, at <= now, worker[r].doing = "working",
           Interrupted(finding[worker[r].subject], at)
    PROVE  ~(now < worker[r].deadline)
<1>1. worker[r].subject \in Subjects /\ RowKept(r) /\ now \in Nat
  BY DEF IdentInvariant, IdentTypeOK, RowKept
<1>2. finding[worker[r].subject].started \in Int
  BY Zenon, <1>1 DEF IdentInvariant, IdentTypeOK, Findings
<1>3. finding[worker[r].subject].started < at - RecoveryAfter
  BY Zenon DEF Interrupted
<1> QED BY <1>1, <1>2, <1>3, IdentificationAssumption DEF RowKept

\* A deadline that is ahead later is ahead now.
LEMMA BeforeStays ==
    ASSUME NEW m \in Nat, NEW n \in Nat, m <= n, NEW d \in Int
    PROVE  n < d => m < d
OBVIOUS

\* Rows that change without a new run: no row starts to run, and a row that
\* stops running is of a worker that is over.
LEMMA RowsSettle ==
    ASSUME IdentInvariant, finding' \in [Subjects -> Findings], worker' \in [Runs -> Workers], now' \in Nat, now <= now',
           \A s \in Subjects : finding'[s].status = "running" => finding[s].status = "running",
           \A r \in Runs : worker'[r].doing = "working" =>
                /\ worker[r].doing = "working"
                /\ worker'[r].subject = worker[r].subject /\ worker'[r].deadline = worker[r].deadline
                /\ now < worker[r].deadline =>
                    /\ finding'[worker[r].subject].run = finding[worker[r].subject].run
                    /\ finding'[worker[r].subject].status = finding[worker[r].subject].status
                    /\ finding'[worker[r].subject].started = finding[worker[r].subject].started
    PROVE  IdentInvariant'
<1>1. Running' \subseteq Running
  BY ZenonT(30) DEF Running
<1>2. ASSUME NEW r \in Runs
      PROVE  RowKept(r)'
  <2> SUFFICES ASSUME worker'[r].doing = "working"
               PROVE  /\ worker'[r].subject \in Subjects
                      /\ now' < worker'[r].deadline =>
                            /\ finding'[worker'[r].subject].run = r
                            /\ finding'[worker'[r].subject].status = "running"
                            /\ worker'[r].deadline = finding'[worker'[r].subject].started + RunTimeout
    BY Zenon DEF RowKept
  <2>1. RowKept(r) /\ worker[r].doing = "working" /\ worker[r].deadline \in Int /\ now \in Nat
    BY DEF IdentInvariant, IdentTypeOK, Workers
  <2>2. now' < worker'[r].deadline => now < worker[r].deadline
    BY Zenon, <2>1, BeforeStays
  <2> QED BY Zenon, <2>1, <2>2 DEF RowKept
<1>3. \A s, x \in Running' : s = x
  BY Zenon, <1>1 DEF IdentInvariant
<1> QED BY Zenon, <1>2, <1>3 DEF IdentInvariant, IdentTypeOK

\* A run starts when no row runs once the interrupted ones are closed; no
\* worker can still be probing then.
LEMMA BeginRunStep ==
    ASSUME IdentInvariant, NEW s \in Subjects, createModelIdentificationRun(s), UNCHANGED now
    PROVE  IdentInvariant'
<1>1. PICK r \in Runs, at \in Instants :
        /\ BeginModelIdentificationRun(s, r, at)
        /\ worker' = [worker EXCEPT ![r] = [doing |-> "working", subject |-> s,
                                            phase |-> Preflight, deadline |-> at + RunTimeout]]
  BY ZenonT(30) DEF createModelIdentificationRun
<1> DEFINE rows == Recovered(at)
<1> DEFINE f == [run |-> r, status |-> "running", phase |-> Preflight, started |-> at,
                 verdict |-> KeptVerdict(rows[s].verdict, at)]
<1>0. IdentTypeOK /\ r \in Nat /\ at \in Nat /\ at <= now /\ now \in Nat
  BY IdentificationAssumption DEF IdentInvariant, IdentTypeOK, Instants, Runs
<1>2. rows \in [Subjects -> Findings]
  BY Zenon, <1>0, RecoveredRows
<1>3. ASSUME NEW x \in Subjects
      PROVE  rows[x].status # "running" /\ (finding[x].status = "running" => Interrupted(finding[x], at))
  <2>1. rows[x].status # "running"
    BY Zenon, <1>1 DEF BeginModelIdentificationRun
  <2>2. \/ rows[x] = finding[x]
        \/ Interrupted(finding[x], at)
    BY Zenon, <1>0, RecoveredRows
  <2> QED BY Zenon, <2>1, <2>2
<1>4. finding' = [rows EXCEPT ![s] = f]
  BY Zenon, <1>1, <1>2 DEF BeginModelIdentificationRun
<1> HIDE DEF rows
<1>5. f \in Findings /\ f.run = r /\ f.status = "running" /\ f.started = at
  <2>1. KeptVerdict(rows[s].verdict, at) \in Verdicts
    BY Zenon, <1>2, UnexpiredType DEF KeptVerdict, Findings
  <2> QED BY <1>0, <2>1 DEF Findings, Preflight
<1> HIDE DEF f
<1>6. finding' \in [Subjects -> Findings] /\ finding'[s] = f /\ \A x \in Subjects : x # s => finding'[x] = rows[x]
  BY Zenon, <1>2, <1>4, <1>5
<1>7. worker' \in [Runs -> Workers]
  BY <1>0, <1>1, IdentificationAssumption DEF IdentTypeOK, Workers, Preflight
<1>8. \A x, y \in Running' : x = y
  BY Zenon, <1>3, <1>6 DEF Running
<1>9. ASSUME NEW q \in Runs
      PROVE  RowKept(q)'
  <2>1. CASE q = r
    <3>1. worker'[q].subject = s /\ worker'[q].deadline = at + RunTimeout
      BY Zenon, <1>0, <1>1, <2>1 DEF IdentTypeOK
    <3> QED BY Zenon, <1>5, <1>6, <2>1, <3>1 DEF RowKept
  <2>2. CASE q # r
    <3>1. worker'[q] = worker[q]
      BY Zenon, <1>0, <1>1, <2>2 DEF IdentTypeOK
    <3>2. worker[q].doing = "working" => worker[q].subject \in Subjects /\ ~(now < worker[q].deadline)
      <4> SUFFICES ASSUME worker[q].doing = "working"
                   PROVE  worker[q].subject \in Subjects /\ ~(now < worker[q].deadline)
        BY Zenon
      <4>1. RowKept(q) /\ worker[q].subject \in Subjects
        BY Zenon DEF IdentInvariant, RowKept
      <4>2. CASE finding[worker[q].subject].status = "running"
        BY Zenon, <1>0, <1>3, <4>1, <4>2, InterruptedIsOver
      <4>3. CASE finding[worker[q].subject].status # "running"
        BY Zenon, <4>1, <4>3 DEF RowKept
      <4> QED BY Zenon, <4>1, <4>2, <4>3
    <3> QED BY Zenon, <3>1, <3>2 DEF RowKept
  <2> QED BY Zenon, <2>1, <2>2
<1> QED BY Zenon, <1>0, <1>6, <1>7, <1>8, <1>9 DEF IdentInvariant, IdentTypeOK

\* A step of a worker.
LEMMA WorkerSteps ==
    ASSUME IdentInvariant, NEW r \in Runs, WorkerStep(r), UNCHANGED now
    PROVE  IdentInvariant'
<1>0. IdentTypeOK /\ now \in Nat /\ worker[r] \in Workers
  BY Zenon DEF IdentInvariant, IdentTypeOK
<1>1. ASSUME NEW w \in Workers, worker' = [worker EXCEPT ![r] = w], UNCHANGED finding,
             w.doing = "working" => worker[r].doing = "working" /\ w.subject = worker[r].subject /\ w.deadline = worker[r].deadline
      PROVE  IdentInvariant'
  <2>1. worker' \in [Runs -> Workers] /\ worker'[r] = w /\ \A q \in Runs : q # r => worker'[q] = worker[q]
    BY <1>0, <1>1 DEF IdentTypeOK
  <2> QED BY <1>0, <1>1, <2>1, RowsSettle DEF IdentTypeOK
<1>2. ASSUME NEW d \in {"failing", "ended"}, worker' = [worker EXCEPT ![r].doing = d], UNCHANGED finding
      PROVE  IdentInvariant'
  <2> DEFINE w == [worker[r] EXCEPT !.doing = d]
  <2>1. w \in Workers /\ w.doing # "working" /\ worker' = [worker EXCEPT ![r] = w]
    BY <1>0, <1>2 DEF Workers, IdentTypeOK
  <2> HIDE DEF w
  <2> QED BY Zenon, <1>1, <1>2, <2>1
\* a row of the run changes with its worker
<1>3. ASSUME NEW s \in Subjects, NEW f \in Findings, finding' = [finding EXCEPT ![s] = f], Owns(r, s),
             NEW w \in Workers, worker' = [worker EXCEPT ![r] = w],
             \/ w.doing # "working"
             \/ /\ worker[r].doing = "working" /\ w.subject = worker[r].subject /\ w.deadline = worker[r].deadline
                /\ f.run = finding[s].run /\ f.status = finding[s].status /\ f.started = finding[s].started
      PROVE  IdentInvariant'
  <2>1. worker' \in [Runs -> Workers] /\ worker'[r] = w /\ \A q \in Runs : q # r => worker'[q] = worker[q]
    BY Zenon, <1>0, <1>3 DEF IdentTypeOK
  <2>2. finding' \in [Subjects -> Findings] /\ finding'[s] = f /\ \A x \in Subjects : x # s => finding'[x] = finding[x]
    BY Zenon, <1>0, <1>3 DEF IdentTypeOK
  <2>3. finding[s].run = r /\ finding[s].status = "running"
    BY Zenon, <1>3 DEF Owns
  <2>4. \A x \in Subjects : finding'[x].status = "running" => finding[x].status = "running"
    BY <2>2, <2>3
  <2>5. ASSUME NEW q \in Runs, worker'[q].doing = "working"
        PROVE  /\ worker[q].doing = "working"
               /\ worker'[q].subject = worker[q].subject /\ worker'[q].deadline = worker[q].deadline
               /\ now < worker[q].deadline =>
                    /\ finding'[worker[q].subject].run = finding[worker[q].subject].run
                    /\ finding'[worker[q].subject].status = finding[worker[q].subject].status
                    /\ finding'[worker[q].subject].started = finding[worker[q].subject].started
    <3>1. CASE q = r
      <4>1. RowKept(r) /\ w.doing = "working"
        BY Zenon, <2>1, <2>5, <3>1 DEF IdentInvariant
      <4> QED BY Zenon, <1>3, <2>1, <2>2, <3>1, <4>1 DEF RowKept
    <3>2. CASE q # r
      <4>1. worker'[q] = worker[q] /\ RowKept(q)
        BY Zenon, <2>1, <3>2 DEF IdentInvariant
      <4>2. now < worker[q].deadline => worker[q].subject \in Subjects /\ worker[q].subject # s
        BY Zenon, <2>3, <2>5, <3>2, <4>1 DEF RowKept
      <4> QED BY Zenon, <2>2, <2>5, <4>1, <4>2
    <3> QED BY ZenonT(30), <3>1, <3>2
  <2>6. now' \in Nat /\ now <= now'
    BY <1>0
  <2> QED BY ZenonT(30), <2>1, <2>2, <2>4, <2>5, <2>6, RowsSettle
<1>4. worker[r].doing = "working" => worker[r].subject \in Subjects
  BY DEF IdentInvariant, RowKept
<1>5. ASSUME NEW s \in Subjects
      PROVE  finding[s] \in Findings
  BY <1>0 DEF IdentTypeOK
<1>6. CASE NextPhase(r)
  <2> DEFINE s == worker[r].subject
  <2> DEFINE phase == worker[r].phase + 1
  <2>1. worker[r].doing = "working" /\ s \in Subjects /\ phase \in Int
    BY <1>0, <1>4, <1>6 DEF NextPhase, Working, Workers
  <2>2. CASE UpdateModelIdentificationRun(r, s, phase) /\ worker' = [worker EXCEPT ![r].phase = phase]
    <3> DEFINE f == [finding[s] EXCEPT !.phase = phase]
    <3> DEFINE w == [worker[r] EXCEPT !.phase = phase]
    <3>1. /\ f \in Findings /\ f.run = finding[s].run /\ f.status = finding[s].status /\ f.started = finding[s].started
          /\ finding' = [finding EXCEPT ![s] = f] /\ Owns(r, s)
      BY Zenon, <1>0, <1>5, <2>1, <2>2 DEF Findings, UpdateModelIdentificationRun, IdentTypeOK
    <3>2. w \in Workers /\ w.subject = worker[r].subject /\ w.deadline = worker[r].deadline /\ worker' = [worker EXCEPT ![r] = w]
      BY <1>0, <2>1, <2>2 DEF Workers, IdentTypeOK
    <3> HIDE DEF f, w, s, phase
    <3> QED BY ZenonT(30), <1>3, <2>1, <3>1, <3>2
  <2>3. CASE Fails(r) /\ UNCHANGED finding
    BY <1>2, <2>3 DEF Fails
  <2> QED BY Zenon, <1>6, <2>2, <2>3 DEF NextPhase
<1>7. CASE Complete(r)
  <2> DEFINE s == worker[r].subject
  <2>1. worker[r].doing = "working" /\ s \in Subjects
    BY <1>4, <1>7 DEF Complete
  <2>2. PICK at \in 0..now : CompleteModelIdentificationRun(r, s, at)
    BY Zenon, <1>7 DEF Complete
  <2> DEFINE v == [run |-> r, expires |-> at + Validity]
  <2> DEFINE f == [finding[s] EXCEPT !.status = "succeeded", !.phase = Saving, !.verdict = v]
  <2> DEFINE w == [worker[r] EXCEPT !.doing = "ended"]
  <2>3. v \in Verdicts /\ Saving \in Int
    BY <1>0, <2>2, IdentificationAssumption DEF Verdicts, Runs, Saving
  <2>4. f \in Findings /\ finding' = [finding EXCEPT ![s] = f] /\ Owns(r, s)
    BY Zenon, <1>0, <1>5, <2>1, <2>2, <2>3 DEF Findings, CompleteModelIdentificationRun, IdentTypeOK
  <2>5. w \in Workers /\ w.doing # "working" /\ worker' = [worker EXCEPT ![r] = w]
    BY <1>0, <1>7 DEF Workers, IdentTypeOK, Complete
  <2> HIDE DEF f, w, s
  <2> QED BY ZenonT(30), <1>3, <2>1, <2>4, <2>5
<1>8. CASE Stops(r) \/ Dies(r)
  BY Zenon, <1>2, <1>8 DEF Stops, Dies, Fails
<1>9. CASE FailModelIdentificationRun(r)
  <2> DEFINE s == worker[r].subject
  <2>1. CASE UNCHANGED finding
    BY Zenon, <1>2, <1>9, <2>1 DEF FailModelIdentificationRun
  <2>2. CASE /\ Owns(r, s)
             /\ finding' = [finding EXCEPT ![s].status = "failed", ![s].verdict = Unexpired(@, now)]
    <3>1. CASE s \notin Subjects
      <4>1. finding' = finding
        BY Zenon, <1>0, <2>2, <3>1 DEF IdentTypeOK
      <4> QED BY Zenon, <2>1, <4>1
    <3>2. CASE s \in Subjects
      <4> DEFINE f == [finding[s] EXCEPT !.status = "failed", !.verdict = Unexpired(@, now)]
      <4> DEFINE w == [worker[r] EXCEPT !.doing = "ended"]
      <4>1. Unexpired(finding[s].verdict, now) \in Verdicts
        BY Zenon, <1>5, <3>2, UnexpiredType DEF Findings
      <4>2. f \in Findings /\ finding' = [finding EXCEPT ![s] = f]
        BY ZenonT(30), <1>0, <1>5, <2>2, <3>2, <4>1 DEF Findings, IdentTypeOK
      <4>3. w \in Workers /\ w.doing # "working" /\ worker' = [worker EXCEPT ![r] = w]
        BY Zenon, <1>0, <1>9 DEF Workers, IdentTypeOK, FailModelIdentificationRun
      <4> HIDE DEF f, w, s
      <4> QED BY Zenon, <1>3, <2>2, <3>2, <4>2, <4>3
    <3> QED BY <3>1, <3>2
  <2> QED BY <1>9, <2>1, <2>2 DEF FailModelIdentificationRun, FailsRun
<1> QED BY Zenon, <1>6, <1>7, <1>8, <1>9 DEF WorkerStep

\* Every step keeps the invariant.
LEMMA IdentStep ==
    ASSUME IdentInvariant, [IdentNext]_<<now, identVars>>
    PROVE  IdentInvariant'
<1>0. IdentTypeOK /\ now \in Nat
  BY ZenonT(30) DEF IdentInvariant, IdentTypeOK
<1>1. CASE RecoverInterruptedRuns /\ UNCHANGED now
  <2>1. finding' = Recovered(now) /\ worker' = worker
    BY Zenon, <1>1 DEF RecoverInterruptedRuns
  <2>2. /\ finding' \in [Subjects -> Findings]
        /\ \A s \in Subjects : finding'[s] = finding[s] \/ (Interrupted(finding[s], now) /\ finding'[s].status = "failed")
    BY Zenon, <1>0, <2>1, RecoveredRows
  <2>3. ASSUME NEW r \in Runs, worker[r].doing = "working", now < worker[r].deadline
        PROVE  finding'[worker[r].subject] = finding[worker[r].subject]
    <3>1. worker[r].subject \in Subjects
      BY ZenonT(30), <2>3 DEF IdentInvariant, RowKept
    <3>2. ~Interrupted(finding[worker[r].subject], now)
      <4>1. now <= now
        BY <1>0
      <4> QED BY Zenon, <1>0, <2>3, <4>1, InterruptedIsOver
    <3> QED BY Zenon, <2>2, <3>1, <3>2
  <2> QED BY <1>0, <1>1, <2>1, <2>2, <2>3, RowsSettle DEF IdentTypeOK
<1>2. CASE PurgeExpired /\ UNCHANGED now
  <2>1. ASSUME NEW s \in Subjects
        PROVE  /\ finding'[s] \in Findings /\ finding'[s].status = finding[s].status
               /\ finding'[s].run = finding[s].run /\ finding'[s].started = finding[s].started
    <3>1. finding'[s] = [finding[s] EXCEPT !.verdict = Unexpired(@, now)]
      BY <1>2 DEF PurgeExpired
    <3>2. finding[s] \in Findings
      BY <1>0 DEF IdentTypeOK
    <3>3. Unexpired(finding[s].verdict, now) \in Verdicts
      BY Zenon, <3>2, UnexpiredType DEF Findings
    <3> QED BY <3>1, <3>2, <3>3 DEF Findings
  <2>2. finding' \in [Subjects -> Findings] /\ worker' = worker
    BY <1>2, <2>1 DEF PurgeExpired
  <2>3. \A r \in Runs : worker[r].doing = "working" => worker[r].subject \in Subjects
    BY ZenonT(30) DEF IdentInvariant, RowKept
  <2> QED BY <1>0, <1>2, <2>1, <2>2, <2>3, RowsSettle DEF IdentTypeOK
<1>3. CASE IdentTick \/ UNCHANGED <<now, identVars>>
  <2>1. finding' = finding /\ worker' = worker
    BY Zenon, <1>3 DEF IdentTick, identVars
  <2>2. now' = now \/ now' = now + 1
    BY Zenon, <1>3 DEF IdentTick
  <2>3. now' \in Nat /\ now <= now'
    BY <1>0, <2>2
  <2>4. finding \in [Subjects -> Findings] /\ worker \in [Runs -> Workers]
    BY Zenon, <1>0 DEF IdentTypeOK
  <2> QED BY Zenon, <2>1, <2>3, <2>4, RowsSettle
<1> QED BY Zenon, <1>1, <1>2, <1>3, BeginRunStep, WorkerSteps DEF IdentNext

\* Probes of two runs never overlap: a worker that may still send one has the
\* only running row, whatever gateways start, stop, die and recover.
THEOREM ProbesNeverOverlapHolds == IdentSpec => []ProbesNeverOverlap
<1>1. now = 0 /\ IdentInit => IdentInvariant
  <2> SUFFICES ASSUME now = 0, IdentInit PROVE IdentInvariant
    BY ZenonT(30)
  <2>1. NoFinding \in Findings /\ NoWorker \in Workers
    BY DEF NoFinding, NoWorker, Findings, Workers, NoVerdict, Verdicts, Never, Preflight
  <2> QED BY <2>1 DEF IdentInit, IdentInvariant, IdentTypeOK, Running, RowKept, NoFinding, NoWorker
<1>2. IdentInvariant => ProbesNeverOverlap
  <2> SUFFICES ASSUME IdentInvariant PROVE ProbesNeverOverlap
    OBVIOUS
  <2>1. \A s, t \in Running : s = t
    BY Zenon DEF IdentInvariant
  <2>2. ASSUME NEW r \in Runs, Working(r)
        PROVE  finding[worker[r].subject].run = r /\ Running = {worker[r].subject}
    <3>1. /\ worker[r].subject \in Subjects /\ finding[worker[r].subject].run = r
          /\ finding[worker[r].subject].status = "running"
      BY Zenon, <2>2 DEF IdentInvariant, RowKept, Working
    <3>2. worker[r].subject \in Running
      BY <3>1 DEF Running
    <3> QED BY Zenon, <3>1, <3>2 DEF IdentInvariant
  <2> QED BY <2>1, <2>2 DEF ProbesNeverOverlap
<1> QED BY <1>1, <1>2, IdentStep, PTL DEF IdentSpec

=============================================================================
