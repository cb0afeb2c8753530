------------------------------ MODULE Keyring ------------------------------
(***************************************************************************)
(* What the Antigravity bridge keeps (antigravity/credentials.go,          *)
(* accounts_registry.go, runner.go, auth.go, cmd/antigravity-bridge).      *)
(* One account's credential is split into parts of a generation, and a     *)
(* manifest names the generation in use.  Every run of the CLI starts from *)
(* a copy in a directory of its own, may refresh the token there, and      *)
(* saves it when it exits.  Runs overlap; saves and restores do not.  The  *)
(* login command runs while the bridge is stopped.  The registry file lists*)
(* the accounts and which of them are enabled.  Every command may fail,    *)
(* also after it took effect, and the process may die between any two.     *)
(***************************************************************************)
EXTENDS Naturals

CONSTANTS
    CliRuns,            \* runs of the CLI
    Logins,             \* the runs that are interactive logins
    Parts,              \* parts of a credential
    MaxGenerations,     \* bound on saves that store parts
    MaxTokens,          \* bound on refreshes
    Listed,             \* accounts of the registry
    MaxPersists         \* bound on changes of the registry

ASSUME KeyringAssumption == Parts \in Nat \ {0}

VARIABLES
    process,            \* "stopped", "bridge" or "login"
    manifest,           \* the generation in use, 0 for none
    parts,              \* the stored parts
    generation, tokens, \* counters for fresh names
    run,                \* runs of the CLI
    saving,             \* the save that holds KeyringCredentials.mu
    records,             \* AccountRegistry.records: the accounts, and whether enabled
    file,               \* the registry's file
    told,               \* what was confirmed of an account (history)
    persists

credentialVars == <<manifest, parts, generation, tokens, run, saving>>
registryVars == <<records, file, told, persists>>
keyringVars == <<process, credentialVars, registryVars>>

NoRun == [stage |-> "idle", token |-> 0, base |-> 0, baseToken |-> 0]
NoSave == [by |-> "none", step |-> "none", generation |-> 0, part |-> 1, old |-> 0]
PartsOf(g) == {p \in parts : p.generation = g}

\* The token a manifest leads to, 0 when a part is missing or two differ
\* (the length of the parts and the digest of the whole).
TokenOf(g) ==
    LET values == {p.token : p \in PartsOf(g)}
    IN  IF {p.part : p \in PartsOf(g)} = 1..Parts /\ \E t \in values : values = {t}
        THEN CHOOSE t \in values : TRUE
        ELSE 0

KeyringInit ==
    /\ process = "stopped" /\ manifest = 0 /\ parts = {} /\ generation = 0 /\ tokens = 0
    /\ run = [c \in CliRuns |-> NoRun] /\ saving = NoSave
    /\ records = [a \in Listed |-> "absent"] /\ file = records /\ told = records /\ persists = 0

-----------------------------------------------------------------------------
(* A run of the CLI *)

RunsInProgress == {c \in CliRuns : run[c].stage \notin {"idle", "ended"}}
RunEnds(c) == run' = [run EXCEPT ![c] = [NoRun EXCEPT !.stage = "ended"]]

\* Restore: the manifest's parts, checked, and the baseline beside them.  A
\* first login starts without a credential; any other failure ends the run.
\* One login runs at a time (the login script's lock).
Restore(c) ==
    /\ saving = NoSave /\ run[c].stage = "idle"
    /\ IF c \in Logins THEN process = "login" /\ RunsInProgress = {} ELSE process = "bridge"
    /\ \/ /\ manifest # 0 /\ TokenOf(manifest) # 0
          /\ run' = [run EXCEPT ![c] = [stage |-> "running", token |-> TokenOf(manifest),
                                        base |-> manifest, baseToken |-> TokenOf(manifest)]]
       \/ /\ manifest = 0 /\ c \in Logins
          /\ run' = [run EXCEPT ![c].stage = "running"]
       \/ RunEnds(c)
    /\ UNCHANGED <<process, manifest, parts, generation, tokens, saving, registryVars>>

\* The CLI exits, with a token it refreshed, obtained or left alone.
CliExits(c) ==
    /\ run[c].stage = "running"
    /\ \/ /\ tokens < MaxTokens /\ tokens' = tokens + 1
          /\ run' = [run EXCEPT ![c].stage = "exited", ![c].token = tokens + 1]
       \/ /\ run' = [run EXCEPT ![c].stage = "exited"] /\ UNCHANGED tokens
    /\ UNCHANGED <<process, manifest, parts, generation, saving, registryVars>>

\* A first credential, or a change to the generation the run started from.
SaveWanted(c) ==
    \/ run[c].base = 0
    \/ /\ manifest # 0
       /\ run[c].baseToken # run[c].token /\ run[c].base = manifest

\* Save: nothing to save (validateCredential fails, unchanged, superseded).
SaveNothing(c) ==
    /\ saving = NoSave /\ run[c].stage = "exited"
    /\ run[c].token = 0 \/ ~SaveWanted(c)
    /\ RunEnds(c)
    /\ UNCHANGED <<process, manifest, parts, generation, tokens, saving, registryVars>>

\* mutant: the manifest is written before the parts it names
SaveManifestFirst(c) ==
    /\ saving = NoSave /\ run[c].stage = "exited"
    /\ run[c].token # 0 /\ SaveWanted(c)
    /\ generation < MaxGenerations /\ generation' = generation + 1
    /\ saving' = [by |-> c, step |-> "manifest", generation |-> generation + 1, part |-> 1, old |-> manifest]
    /\ UNCHANGED <<process, manifest, parts, tokens, run, registryVars>>

SaveBegins(c) ==
    /\ saving = NoSave /\ run[c].stage = "exited"
    /\ run[c].token # 0 /\ SaveWanted(c)
    /\ generation < MaxGenerations /\ generation' = generation + 1
    /\ saving' = [by |-> c, step |-> "parts", generation |-> generation + 1, part |-> 1, old |-> manifest]
    /\ UNCHANGED <<process, manifest, parts, tokens, run, registryVars>>

Saves(c, step) == saving.by = c /\ saving.step = step
SaveEnds(c) == saving' = NoSave /\ RunEnds(c)
Part == [generation |-> saving.generation, part |-> saving.part, token |-> run[saving.by].token]

\* A store command: done, failed, or failed after it took effect.
StorePart(c) ==
    /\ Saves(c, "parts")
    /\ \/ /\ parts' = parts \cup {Part}
          /\ saving' = [saving EXCEPT !.part = @ + 1, !.step = IF saving.part = Parts THEN "manifest" ELSE "parts"]
       \/ /\ parts' \in {parts, parts \cup {Part}}
          /\ saving' = [saving EXCEPT !.step = "discard"]
    /\ UNCHANGED <<process, manifest, generation, tokens, run, registryVars>>

\* The deferred clearGeneration of a save that did not try to commit.
DiscardParts(c) ==
    /\ Saves(c, "discard")
    /\ parts' \in {parts, parts \ PartsOf(saving.generation)}
    /\ SaveEnds(c)
    /\ UNCHANGED <<process, manifest, generation, tokens, registryVars>>

\* commitAttempted is set before the command: its failure keeps the parts.
CommitFails(c) == SaveEnds(c)

StoreManifest(c) ==
    /\ Saves(c, "manifest")
    /\ \/ /\ manifest' = saving.generation
          /\ saving' = [saving EXCEPT !.step = "clear"] /\ UNCHANGED run
       \/ /\ manifest' \in {manifest, saving.generation}
          /\ CommitFails(c)
    /\ UNCHANGED <<process, parts, generation, tokens, registryVars>>

ClearOld(c) ==
    /\ Saves(c, "clear")
    /\ parts' \in {parts, parts \ PartsOf(saving.old)}
    /\ SaveEnds(c)
    /\ UNCHANGED <<process, manifest, generation, tokens, registryVars>>

CliStep(c) ==
    \/ Restore(c) \/ CliExits(c) \/ SaveNothing(c) \/ SaveBegins(c)
    \/ StorePart(c) \/ DiscardParts(c) \/ StoreManifest(c) \/ ClearOld(c)

-----------------------------------------------------------------------------
(* The registry *)

\* persist: the whole list, to a new file that is renamed over the old one; a
\* failure after the rename leaves the new file in place.
Persisted(next, outcome) == IF outcome = "unwritten" THEN file ELSE next

\* r.records is assigned last.
Remembered(next, outcome) == IF outcome = "done" THEN next ELSE records

persist(a, value) ==
    /\ persists < MaxPersists /\ persists' = persists + 1
    /\ \E outcome \in {"done", "unwritten", "unsynced"} :
        LET next == [records EXCEPT ![a] = value]
        IN  /\ file' = Persisted(next, outcome)
            /\ records' = Remembered(next, outcome)
            /\ told' = CASE outcome = "done" -> [told EXCEPT ![a] = value]
                         [] outcome = "unsynced" -> [told EXCEPT ![a] = "unknown"]
                         [] OTHER -> told
    /\ UNCHANGED <<process, credentialVars>>

\* AccountRegistry.SetEnabled, by the bridge
SetEnabled(a, enabled) ==
    /\ process = "bridge" /\ records[a] # "absent"
    /\ persist(a, IF enabled THEN "enabled" ELSE "disabled")

\* RegisterLogin, once a login has saved its credential.
RegisterLogin(a) ==
    /\ process = "login" /\ manifest # 0 /\ saving = NoSave
    /\ \E c \in Logins : run[c].stage = "ended"
    /\ persist(a, IF records[a] = "absent" THEN "enabled" ELSE records[a])

-----------------------------------------------------------------------------

\* OpenAccountRegistry: the process reads the file.
StartProcess(kind) ==
    /\ process = "stopped"
    /\ process' = kind /\ records' = file
    /\ told' = [a \in Listed |-> IF told[a] = "unknown" THEN file[a] ELSE told[a]]
    /\ UNCHANGED <<credentialVars, file, persists>>

\* The process ends: by itself, or killed in the middle of anything.
StopProcess ==
    /\ process # "stopped"
    /\ process' = "stopped" /\ saving' = NoSave
    /\ run' = [c \in CliRuns |-> IF c \in RunsInProgress THEN [NoRun EXCEPT !.stage = "ended"] ELSE run[c]]
    /\ UNCHANGED <<manifest, parts, generation, tokens, registryVars>>

KeyringNext ==
    \/ \E c \in CliRuns : CliStep(c)
    \/ \E a \in Listed, enabled \in BOOLEAN : SetEnabled(a, enabled)
    \/ \E a \in Listed : RegisterLogin(a)
    \/ \E kind \in {"bridge", "login"} : StartProcess(kind)
    \/ StopProcess

KeyringSpec == KeyringInit /\ [][KeyringNext]_keyringVars

-----------------------------------------------------------------------------
(* Properties *)

\* "A refresh based on an obsolete generation must never replace a newer
\* credential committed by another in-flight request": the generation in use
\* is replaced only by a run that started from it.
NewerCredentialKept ==
    manifest' # manifest => run[saving.by].base = manifest

\* "An incomplete refresh never replaces the prior credential": the manifest
\* leads to a whole credential after every command, every failure and every
\* crash.
CommittedWhole == manifest # 0 => TokenOf(manifest) # 0

\* A change of the registry that was confirmed survives a restart, and a later
\* change of another account, or one that failed, does not undo it.
ConfirmedSurvives == \A a \in Listed : told[a] # "unknown" => file[a] = told[a]

\* What was saved stays saved until something newer replaces it: NewerCredentialKept
\* and CommittedWhole for the credential, ConfirmedSurvives for the registry.
SavedStaysSaved ==
    [][CommittedWhole' /\ ConfirmedSurvives' /\ NewerCredentialKept]_keyringVars

=============================================================================
