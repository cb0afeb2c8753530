------------------------------ MODULE Sessions ------------------------------
(***************************************************************************)
(* How one active user signs in: password, Passkeys, recovery codes, the   *)
(* Owner's recovery invitation and a linked external identity, the browser *)
(* sessions these make, and the recent proof of identity that sensitive    *)
(* operations ask of a session.                                            *)
(*                                                                         *)
(* A request that reads a credential, checks it outside the database and   *)
(* then writes is an attempt of a client: what it read is kept in attempt, *)
(* and one transaction completes it.  The attempt may also be abandoned at *)
(* any point (a wrong answer, a lost connection, a crash).                 *)
(*                                                                         *)
(* A password hash is [epoch, enc]: a new password starts an epoch, and a  *)
(* login that rehashes the same password changes only enc.                 *)
(***************************************************************************)
EXTENDS Clock, FiniteSets, FiniteSetsExt, Sequences

CONSTANTS
    Clients,            \* requests that may be under way at once
    Passkeys,           \* authenticators
    MaxSignCount,       \* bound on signature counters
    IdleTTL, SessionMax, ReauthMaxAge,  \* configured durations; the store's own limit
                        \* on a proof is taken to be the same ReauthMaxAge
    LoginProofMaxAge,   \* how old the proof of an external login may be
    MaxSessions,        \* bound on sessions ever made
    MaxEpoch,           \* bound on passwords and recoveries
    MaxBindings,        \* bound on links ever made
    MaxAttempts,        \* bound on attempts
    SessionHorizon      \* bound on the clock

ASSUME SessionsAssumption ==
    /\ {IdleTTL, SessionMax, ReauthMaxAge, LoginProofMaxAge} \subseteq Nat \ {0}
    /\ IdleTTL <= SessionMax

VARIABLES
    password,       \* password_credentials.encoded_hash, NoHash without a row
    epoch,          \* how often the password was replaced or the account recovered
    keeper,         \* the session that made the latest epoch
    counter,        \* webauthn_credentials.sign_count, -1 without a row
    unused,         \* the recovery codes that can still be used
    ticket,         \* the recovery invitation the Owner made for the user
    binding,        \* the linked external identity, 0 for none
    bindings,       \* how many were ever linked
    session,        \* sessions, in the order they were made
    attempt,        \* what the clients under way have read
    attempts        \* how many there were

sessionVars == <<password, epoch, keeper, counter, unused, ticket, binding, bindings, session, attempt, attempts>>
accountVars == <<password, epoch, keeper, counter, unused, ticket, binding, bindings>>

NoHash == [epoch |-> -1, enc |-> 0]
Idle == [op |-> "idle"]
PasswordKey == "password"
Ticket == -1            \* stands for the invitation where a code is named

\* A user registered with a password, a Passkey or an external identity; the
\* first batch of recovery codes is number 0, and an external registration
\* has none.
SessionsInit ==
    /\ \/ /\ password = [epoch |-> 0, enc |-> 0] /\ counter = [k \in Passkeys |-> -1]
          /\ unused = {0} /\ bindings = 0
       \/ /\ password = NoHash /\ \E r \in Passkeys : counter = [k \in Passkeys |-> IF k = r THEN 0 ELSE -1]
          /\ unused = {0} /\ bindings = 0
       \/ /\ password = NoHash /\ counter = [k \in Passkeys |-> -1]
          /\ unused = {} /\ bindings = 1
    /\ binding = bindings
    /\ epoch = 0 /\ keeper = 0
    /\ ticket = "open"
    /\ session = <<>>
    /\ attempt = [c \in Clients |-> Idle]
    /\ attempts = 0

-----------------------------------------------------------------------------
(* Sessions.                                                               *)

Live(s, at) == ~s.revoked /\ s.idle > at /\ s.absolute > at

\* requireRecentVerification
Recent(s, at) == s.verified # Never /\ s.verified <= at /\ at - s.verified < ReauthMaxAge

\* newSessionParams and insertSessionWithSource.
insertSession(proof, source, verified, by, at) ==
    [proof |-> proof, source |-> source, idle |-> at + IdleTTL, absolute |-> at + SessionMax,
     verified |-> verified, by |-> by, revoked |-> FALSE]

Revoked(ss, ids) == [i \in DOMAIN ss |-> IF i \in ids THEN [ss[i] EXCEPT !.revoked = TRUE] ELSE ss[i]]

RoomForSession == Len(session) < MaxSessions

RevokeSession(i) ==
    /\ ~session[i].revoked
    /\ session' = Revoked(session, {i})
    /\ UNCHANGED <<accountVars, attempt, attempts>>

Touched(s, at) == [s EXCEPT !.idle = Min({s.absolute, at + IdleTTL})]

\* requireSession extends a session that is still live at the instant it read.
TouchSession(i, at) ==
    /\ Live(session[i], at)
    /\ session' = [session EXCEPT ![i] = Touched(@, at)]
    /\ UNCHANGED <<accountVars, attempt, attempts>>

\* The write of MarkSessionVerified and VerifyPasswordSession.
Verifiable(s, at) == Live(s, at) /\ (s.verified = Never \/ s.verified < at)

\* Cancellation of an abandoned external verification.
ClearSessionVerificationIfCurrent(i, verified) ==
    /\ verified # Never /\ session[i].verified = verified
    /\ session' = [session EXCEPT ![i].verified = Never, ![i].by = 0]
    /\ UNCHANGED <<accountVars, attempt, attempts>>

-----------------------------------------------------------------------------
(* Attempts.                                                               *)

Start(c, a) ==
    /\ attempt[c] = Idle /\ attempts < MaxAttempts
    /\ attempt' = [attempt EXCEPT ![c] = a]
    /\ attempts' = attempts + 1
    /\ UNCHANGED <<accountVars, session>>

Finish(c) == attempt' = [attempt EXCEPT ![c] = Idle] /\ UNCHANGED attempts

Abandon(c) ==
    /\ attempt[c] # Idle
    /\ Finish(c)
    /\ UNCHANGED <<accountVars, session>>

\* PasswordLogin and ReauthenticatePassword read the hash and check it.
ReadPassword(c) == password # NoHash /\ Start(c, [op |-> "password", hash |-> password])

ComparePasswordHashEpochs(current, expected) == TRUE

ComparePasswordHash(current, expected) == current = expected

CompletePasswordLogin(c, rehash, at) ==
    /\ attempt[c].op = "password" /\ RoomForSession
    /\ password # NoHash /\ ComparePasswordHash(password, attempt[c].hash)
    /\ password' = IF rehash THEN [password EXCEPT !.enc = @ + 1] ELSE password
    /\ session' = Append(session,
          insertSession([kind |-> "password", epoch |-> epoch, hash |-> attempt[c].hash.epoch], 0, Never, 0, at))
    /\ Finish(c)
    /\ UNCHANGED <<epoch, keeper, counter, unused, ticket, binding, bindings>>

VerifyPasswordSession(c, i, at) ==
    /\ attempt[c].op = "password"
    /\ password # NoHash /\ ComparePasswordHash(password, attempt[c].hash)
    /\ Verifiable(session[i], at)
    /\ session' = [session EXCEPT ![i].verified = at, ![i].by = 0]
    /\ Finish(c)
    /\ UNCHANGED accountVars

\* ValidatePasskeyLogin and ValidateLogin load the credential and accept an
\* assertion whose counter has moved on, or that never counts.
AssertPasskey(c, k, n) ==
    /\ counter[k] # -1
    /\ n > counter[k] \/ (n = 0 /\ counter[k] = 0)
    /\ Start(c, [op |-> "assertion", key |-> k, count |-> n])

\* The compare-and-set of UpdateWebAuthnCounter.
UpdateWebAuthnCounter(k, n) == counter[k] # -1 /\ ((counter[k] = 0 /\ n = 0) \/ counter[k] < n)

\* persistCredentialUse; the session or the verification follows in a
\* transaction of its own.
PersistCredentialUse(c) ==
    LET a == attempt[c] IN
    /\ a.op = "assertion" /\ UpdateWebAuthnCounter(a.key, a.count)
    /\ counter' = [counter EXCEPT ![a.key] = a.count]
    /\ attempt' = [attempt EXCEPT ![c] = [op |-> "proved", key |-> a.key, count |-> a.count]]
    /\ UNCHANGED <<password, epoch, keeper, unused, ticket, binding, bindings, session, attempts>>

FinishLogin(c, at) ==
    LET a == attempt[c] IN
    /\ a.op = "proved" /\ RoomForSession
    /\ session' = Append(session,
          insertSession([kind |-> "passkey", epoch |-> epoch, key |-> a.key, count |-> a.count], 0, Never, 0, at))
    /\ Finish(c)
    /\ UNCHANGED accountVars

FinishReauthentication(c, i, at) ==
    /\ attempt[c].op = "proved"
    /\ Verifiable(session[i], at)
    /\ session' = [session EXCEPT ![i].verified = at, ![i].by = 0]
    /\ Finish(c)
    /\ UNCHANGED accountVars

\* FinishAddCredential, behind requireRecentVerification.
FinishAddCredential(i, k, n, at) ==
    /\ Live(session[i], at) /\ Recent(session[i], at)
    /\ counter[k] = -1
    /\ counter' = [counter EXCEPT ![k] = n]
    /\ UNCHANGED <<password, epoch, keeper, unused, ticket, binding, bindings, session, attempt, attempts>>

\* putPassword, behind requireRecentVerification: the other sessions end.
SetPassword(i, at) ==
    /\ Live(session[i], at) /\ Recent(session[i], at) /\ epoch < MaxEpoch
    /\ epoch' = epoch + 1 /\ keeper' = i
    /\ password' = [epoch |-> epoch + 1, enc |-> 0]
    /\ session' = Revoked(session, DOMAIN session \ {i})
    /\ UNCHANGED <<counter, unused, ticket, binding, bindings, attempt, attempts>>

-----------------------------------------------------------------------------
(* Recovery.                                                               *)

\* BeginRecovery and RecoverWithPassword: the code exists and is unused.
BeginRecovery(c, code) == code \in unused /\ Start(c, [op |-> "recovery", code |-> code])

\* The Owner withdraws the recovery invitation.
RevokeRecovery ==
    /\ ticket = "open"
    /\ ticket' = "revoked"
    /\ UNCHANGED <<password, epoch, keeper, counter, unused, binding, bindings, session, attempt, attempts>>

BeginInvitedRecovery(c) == ticket = "open" /\ Start(c, [op |-> "recovery", code |-> Ticket])

\* The recheck of CompleteAccountRecovery under the lock of the code or of
\* the invitation.
RecoveryAuthorized(code) == IF code = Ticket THEN ticket = "open" ELSE code \in unused

\* The chosen credential is written, every session ends, the codes are
\* replaced by new ones, and a verified session begins.
CompleteAccountRecovery(c, key, at) ==
    LET code == attempt[c].code IN
    /\ attempt[c].op = "recovery" /\ RoomForSession /\ epoch < MaxEpoch
    /\ RecoveryAuthorized(code)
    /\ epoch' = epoch + 1 /\ keeper' = Len(session) + 1
    /\ IF key = PasswordKey
       THEN password' = [epoch |-> epoch + 1, enc |-> 0] /\ UNCHANGED counter
       ELSE counter[key] = -1 /\ counter' = [counter EXCEPT ![key] = 0] /\ UNCHANGED password
    /\ unused' = {epoch + 1}
    /\ ticket' = IF code = Ticket THEN "used" ELSE ticket
    /\ session' = Append(Revoked(session, DOMAIN session),
          insertSession([kind |-> "recovery", epoch |-> epoch + 1, code |-> code], 0, at, 0, at))
    /\ Finish(c)
    /\ UNCHANGED <<binding, bindings>>

-----------------------------------------------------------------------------
(* The external identity.                                                  *)

\* lockExternalIdentitySession: live and verified when the lock is held.
LinkExternalIdentity(i) ==
    /\ binding = 0 /\ bindings < MaxBindings
    /\ Live(session[i], now) /\ Recent(session[i], now)
    /\ binding' = bindings + 1 /\ bindings' = bindings + 1
    /\ UNCHANGED <<password, epoch, keeper, counter, unused, ticket, session, attempt, attempts>>

\* The provider has proved the identity at t; CompleteExternalLogin reads the
\* binding as a hint, before it waits for the user's row.
ProveExternally(c) == binding # 0 /\ Start(c, [op |-> "external", binding |-> binding, at |-> now])

BindingHeld(b) == binding = b

CompleteExternalLogin(c) ==
    LET a == attempt[c] IN
    /\ a.op = "external" /\ RoomForSession
    /\ BindingHeld(a.binding) /\ now - a.at < LoginProofMaxAge
    /\ session' = Append(session,
          insertSession([kind |-> "external", epoch |-> epoch], a.binding, a.at, a.binding, now))
    /\ Finish(c)
    /\ UNCHANGED accountVars

NewerProof(s, proved) == s.verified = Never \/ proved > s.verified

CompleteExternalReauthentication(c, i) ==
    LET a == attempt[c] IN
    /\ a.op = "external" /\ BindingHeld(a.binding)
    /\ Live(session[i], now) /\ now - a.at < ReauthMaxAge
    /\ NewerProof(session[i], a.at)
    /\ session' = [session EXCEPT ![i].verified = a.at, ![i].by = a.binding]
    /\ Finish(c)
    /\ UNCHANGED accountVars

HasLocalLogin == password # NoHash \/ \E k \in Passkeys : counter[k] # -1

\* The sessions made through the binding end, and no session of the user
\* keeps a recent proof.
UnlinkExternalIdentity(i) ==
    /\ binding # 0 /\ Live(session[i], now) /\ Recent(session[i], now)
    /\ HasLocalLogin
    /\ session' = LET ss == Revoked(session, {j \in DOMAIN session : session[j].source = binding})
                  IN  [j \in DOMAIN ss |-> IF ss[j].revoked THEN ss[j]
                                           ELSE [ss[j] EXCEPT !.verified = Never, !.by = 0]]
    /\ binding' = 0
    /\ UNCHANGED <<password, epoch, keeper, counter, unused, ticket, bindings, attempt, attempts>>

-----------------------------------------------------------------------------

SessionsTick == now < SessionHorizon /\ Advance /\ UNCHANGED sessionVars

ClientStep(c) ==
    \/ ReadPassword(c)
    \/ \E at \in Instants :
          \/ \E rehash \in BOOLEAN : (rehash => password.enc = 0) /\ CompletePasswordLogin(c, rehash, at)
          \/ \E i \in DOMAIN session : VerifyPasswordSession(c, i, at) \/ FinishReauthentication(c, i, at)
          \/ FinishLogin(c, at)
          \/ \E key \in Passkeys \cup {PasswordKey} : CompleteAccountRecovery(c, key, at)
    \/ \E k \in Passkeys, n \in 0..MaxSignCount : AssertPasskey(c, k, n)
    \/ PersistCredentialUse(c)
    \/ \E code \in 0..MaxEpoch : BeginRecovery(c, code)
    \/ BeginInvitedRecovery(c)
    \/ ProveExternally(c) \/ CompleteExternalLogin(c)
    \/ \E i \in DOMAIN session : CompleteExternalReauthentication(c, i)
    \/ Abandon(c)

SessionStep(i) ==
    \/ RevokeSession(i)
    \/ \E at \in Instants :
          \/ TouchSession(i, at) \/ SetPassword(i, at)
          \/ \E k \in Passkeys, n \in 0..MaxSignCount : FinishAddCredential(i, k, n, at)
    \/ \E t \in 0..now : ClearSessionVerificationIfCurrent(i, t)
    \/ LinkExternalIdentity(i) \/ UnlinkExternalIdentity(i)

SessionsNext ==
    \/ /\ \/ \E c \in Clients : ClientStep(c)
          \/ \E i \in DOMAIN session : SessionStep(i)
          \/ RevokeRecovery
       /\ UNCHANGED now
    \/ SessionsTick

SessionsSpec == now = 0 /\ SessionsInit /\ [][SessionsNext]_<<now, sessionVars>>

-----------------------------------------------------------------------------
(* Properties.                                                             *)

\* After a password change or a recovery, the only sessions are the one that
\* made the change and later ones, and those that came in with a password
\* came in with the one now stored: a login that read the old hash, and is
\* still being checked, cannot slip in.
OnlyCurrentCredentials ==
    \A i \in DOMAIN session : ~session[i].revoked /\ i # keeper =>
        /\ session[i].proof.epoch = epoch
        /\ session[i].proof.kind = "password" => session[i].proof.hash = password.epoch

\* After an unlink, no session that the external identity made is alive, no
\* proof it gave still counts, and a login or a verification that was under
\* way cannot continue, not even after the same identity is linked again.
NothingLeftOfUnlinked ==
    \A i \in DOMAIN session : ~session[i].revoked =>
        session[i].source \in {0, binding} /\ session[i].by \in {0, binding}

\* Withdrawing a credential withdraws what was obtained with it and what is
\* being obtained with it: OnlyCurrentCredentials and NothingLeftOfUnlinked.
WithdrawnLeavesNothing == OnlyCurrentCredentials /\ NothingLeftOfUnlinked

=============================================================================
