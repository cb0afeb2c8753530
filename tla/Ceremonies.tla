----------------------------- MODULE Ceremonies -----------------------------
(***************************************************************************)
(* The pending WebAuthn ceremonies of the identity service.  Beginning a   *)
(* ceremony puts its challenge in memory under a fresh identifier, and     *)
(* finishing one takes it out again, both under a mutex.  A recovery       *)
(* ceremony is put first and given its recovery code in a second critical  *)
(* section, before its identifier is answered to the client.               *)
(***************************************************************************)
EXTENDS Clock, FiniteSets

CONSTANTS
    CeremonyKinds,      \* kinds of ceremony other than recovery
    MaxPending,         \* maxPendingCeremonies
    CeremonyTTL,        \* how long a ceremony stays valid
    MaxCeremonies,      \* bound on the ceremonies ever begun
    CeremonyHorizon     \* bound on the clock

ASSUME CeremonyAssumption ==
    /\ CeremonyKinds \cap {"none", "zero"} = {}
    /\ CeremonyTTL \in Nat /\ MaxCeremonies \in Nat

VARIABLES
    ceremony,       \* challengeStore.entries by identifier, NoCeremony without one
    begun,          \* how many were begun
    attaching,      \* recovery ceremonies between the two critical sections
    known,          \* identifiers a client has been told
    finished        \* for every identifier the entry that take returned, NoCeremony without one

ceremonyVars == <<ceremony, begun, attaching, known, finished>>

NoCeremony == [kind |-> "none", expires |-> Never, code |-> FALSE]
\* What the second critical section writes when the entry has gone: the zero
\* value of the map, with the recovery code.
ZeroCeremony == [kind |-> "zero", expires |-> 0, code |-> TRUE]
Flows == 1..MaxCeremonies
PendingCeremonies == {f \in Flows : ceremony[f] # NoCeremony}

CeremoniesInit ==
    /\ ceremony = [f \in Flows |-> NoCeremony]
    /\ begun = 0
    /\ attaching = {}
    /\ known = {}
    /\ finished = [f \in Flows |-> NoCeremony]

Outdated(at) == {f \in Flows : ceremony[f] # NoCeremony /\ ceremony[f].expires <= at}

RoomForCeremony(at) == Cardinality(PendingCeremonies \ Outdated(at)) < MaxPending

\* challengeStore.put drops the expired entries even when it then refuses.
putCeremony(kind, at) ==
    LET kept == [f \in Flows |-> IF f \in Outdated(at) THEN NoCeremony ELSE ceremony[f]]
    IN  IF RoomForCeremony(at)
        THEN /\ begun < MaxCeremonies /\ begun' = begun + 1
             /\ ceremony' = [kept EXCEPT ![begun + 1] = [kind |-> kind, expires |-> at + CeremonyTTL, code |-> FALSE]]
        ELSE ceremony' = kept /\ UNCHANGED begun

\* BeginLogin, beginUserLogin, BeginInvitationRegistration, beginExistingRegistration.
BeginCeremony(kind, at) ==
    /\ putCeremony(kind, at)
    /\ known' = IF begun' > begun THEN known \union {begun'} ELSE known
    /\ UNCHANGED <<attaching, finished>>

\* beginExistingRecoveryRegistration, first half: the client knows nothing yet.
BeginRecoveryCeremony(at) ==
    /\ putCeremony("recovery", at)
    /\ attaching' = IF begun' > begun THEN attaching \union {begun'} ELSE attaching
    /\ UNCHANGED <<known, finished>>

AttachRevived(f) == IF ceremony[f] = NoCeremony THEN [kind |-> "recovery", expires |-> now + CeremonyTTL, code |-> TRUE]
                    ELSE [ceremony[f] EXCEPT !.code = TRUE]

Attached(f) == IF ceremony[f] = NoCeremony THEN ZeroCeremony ELSE [ceremony[f] EXCEPT !.code = TRUE]

\* Its second half.
AttachRecovery(f) ==
    /\ f \in attaching
    /\ ceremony' = [ceremony EXCEPT ![f] = Attached(f)]
    /\ attaching' = attaching \ {f}
    /\ known' = known \union {f}
    /\ UNCHANGED <<begun, finished>>

Knows(f) == f \in known

\* take: the entry is deleted whatever it turns out to be.
takeCeremony(f, kind, at) ==
    /\ Knows(f)
    /\ ceremony' = [ceremony EXCEPT ![f] = NoCeremony]
    /\ finished' = IF ceremony[f].expires > at /\ ceremony[f].kind = kind
                   THEN [finished EXCEPT ![f] = ceremony[f]] ELSE finished
    /\ UNCHANGED <<begun, attaching, known>>

\* A restart empties the store; requests that were attaching end with it.
RestartCeremonies ==
    /\ PendingCeremonies # {}
    /\ ceremony' = [f \in Flows |-> NoCeremony]
    /\ attaching' = {}
    /\ UNCHANGED <<begun, known, finished>>

CeremoniesTick == now < CeremonyHorizon /\ now' = now + 1 /\ UNCHANGED ceremonyVars

CeremoniesNext ==
    \/ CeremoniesTick
    \/ /\ UNCHANGED now
       /\ \/ \E at \in Instants : \/ \E k \in CeremonyKinds : BeginCeremony(k, at)
                                  \/ BeginRecoveryCeremony(at)
                                  \/ \E f \in Flows, k \in CeremonyKinds \union {"recovery"} : takeCeremony(f, k, at)
          \/ \E f \in Flows : AttachRecovery(f)
          \/ RestartCeremonies

CeremoniesSpec == now = 0 /\ CeremoniesInit /\ [][CeremoniesNext]_<<now, ceremonyVars>>

-----------------------------------------------------------------------------
(* Properties.                                                             *)

\* The identifiers as one-time tokens; the zero entry of a late attachment is
\* not a token.
CeremonyToken ==
    [f \in Flows |-> IF f > begun THEN "unused"
                     ELSE IF ceremony[f] \in {NoCeremony, ZeroCeremony} THEN "gone" ELSE "live"]
CeremonyDeadline == [f \in Flows |-> IF ceremony[f] = ZeroCeremony THEN Never ELSE ceremony[f].expires]
CeremonyRedeemed == [f \in Flows |-> IF finished[f] = NoCeremony THEN 0 ELSE 1]

CeremonyTokens == INSTANCE OneTime WITH
    Tokens <- Flows, Life <- CeremonyTTL, Slack <- Lag, clock <- now,
    token <- CeremonyToken, deadline <- CeremonyDeadline, redeemed <- CeremonyRedeemed

\* A ceremony is finished at most once and in time, and one that expired before
\* its recovery code was attached never comes back to life
\* (challengeStore.put and take, beginExistingRecoveryRegistration).
CeremoniesOneTime == CeremonyTokens!OneTimeSpec

=============================================================================
