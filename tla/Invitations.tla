---------------------------- MODULE Invitations ----------------------------
(***************************************************************************)
(* Invitations to register an account or to join a group, the applications *)
(* they collect, the Owner's review of them, and the deletion of accounts  *)
(* without history.  One group stands for all of them, and an Owner who is *)
(* none of the invitees creates, revokes, reviews and deletes.             *)
(*                                                                         *)
(* One action is one committed transaction.  Two operations read before    *)
(* they lock and so have two steps: a registration checks the invitation   *)
(* when its ceremony begins, and a review reads the applicants of the      *)
(* applications it names.  IDs are never used again: application i is      *)
(* the i-th row ever inserted.                                             *)
(***************************************************************************)
EXTENDS Clock, FiniteSets, Sequences

CONSTANTS
    Invitees,           \* accounts, registered or not
    Registered,         \* the members there are at first
    Codes,              \* invitations
    InviteTerms,        \* [kind, max, approval, life] an Owner may choose
    Reviews,            \* review requests that may be under way at once
    DeleteOps,          \* operation IDs of user deletions
    MaxApplications,    \* bound on the applications ever made
    InviteHorizon       \* bound on the clock

NoCode == "no_code"
Nobody == "nobody"      \* NULL in invitation_applications.user_id
NoInvitation == [kind |-> "none"]
NoReview == [code |-> NoCode]

ASSUME InvitationsAssumption ==
    /\ InviteTerms \subseteq [kind : {"member", "group", "owner_bootstrap"}, max : Nat \ {0},
                              approval : BOOLEAN, life : Nat \ {0}]
    /\ \A t \in InviteTerms : t.kind = "owner_bootstrap" => t.max = 1 /\ ~t.approval
    /\ MaxApplications \in Nat
    /\ Registered \subseteq Invitees
    /\ NoCode \notin Codes /\ Nobody \notin Invitees

VARIABLES
    person,         \* users: status, and the role of an active user
    mirrored,       \* billing_accounts.group_id: "none", "here" or "elsewhere"
    business,       \* users with money, usage or management history
    invitation,     \* invitations
    application,    \* invitation_applications, with the rows deleted since
    joined,         \* group_memberships of the group
    closed,         \* user_groups.archived_at is set
    registering,    \* the code a registration under way was started with
    review,         \* the reviews that have read their applicants
    deletion        \* information_user_deletions

inviteVars == <<person, mirrored, business, invitation, application, joined, closed,
                registering, review, deletion>>

InvitationsInit ==
    /\ person = [u \in Invitees |-> IF u \in Registered THEN "member" ELSE "none"]
    /\ mirrored = [u \in Invitees |-> "none"]
    /\ business = {}
    /\ invitation = [c \in Codes |-> NoInvitation]
    /\ application = <<>>
    /\ joined = {}
    /\ closed = FALSE
    /\ registering = [u \in Invitees |-> NoCode]
    /\ review = [r \in Reviews |-> NoReview]
    /\ deletion = [o \in DeleteOps |-> {}]

Exists(u) == person[u] \notin {"none", "deleted"}
ActiveUser(u) == person[u] \in {"member", "owner"}
Stored(a) == a.status # "deleted"
Applications(c) == {i \in DOMAIN application : application[i].code = c /\ Stored(application[i])}
ApplicationsOf(u) == {i \in DOMAIN application : application[i].user = u /\ Stored(application[i])}

-----------------------------------------------------------------------------
(* Invitations.                                                            *)

CreateInvitation(c, t, at) ==
    /\ invitation[c] = NoInvitation
    /\ t.kind = "group" => ~closed
    /\ invitation' = [invitation EXCEPT ![c] =
                        [kind |-> t.kind, max |-> t.max, approval |-> t.approval,
                         expires |-> at + t.life, revoked |-> FALSE, used |-> FALSE]]
    /\ UNCHANGED <<person, mirrored, business, application, joined, closed, registering, review, deletion>>

RevokeInvitation(c) ==
    /\ invitation[c] # NoInvitation /\ ~invitation[c].used /\ ~invitation[c].revoked
    /\ invitation' = [invitation EXCEPT ![c].revoked = TRUE]
    /\ UNCHANGED <<person, mirrored, business, application, joined, closed, registering, review, deletion>>

\* invitationCapacityTx, under the lock of the invitation.
invitationCapacityTx(c, at) ==
    LET i == invitation[c] IN
    /\ i # NoInvitation /\ ~i.used /\ ~i.revoked /\ i.expires > at
    /\ Cardinality(Applications(c)) < i.max

\* GetAvailableInvitation: the same question, asked without a lock.
GetAvailableInvitation(c, at) ==
    /\ invitationCapacityTx(c, at)
    /\ invitation[c].kind = "group" => ~closed

\* insertInvitationApplicationTx: approved at once unless a review is required.
insertInvitationApplicationTx(c, u) ==
    /\ Len(application) < MaxApplications
    /\ application' = Append(application,
          [code |-> c, user |-> u, status |-> IF invitation[c].approval THEN "pending" ELSE "approved"])

-----------------------------------------------------------------------------
(* Registration.                                                           *)

\* BeginInvitationRegistration, and RegisterPassword up to its transaction.
BeginInvitationRegistration(u, c, at) ==
    /\ person[u] = "none" /\ registering[u] = NoCode
    /\ GetAvailableInvitation(c, at)
    /\ invitation[c].kind \in {"member", "owner_bootstrap"}
    /\ registering' = [registering EXCEPT ![u] = c]
    /\ UNCHANGED <<person, mirrored, business, invitation, application, joined, closed, review, deletion>>

RegisteredAs(c) ==
    IF invitation[c].approval THEN "pending"
    ELSE IF invitation[c].kind = "owner_bootstrap" THEN "owner" ELSE "member"

\* recordRegistrationApplicationTx: a member invitation gets an application,
\* the setup invitation is used up.
recordRegistrationApplicationTx(c, u) ==
    IF invitation[c].kind = "member"
    THEN insertInvitationApplicationTx(c, u) /\ UNCHANGED invitation
    ELSE invitation' = [invitation EXCEPT ![c].used = TRUE] /\ UNCHANGED application

CompleteInvitationRegistration(u, at) ==
    LET c == registering[u] IN
    /\ c # NoCode
    /\ invitationCapacityTx(c, at)
    /\ person' = [person EXCEPT ![u] = RegisteredAs(c)]
    /\ recordRegistrationApplicationTx(c, u)
    /\ registering' = [registering EXCEPT ![u] = NoCode]
    /\ UNCHANGED <<mirrored, business, joined, closed, review, deletion>>

\* The ceremony fails, expires, or finds the invitation no longer available.
RegistrationFails(u) ==
    /\ registering[u] # NoCode
    /\ registering' = [registering EXCEPT ![u] = NoCode]
    /\ UNCHANGED <<person, mirrored, business, invitation, application, joined, closed, review, deletion>>

-----------------------------------------------------------------------------
(* Joining a group.                                                        *)

\* The two statements that make a user a member of the group.
Enroll(us) ==
    /\ joined' = joined \cup us
    /\ mirrored' = [u \in Invitees |-> IF u \in us /\ mirrored[u] = "none" THEN "here" ELSE mirrored[u]]

\* JoinInvitation reads the clock under its locks.  A repeated application and
\* a current member get an answer that changes nothing, so they are no steps.
JoinInvitation(u, c) ==
    /\ ActiveUser(u)
    /\ invitationCapacityTx(c, now) /\ invitation[c].kind = "group"
    /\ \A i \in Applications(c) : application[i].user # u
    /\ u \notin joined
    /\ ~closed
    /\ insertInvitationApplicationTx(c, u)
    /\ IF invitation[c].approval THEN UNCHANGED <<joined, mirrored>> ELSE Enroll({u})
    /\ UNCHANGED <<person, business, invitation, closed, registering, review, deletion>>

-----------------------------------------------------------------------------
(* Review.                                                                 *)

\* The Owner names applications they have seen; the transaction reads the
\* applicants before it holds any lock.
ReadReviewIdentities(r, c, ids, decision) ==
    /\ review[r] = NoReview
    /\ ids # {} /\ ids \subseteq Applications(c)
    /\ review' = [review EXCEPT ![r] =
                    [code |-> c, ids |-> ids, decision |-> decision,
                     users |-> {application[i].user : i \in ids} \ {Nobody}]]
    /\ UNCHANGED <<person, mirrored, business, invitation, application, joined, closed, registering, deletion>>

\* The applications the review finds once it holds its locks.
Reviewed(x) == {i \in x.ids : Stored(application[i])}
Undecided(ids) == {i \in ids : application[i].status = "pending"}
Applicants(ids) == {application[i].user : i \in Undecided(ids)}

Decided(ids, status) ==
    application' = [i \in DOMAIN application |->
                      IF i \in ids THEN [application[i] EXCEPT !.status = status] ELSE application[i]]

ApproveApplications(x, ids) ==
    LET us == Applicants(ids) IN
    /\ ids = x.ids
    /\ us \subseteq {u \in x.users : Exists(u)}
    /\ IF invitation[x.code].kind = "group"
       THEN /\ us # {} => ~closed
            /\ \A u \in us : ActiveUser(u)
            /\ Enroll(us)
            /\ UNCHANGED person
       ELSE /\ \A u \in us : person[u] = "pending"
            /\ person' = [u \in Invitees |-> IF u \in us THEN "member" ELSE person[u]]
            /\ UNCHANGED <<joined, mirrored>>
    /\ Decided(ids, "approved")

\* Rejection deletes the application, which frees its slot, and with it the
\* account a member invitation had created (deletePendingInvitationUserTx).
RejectKeepingAccount(x, ids) ==
    /\ Undecided(ids) = ids
    /\ Applicants(ids) \subseteq {u \in x.users : Exists(u)}
    /\ UNCHANGED <<person, joined, mirrored>>
    /\ Decided(ids, "deleted")

RejectApplications(x, ids) ==
    /\ Undecided(ids) = ids
    /\ Applicants(ids) \subseteq {u \in x.users : Exists(u)}
    /\ IF invitation[x.code].kind = "member"
       THEN /\ \A u \in Applicants(ids) : person[u] = "pending" /\ mirrored[u] = "none" /\ u \notin joined
            /\ person' = [u \in Invitees |-> IF u \in Applicants(ids) THEN "deleted" ELSE person[u]]
       ELSE UNCHANGED person
    /\ UNCHANGED <<joined, mirrored>>
    /\ Decided(ids, "deleted")

Review(x, ids) == IF x.decision = "approve" THEN ApproveApplications(x, ids) ELSE RejectApplications(x, ids)

ReviewInvitationApplications(r) ==
    /\ review[r] # NoReview
    /\ Review(review[r], Reviewed(review[r]))
    /\ review' = [review EXCEPT ![r] = NoReview]
    /\ UNCHANGED <<business, invitation, closed, registering, deletion>>

\* One application of the batch does not allow the decision, or the client
\* gives up: nothing changes.
ReviewFails(r) ==
    /\ review[r] # NoReview
    /\ review' = [review EXCEPT ![r] = NoReview]
    /\ UNCHANGED <<person, mirrored, business, invitation, application, joined, closed, registering, deletion>>

-----------------------------------------------------------------------------
(* Deletion of accounts without history.                                   *)

informationUserBlockers(u) == person[u] # "member" \/ u \in business

\* One transaction for the whole selection.  Pending applications release
\* their slots, approved ones keep theirs without an owner.  A repeated
\* operation ID with the same selection changes nothing.
DeleteInformationUsers(o, us) ==
    /\ deletion[o] = {} /\ us # {}
    /\ \A u \in us : ~informationUserBlockers(u)
    /\ deletion' = [deletion EXCEPT ![o] = us]
    /\ person' = [u \in Invitees |-> IF u \in us THEN "deleted" ELSE person[u]]
    /\ mirrored' = [u \in Invitees |-> IF u \in us THEN "none" ELSE mirrored[u]]
    /\ joined' = joined \ us
    /\ application' = [i \in DOMAIN application |->
                         IF application[i].user \notin us THEN application[i]
                         ELSE IF application[i].status = "pending"
                              THEN [application[i] EXCEPT !.status = "deleted"]
                              ELSE [application[i] EXCEPT !.user = Nobody]]
    /\ UNCHANGED <<business, invitation, closed, registering, review>>

-----------------------------------------------------------------------------
(* What the rest of the gateway does to the same rows.                     *)

\* A request, a payment or an edit gives an account a history.
GainHistory(u) ==
    /\ ActiveUser(u) /\ u \notin business
    /\ business' = business \cup {u}
    /\ UNCHANGED <<person, mirrored, invitation, application, joined, closed, registering, review, deletion>>

\* The Owner removes a member (removeGroupMembersTx).
RemoveMember(u) ==
    /\ u \in joined
    /\ joined' = joined \ {u}
    /\ mirrored' = [mirrored EXCEPT ![u] = IF @ = "here" THEN "none" ELSE @]
    /\ UNCHANGED <<person, business, invitation, application, closed, registering, review, deletion>>

\* The Owner adds an account to another group.
JoinElsewhere(u) ==
    /\ ActiveUser(u) /\ mirrored[u] = "none"
    /\ mirrored' = [mirrored EXCEPT ![u] = "elsewhere"]
    /\ UNCHANGED <<person, business, invitation, application, joined, closed, registering, review, deletion>>

ArchiveGroupOfInvitations ==
    /\ ~closed
    /\ joined = {} /\ \A u \in Invitees : mirrored[u] # "here"
    /\ closed' = TRUE
    /\ UNCHANGED <<person, mirrored, business, invitation, application, joined, registering, review, deletion>>

InvitationsTick == now < InviteHorizon /\ Advance /\ UNCHANGED inviteVars

InvitationsStep ==
    \/ \E c \in Codes :
          \/ \E t \in InviteTerms, at \in Instants : CreateInvitation(c, t, at)
          \/ RevokeInvitation(c)
          \/ \E u \in Invitees : JoinInvitation(u, c)
          \/ \E u \in Invitees, at \in Instants : BeginInvitationRegistration(u, c, at)
          \/ \E r \in Reviews, ids \in SUBSET Applications(c), d \in {"approve", "reject"} :
                ReadReviewIdentities(r, c, ids, d)
    \/ \E u \in Invitees :
          \/ \E at \in Instants : CompleteInvitationRegistration(u, at)
          \/ RegistrationFails(u) \/ GainHistory(u) \/ RemoveMember(u) \/ JoinElsewhere(u)
    \/ \E o \in DeleteOps, us \in SUBSET Invitees : DeleteInformationUsers(o, us)
    \/ \E r \in Reviews : ReviewInvitationApplications(r) \/ ReviewFails(r)
    \/ ArchiveGroupOfInvitations

InvitationsNext == (InvitationsStep /\ UNCHANGED now) \/ InvitationsTick

InvitationsSpec == now = 0 /\ InvitationsInit /\ [][InvitationsNext]_<<now, inviteVars>>

-----------------------------------------------------------------------------
(* Properties.                                                             *)

\* Every account waiting for approval has the one application whose review
\* decides about it, and every application waiting for a review has an
\* applicant the review can accept: nobody is stuck between the two tables.
PendingCanBeDecided ==
    /\ \A u \in Invitees : person[u] = "pending" =>
          \E i \in ApplicationsOf(u) : /\ application[i].status = "pending"
                                       /\ invitation[application[i].code].kind = "member"
                                       /\ ApplicationsOf(u) = {i}
    /\ \A i \in DOMAIN application : application[i].status = "pending" =>
          LET u == application[i].user IN
          /\ u # Nobody
          /\ IF invitation[application[i].code].kind = "group" THEN ActiveUser(u) ELSE person[u] = "pending"

=============================================================================
