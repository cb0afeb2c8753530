------------------------------- MODULE Groups -------------------------------
(***************************************************************************)
(* Funding groups: a group has a spending limit per period, optionally a   *)
(* limit per member, and members in a priority order of their own.  Code:  *)
(* internal/store/group.go and group_memberships.go.                       *)
(*                                                                         *)
(* Two tables hold the membership: group_memberships, and the older column *)
(* billing_accounts.group_id (the mirror), which still counts as a member  *)
(* and funds a user who has no membership row.                             *)
(*                                                                         *)
(* Every write is one transaction that claims an operation ID and locks    *)
(* member accounts before the group.  Only "remove_all" reads the members  *)
(* before it holds a lock, so it has two steps.  A repeated operation ID   *)
(* returns the stored response and changes nothing, so it is no step.      *)
(***************************************************************************)
EXTENDS Accounts, Clock

CONSTANTS
    Groups,         \* group IDs, numbers so that they have the order of UUIDs
    GroupTerms,     \* what an owner may set: [limit, member, len, count]
    Priorities,     \* priorities a member may choose
    MaxGroupWrites  \* bound on the number of group writes

NoLimit == -1       \* NULL in member_limit_usd
NoStart == -1       \* starts_at omitted
NoGroup == 0        \* NULL in billing_accounts.group_id
NoGroupRow == [term |-> 0]
NoClearing == [group |-> NoGroup]
DefaultPriority == 100

ASSUME GroupsAssumption ==
    /\ Groups \subseteq Nat \ {0}
    /\ GroupTerms \subseteq [limit : Nat, member : Nat \cup {NoLimit}, len : Nat \ {0}, count : Nat]
    /\ Priorities \subseteq 1..100
    /\ MaxGroupWrites \in Nat

VARIABLES
    group,          \* user_groups with their group_usage_periods, oldest first
    membership,     \* group_memberships: the priority, 0 without a row
    mirror,         \* billing_accounts.group_id
    clearing,       \* a "remove_all" that has read the members
    claimed         \* group_operations: how many operation IDs were used

groupVars == <<group, membership, mirror, clearing, claimed>>

Present(g) == group[g] # NoGroupRow
Cur(x) == x.periods[Len(x.periods)]
Member(g, u) == membership[g][u] > 0

\* The member_count column of groupSummaryColumns.
MemberCount(g) == Cardinality({u \in Users : Member(g, u) \/ mirror[u] = g})

-----------------------------------------------------------------------------
(* Periods.  x is a group row with its periods; the current one is last.   *)

groupPeriodStart(anchor, at, len) ==
    IF at < anchor THEN anchor ELSE anchor + ((at - anchor) \div len) * len

groupExpiration(end, len, count, number) == IF count = 0 THEN Never ELSE end + (count - number) * len

\* replaceGroupPeriodTx: close the current period, insert a new one with the
\* limits of the group.
replaceGroupPeriodTx(x, start) ==
    LET opened == [start |-> start, end |-> start + x.len, limit |-> x.limit, member |-> x.member,
                   used |-> 0, by |-> [u \in Users |-> 0], open |-> TRUE, term |-> x.term]
    IN  [x EXCEPT !.periods =
            Append([i \in DOMAIN @ |-> IF i = Len(@) THEN [@[i] EXCEPT !.open = FALSE] ELSE @[i]], opened)]

RollDue(x, at) == ~x.archived /\ at >= Cur(x).end /\ After(x.expires, at)

RolledNumber(x, at) == x.number + (groupPeriodStart(Cur(x).start, at, x.len) - Cur(x).start) \div x.len

\* "group period exceeds its configured count"
RollFails(x, at) == RollDue(x, at) /\ x.count > 0 /\ RolledNumber(x, at) > x.count

RollToInstant(x, at) ==
    IF ~RollDue(x, at) THEN x
    ELSE replaceGroupPeriodTx([x EXCEPT !.number = RolledNumber(x, at)], at)

rollGroupTx(x, at) ==
    IF ~RollDue(x, at) THEN x
    ELSE replaceGroupPeriodTx([x EXCEPT !.number = RolledNumber(x, at)],
                              groupPeriodStart(Cur(x).start, at, x.len))

-----------------------------------------------------------------------------
(* Writes.                                                                 *)

\* Every write that has an effect brings an operation ID of its own.
Claim == claimed < MaxGroupWrites /\ claimed' = claimed + 1

\* An owner creates a group or edits one.  A changed period length or anchor
\* starts over with a fresh period numbered 1; other edits change the limits
\* of the running period and roll again under the new expiry.
PutGroup(g, t, start, at) ==
    LET create == ~Present(g)
        blank == [limit |-> t.limit, member |-> t.member, len |-> t.len, anchor |-> at, count |-> 1,
                  number |-> 1, expires |-> Never, archived |-> FALSE, periods |-> <<>>, term |-> 0]
        x == IF create THEN blank ELSE rollGroupTx(group[g], at)
        reset == create \/ x.len # t.len \/ (start # NoStart /\ start # x.anchor)
        anchor == IF ~reset THEN x.anchor ELSE IF start # NoStart THEN start ELSE at
        first == groupPeriodStart(anchor, at, t.len)
        number == IF reset THEN 1 ELSE x.number
        end == IF reset THEN first + t.len ELSE Cur(x).end
        edited == [x EXCEPT !.limit = t.limit, !.member = t.member, !.len = t.len, !.anchor = anchor,
                            !.count = t.count, !.number = number,
                            !.expires = groupExpiration(end, t.len, t.count, number)]
        limited == [edited EXCEPT !.periods[Len(edited.periods)] =
                                     [@ EXCEPT !.limit = t.limit, !.member = t.member]]
    IN  /\ Claim
        /\ ~create => ~group[g].archived /\ ~RollFails(group[g], at)
        /\ t.count # 0 => t.count >= number
        /\ ~reset => ~RollFails(limited, at)
        /\ group' = [group EXCEPT ![g] =
                       IF reset THEN replaceGroupPeriodTx([edited EXCEPT !.term = @ + 1], first)
                       ELSE rollGroupTx(limited, at)]
        /\ UNCHANGED <<now, membership, mirror, clearing>>

\* What every member write does first, under the group lock.
RollForWrite(g, at) ==
    /\ Present(g) /\ ~group[g].archived /\ ~RollFails(group[g], at)
    /\ group' = [group EXCEPT ![g] = rollGroupTx(@, at)]

AddMembers(g, us, at) ==
    /\ Claim
    /\ RollForWrite(g, at)
    /\ membership' = [membership EXCEPT ![g] =
                        [u \in Users |-> IF u \in us /\ @[u] = 0 THEN DefaultPriority ELSE @[u]]]
    /\ mirror' = [u \in Users |-> IF u \in us /\ mirror[u] = NoGroup THEN g ELSE mirror[u]]
    /\ UNCHANGED <<now, clearing>>

\* The membership rows of a user by priority, then ID.
GroupBefore(u, g, h) ==
    \/ membership[g][u] < membership[h][u]
    \/ membership[g][u] = membership[h][u] /\ g < h

RemoveMembers(g, us, at) ==
    LET left(u) == {h \in Groups \ {g} : Member(h, u)} IN
    /\ Claim
    /\ RollForWrite(g, at)
    /\ membership' = [membership EXCEPT ![g] = [u \in Users |-> IF u \in us THEN 0 ELSE @[u]]]
    /\ mirror' = [u \in Users |->
                    IF u \notin us \/ mirror[u] # g THEN mirror[u]
                    ELSE IF left(u) = {} THEN NoGroup
                    ELSE CHOOSE h \in left(u) : \A k \in left(u) \ {h} : GroupBefore(u, h, k)]
    /\ UNCHANGED <<now, clearing>>

\* "remove_all", first step: groupMemberAccountIDsTx without a lock.
ListAllMembers(g, at) ==
    /\ clearing = NoClearing
    /\ Claim
    /\ Present(g)
    /\ clearing' = [group |-> g, at |-> at, listed |-> {u \in Users : Member(g, u) \/ mirror[u] = g}]
    /\ UNCHANGED <<now, group, membership, mirror>>

\* "remove_all", second step: all memberships go, whoever was listed; the
\* mirror is cleared only for users without any other membership.
RemoveAllMembers ==
    LET g == clearing.group IN
    /\ clearing # NoClearing
    /\ RollForWrite(g, clearing.at)
    /\ membership' = [membership EXCEPT ![g] = [u \in Users |-> 0]]
    /\ mirror' = [u \in Users |-> IF mirror[u] = g /\ \A h \in Groups \ {g} : ~Member(h, u)
                                  THEN NoGroup ELSE mirror[u]]
    /\ clearing' = NoClearing
    /\ UNCHANGED <<now, claimed>>

\* The group was archived in between: the transaction rolls back and the
\* operation ID is free again, which only matters to the client.
RemoveAllRefused ==
    /\ clearing # NoClearing
    /\ group[clearing.group].archived \/ RollFails(group[clearing.group], clearing.at)
    /\ clearing' = NoClearing
    /\ UNCHANGED <<now, group, membership, mirror, claimed>>

SetGroupMembershipPriority(g, u, p) ==
    /\ Claim
    /\ Present(g) /\ ~group[g].archived /\ Member(g, u)
    /\ membership' = [membership EXCEPT ![g][u] = p]
    /\ UNCHANGED <<now, group, mirror, clearing>>

ArchiveGroup(g, at) ==
    /\ Claim
    /\ Present(g) /\ ~RollFails(group[g], at)
    /\ MemberCount(g) = 0
    /\ LET x == rollGroupTx(group[g], at)
       IN  group' = [group EXCEPT ![g] = [x EXCEPT !.archived = TRUE, !.periods[Len(x.periods)].open = FALSE]]
    /\ UNCHANGED <<now, membership, mirror, clearing>>

-----------------------------------------------------------------------------
(* Reads that roll.                                                        *)

\* The groups an admission looks at: the memberships, or the mirror when there
\* are none.
FundingGroups(u) ==
    LET rows == {g \in Groups : Member(g, u)} IN
    IF rows # {} THEN rows ELSE {mirror[u]} \ {NoGroup}

\* The first half of userFundingGroupsTx: lock and roll them all.
FundingRollSucceeds(u, at) == \A g \in FundingGroups(u) : Present(g) /\ ~RollFails(group[g], at)

FundingRolled(u, at) ==
    [g \in Groups |-> IF g \in FundingGroups(u) THEN rollGroupTx(group[g], at) ELSE group[g]]

RollForMember(u, at) ==
    /\ FundingRollSucceeds(u, at)
    /\ group' = FundingRolled(u, at)
    /\ UNCHANGED <<now, membership, mirror, clearing, claimed>>

\* GetGroup and ListGroups read the clock after they hold the lock.
GetGroup(g) ==
    /\ Present(g) /\ ~RollFails(group[g], now)
    /\ group' = [group EXCEPT ![g] = rollGroupTx(@, now)]
    /\ UNCHANGED <<now, membership, mirror, clearing, claimed>>

GroupsTick == Advance /\ UNCHANGED groupVars

-----------------------------------------------------------------------------

GroupsInit ==
    /\ now = 0
    /\ group = [g \in Groups |-> NoGroupRow]
    /\ membership = [g \in Groups |-> [u \in Users |-> 0]]
    /\ mirror = [u \in Users |-> NoGroup]
    /\ clearing = NoClearing
    /\ claimed = 0

GroupWrite ==
    \E g \in Groups :
        \/ \E t \in GroupTerms, start \in {NoStart} \cup 0..Horizon, at \in Instants :
              PutGroup(g, t, start, at)
        \/ \E us \in (SUBSET Users) \ {{}}, at \in Instants :
              AddMembers(g, us, at) \/ RemoveMembers(g, us, at)
        \/ \E at \in Instants : ListAllMembers(g, at) \/ ArchiveGroup(g, at)
        \/ \E u \in Users, p \in Priorities : SetGroupMembershipPriority(g, u, p)

GroupsNext ==
    \/ GroupWrite
    \/ RemoveAllMembers
    \/ RemoveAllRefused
    \/ \E u \in Users, at \in Instants : RollForMember(u, at)
    \/ \E g \in Groups : GetGroup(g)
    \/ GroupsTick

GroupsSpec == GroupsInit /\ [][GroupsNext]_<<now, groupVars>>

-----------------------------------------------------------------------------
(* Properties.                                                             *)

\* Within one term (until an owner changes the length or the anchor), every
\* period starts on the grid of the first one and no slot of the grid is
\* opened twice, so a limit is never refilled early by an old instant, a
\* repeated roll or an edited count; and a roll at any instant, however old,
\* stays within the configured number of periods, or every request of every
\* member would fail.
RollsStayOnGrid ==
    \A g \in Groups : Present(g) =>
        /\ \A i, j \in DOMAIN group[g].periods :
              LET p == group[g].periods[i]
                  q == group[g].periods[j]
              IN  i < j /\ p.term = q.term =>
                      p.end <= q.start /\ (q.start - p.start) % (p.end - p.start) = 0
        /\ \A at \in 0..Horizon : ~RollFails(group[g], at)

\* "remove_all" leaves the group without members.
RemoveAllEmpties ==
    [][\A g \in Groups : RemoveAllMembers /\ clearing.group = g => MemberCount(g)' = 0]_<<now, groupVars>>

\* "remove_all" is refused when somebody joined after it read the members.
RemoveAllSeesJoins ==
    [][RemoveAllMembers => {u \in Users : Member(clearing.group, u)} \subseteq clearing.listed]_<<now, groupVars>>

=============================================================================
