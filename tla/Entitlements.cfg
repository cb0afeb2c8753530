SPECIFICATION Spec
CONSTANTS
    o1 = o1
    o2 = o2
    o3 = o3
    Users = {u1}
    Ops = {o1, o2, o3}
    Amounts = {}
    Rates = {1}
    RateUnit = 1
    Subs = {s1}
    Plans = {p1}
    Terms <- TwoTerms
    PeriodCounts = {0, 2}
    Clients = {c1}
    ClientUser <- SingleUser
    SubPriorities = {1}
    DayTicks = 1
    Groups = {1, 2}
    GroupTerms <- HistoryTerms
    Priorities = {1}
    MaxGroupWrites = 3
    Lag = 1
    Horizon = 3
CONSTRAINT Interchangeable
INVARIANTS
    EntitlementNotExceeded
    RollFindsSegment
    RollsStayOnGrid
PROPERTIES
    PaidAsQuoted
CHECK_DEADLOCK FALSE
