SPECIFICATION FundedSpec
CONSTANTS
    Users = {u1, u2}
    Ops = {}
    Amounts = {}
    Rates = {1}
    RateUnit = 1
    Subs = {}
    Plans = {}
    Terms <- OneTerm
    PeriodCounts = {}
    Clients = {}
    ClientUser <- SingleUser
    SubPriorities = {}
    DayTicks = 1
    Lag = 0
    Horizon = 1
    Groups = {1, 2}
    GroupTerms <- LimitTerms
    Priorities = {}
    MaxGroupWrites = 1
    Requests = {r1, r2}
    Upstreams = {a1, a2}
    Costs = {5}
    CashPriorities = {}
SYMMETRY Symmetry
PROPERTIES
    GroupPaysAsOffered
CHECK_DEADLOCK FALSE
