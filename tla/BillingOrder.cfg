SPECIFICATION FundedSpec
CONSTANTS
    Users = {u1}
    Ops = {o1}
    Amounts = {}
    Rates = {1}
    RateUnit = 1
    Subs = {s1, s2}
    Plans = {}
    Terms <- MixedTerms
    PeriodCounts = {0}
    Clients = {}
    ClientUser <- SingleUser
    SubPriorities = {1}
    DayTicks = 1
    Lag = 0
    Horizon = 0
    Groups = {}
    GroupTerms <- OpenTerms
    Priorities = {}
    MaxGroupWrites = 0
    Requests = {r1, r2}
    Upstreams = {a1}
    Costs = {1, 3}
    CashPriorities = {1}
SYMMETRY Symmetry
INVARIANTS
    DayWeekMonthCash
CHECK_DEADLOCK FALSE
