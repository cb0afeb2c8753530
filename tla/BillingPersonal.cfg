SPECIFICATION FundedSpec
CONSTANTS
    Users = {u1}
    Ops = {o1}
    Amounts = {2}
    Rates = {1}
    RateUnit = 1
    Subs = {s1}
    Plans = {}
    Terms <- OneTerm
    PeriodCounts = {0}
    Clients = {}
    ClientUser <- SingleUser
    SubPriorities = {1}
    DayTicks = 1
    Lag = 1
    Horizon = 2
    Groups = {}
    GroupTerms <- OpenTerms
    Priorities = {}
    MaxGroupWrites = 0
    Requests = {r1, r2}
    Upstreams = {a1}
    Costs = {1, 3}
    CashPriorities = {1}
SYMMETRY Symmetry
INVARIANTS
    
    SettlementPossible
PROPERTIES
    SettlesAsAdmitted
CHECK_DEADLOCK FALSE
