SPECIFICATION Spec
CONSTANTS
    Lag = 0
    Horizon = 9
    AccModels = {"m1", "m2"}
    AccUsers = {"u1"}
    Catalogs = {{"m1"}, {"m1", "m2"}}
    Connections = {"t1", "t2"}
    MaxTransactions = 3
    PriceGateways = {"g1", "g2"}
    Structures = {"s1", "s2"}
    OverridePrices = {1}
    Multipliers = {2}
    PriceEdits = {"e1", "e2"}
    MultiplierEdits = {"x1"}
    Admissions = {"r1"}
    MaxDeployments = 1
    o1 = o1
    o2 = o2
    o3 = o3
    o4 = o4
    Users = {u1}
    Ops = {o1, o2, o3, o4}
    Amounts = {1, 2}
    Rates = {1, 3}
    RateUnit = 2
    d1 = d1
    d2 = d2
    Counted = {d1, d2}
    MonthLength = 2
    DetailDays = 4
    RunnerDelay = 1
    MaxCutoffs = 1
    LastAdmission = 1
    SummaryHorizon = 5
    CleanRequests = {"q1"}
    CleanOps = {"r1", "g", "d"}
    Recharges = {"r1"}
    Grant = "g"
    Disabling = {"d"}
    BatchLimit = 1
    DetailLife = 1
    MaxPeriods = 2
    Confirmations = {"j1"}
    RetentionDays = {1}
    CleanHorizon = 3
    v1 = v1
    v2 = v2
    Servers = {v1, v2}
    GuardAccounts = {a1}
    Slots = 1
    MinInterval = 1
    MaxInterval = 3
    RestoreDelay = 1
    UnknownResetHold = 2
    SamePeriod = 0
    MarginIntervals <- MCMarginIntervals
    Percents = {50}
    Reports <- MCReports
    GuardHorizon = 2
    MaxEvents = 2
INVARIANTS
    NoLockCycle
    OperationsIdempotent
    GuardMatchesSettings
PROPERTIES
    DefaultsFillGaps
    SnapshotInForce
    
    OnlyFinishedGoes
CHECK_DEADLOCK FALSE
