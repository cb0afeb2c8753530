SPECIFICATION Spec
CONSTANTS
    Users = {u1}
    Ops = {o1, o2}
    Amounts = {1}
    Rates = {1}
    RateUnit = 1
    Subs = {s1, s2}
    Plans = {p1}
    Terms <- OneTerm
    PeriodCounts = {0, 2}
    Clients = {c1}
    ClientUser <- SingleUser
    SubPriorities = {1}
    DayTicks = 1
    Lag = 1
    Horizon = 3
    CleanRequests = {"q1"}
    CleanOps = {"g", "d"}
    Recharges = {}
    Grant = "g"
    Disabling = {"d"}
    BatchLimit = 1
    DetailLife = 1
    MaxPeriods = 2
    Confirmations = {"j1"}
    RetentionDays = {1}
    CleanHorizon = 3
    Subjects = {"s1", "s2"}
    MaxRuns = 2
    Probes = 1
    RunTimeout = 1
    RecoveryAfter = 3
    Validity = 4
    LastRun = 2
    RunHorizon = 6
    MaxLength = 2
    MaxEvents = 4
    MaxBeats = 1
INVARIANTS
    ProbesNeverOverlap
    CompletedExactly
PROPERTIES
    ExpiredGetsDisabled
    JobCompletes
    SlotFreed
    EveryStreamEnds
CHECK_DEADLOCK FALSE
