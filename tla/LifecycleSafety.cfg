SPECIFICATION Spec
CONSTANTS
    r1 = r1
    r2 = r2
    k1 = k1
    k2 = k2
    u1 = u1
    Requests = {r1, r2}
    Keys = {k1, k2}
    Users = {u1}
    Billed = {r1}
    KeyOf <- MCKeyOf
    UserOf <- MCUserOf
    DayOf <- MCDayOf
    KeyConcurrent = 1
    UserConcurrent = 1
    GlobalConcurrent = 2
    KeyRPM = 2
    UserRPM = 2
    KeyDaily = 2
    UserDaily = 2
    LeaseTTL = 2
    StaleAfter = 3
    CompletionAttempts = 2
    RenewalDelay = 1
    TimelyRequests = {r2}
    MaxTime = 5
    LastArrival = 1
    MaxCrashes = 1
INVARIANTS
    OneOutcome
    ConcurrencyBounded
    CountersReconcile
    LiveRequestKept
PROPERTIES
    ImplementsOutcome
CHECK_DEADLOCK FALSE
