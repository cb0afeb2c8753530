SPECIFICATION Spec
CONSTANTS
    Lag = 0
    Horizon = 9
    Clients = {c1, c2}
    Passkeys = {p1}
    MaxSignCount = 1
    IdleTTL = 2
    SessionMax = 2
    ReauthMaxAge = 2
    LoginProofMaxAge = 3
    MaxSessions = 2
    MaxEpoch = 2
    MaxBindings = 2
    MaxAttempts = 2
    SessionHorizon = 1
    MaxFlows = 2
    Capacity = 1
    FlowTTL = 1
    VerificationAge = 2
    MaxLogins = 1
    FlowHorizon = 1
    CeremonyKinds = {"login"}
    MaxPending = 2
    CeremonyTTL = 2
    MaxCeremonies = 3
    CeremonyHorizon = 4
    ApiKeys = {key1}
    Tabs = {t1, t2}
    Calls = {call1}
    KeyLife = 2
    HandoffTTL = 1
    HandoffCapacity = 1
    MaxCodes = 2
    KeyHorizon = 2
    Invitees = {i1, i2, i3}
    Registered = {i1}
    Codes = {code1}
    InviteTerms <- MCInviteTerms
    DeleteOps = {delete1}
    MaxApplications = 3
    Reviews = {review1, review2}
    InviteHorizon = 1
    r1 = r1
    r2 = r2
    r3 = r3
    r4 = r4
    kA = kA
    kB = kB
    uA = uA
    Requests = {r1, r2, r3, r4}
    Keys = {kA, kB}
    Callers = {uA}
    KeyOf <- MCKeyOf
    UserOf <- MCUserOf
    KeyPerWindow = 1
    UserPerWindow = 2
    KeyConcurrent = 2
    UserConcurrent = 2
    GlobalConcurrent = 2
    PerDay = 2
    LimiterHorizon = 1
CONSTRAINT Interchangeable
INVARIANTS
    WithdrawnLeavesNothing
    
    PendingCanBeDecided
    WindowLimitHolds
PROPERTIES
    CeremoniesOneTime
    HandoffsOneTime
CHECK_DEADLOCK FALSE
