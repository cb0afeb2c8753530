SPECIFICATION Spec
CONSTANTS
    Lag = 0
    Horizon = 9
    UpAccounts = {a1}
    Gateways = {g1, g2}
    MaxChanges = 2
    MaxLists = 3
    UpHorizon = 1
    Pooled = {"a1", "a2"}
    Self = "me"
    Others = {"other"}
    GroupOrder <- MCGroupOrder
    MaxTries = 1
    MaxAccessEdits = 2
    Candidates = {1, 2, 3}
    MaxWeight = 2
    MaxCost = 3
    EgNodes = {"n1"}
    Registrations = {"r1"}
    EgCalls = {e1, e2}
    MaxVersion = 5
    NodeKeys = {"n1r1", "n1r2"}
    MaxSnapshot = 3
    Ports <- MCPorts
    Tunnels = {"t1", "t2"}
    ProbeSlots = 1
    a1 = a1
    a2 = a2
    b1 = b1
    b2 = b2
    b3 = b3
    e1 = e1
    e2 = e2
    talk = talk
    NoTalk = NoTalk
    NoAccount = NoAccount
    BrAccounts = {a1, a2}
    BrCalls = {b1, b2, b3}
    TalkOf <- MCTalkOf
    DirectOf <- MCDirectOf
    LayersOf <- MCLayersOf
    MaxLimit = 1
    ProcessSlots = 2
    Cooldown = 1
    BridgeHorizon = 1
    MaxToggles = 0
    CliRuns = {"l1", "l2", "r1", "r2"}
    Logins = {"l1", "l2"}
    Parts = 2
    MaxGenerations = 3
    MaxTokens = 3
    Listed = {"a1", "a2"}
    MaxPersists = 2
CONSTRAINT Interchangeable
INVARIANTS
    TiesAreLargest
    AnswersFollowDecisions
    ProxyDelivers
    SlotsExact
PROPERTIES
    DirectoryMovesForward
    
    SavedStaysSaved
CHECK_DEADLOCK FALSE
