SPECIFICATION ServicesFairSpec
CONSTANTS
    Parts = {"leases", "goals", "agents", "tokens", "trust", "approvals"}
    m1 = m1
    Members = {m1}
    NoOne = NoOne
    MaxId = 2
    Claims <- FewClaims
    Revisions <- FewRevisions
    MaxGen = 1
    MaxLife = 1
    AdminStatuses = {"pending"}
    MaxServers = 3
    Calls = {c1, c2}
    Nothing = Nothing
    MaxAttempts = 2
    MaxRounds = 2
    MaxGoals = 1
    MaxContinuations = 1
    MaxLoopTokens = 1
    Budgets = {1}
    Unlimited = Unlimited
    MaxUsed = 1
    Costs = {0, 2}
    MaxStoreFailures = 0
    Runtimes = {p, q}
    NoRuntime = NoRuntime
    MaxAgentRounds = 2
    MaxMessages = 1
    MaxExecutions = 2
    MaxAgentFailures = 0
    Callers = {a, b}
    MaxTokens = 2
    MaxVersions = 3
    MaxFaults = 3
    Files = {f, g}
    MaxTurns = 3
    MaxPrompts = 3
    MaxWrites = 3
    MaxSnapshots = 2
    CandidateIds = {x, y, z}
    MaxCandidates = 2
    Users = {u, v}
    MaxCleanupFailures = 0
    MaxAsked = 2
    MaxToolCalls = 1
    KeepRecent = 1
    MaxStoreFaults = 1
    Owners = {o1, o2}
    MaxCheckouts = 2
    MaxCommits = 1
    MaxDisturbances = 1
    Terminals = {"here"}
    Words <- ProjectWords
    Commands <- OneCommand
    Family <- ProjectFamily
    Settings <- ProjectSettings
    AskedCalls = {k1, k2}
    k1 = k1
    k2 = k2
    StartModes = {"default"}
PROPERTIES
    WaitsEnd
    RunsEnd
CHECK_DEADLOCK FALSE
