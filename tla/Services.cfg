SPECIFICATION ServicesSpec
CONSTANTS
    Parts = {"team", "leases", "goals", "agents", "tokens", "plugins", "checkpoints",
             "candidates", "trust", "transcript", "worktrees", "approvals"}
    m1 = m1
    Members = {m1}
    NoOne = NoOne
    MaxId = 2
    Claims <- FewClaims
    Revisions <- FewRevisions
    MaxGen = 1
    MaxLife = 1
    AdminStatuses = {}
    MaxServers = 5
    Calls = {c1, c2}
    Nothing = Nothing
    MaxAttempts = 3
    MaxRounds = 3
    MaxGoals = 2
    MaxContinuations = 1
    MaxLoopTokens = 1
    Budgets = {2}
    Unlimited = Unlimited
    MaxUsed = 2
    Costs = {0, 2}
    MaxStoreFailures = 1
    Runtimes = {p, q}
    NoRuntime = NoRuntime
    MaxAgentRounds = 2
    MaxMessages = 2
    MaxExecutions = 2
    MaxAgentFailures = 1
    Callers = {a, b}
    MaxTokens = 3
    MaxVersions = 3
    MaxFaults = 3
    Files = {f, g}
    MaxTurns = 3
    MaxPrompts = 3
    MaxWrites = 4
    MaxSnapshots = 3
    CandidateIds = {x, y}
    MaxCandidates = 1
    Users = {u, v}
    MaxCleanupFailures = 1
    MaxAsked = 2
    MaxToolCalls = 1
    KeepRecent = 1
    MaxStoreFaults = 1
    Owners = {o1, o2}
    MaxCheckouts = 2
    MaxCommits = 1
    MaxDisturbances = 1
    Terminals = {"here", "there"}
    Words <- ProjectWords
    Commands <- ProjectCommands
    Family <- ProjectFamily
    Settings <- ProjectSettings
    AskedCalls = {k1, k2}
    k1 = k1
    k2 = k2
    StartModes = {"default"}
INVARIANTS
    PartsTypeOK
    OneTaskPerMember
    ReservationsHold
    HandlesAccounted
    GoalsAreSound
    TokensAreSound
    PluginsAgree
    RewindIsExact
    CandidatesAccounted
    TranscriptIsSound
PROPERTIES
    ImplementsHandle
    AgentsAreSound
    TrustIsSound
    WorktreesAreSound
    ApprovalsAreSound
SYMMETRY OwnersAlike
CHECK_DEADLOCK FALSE
