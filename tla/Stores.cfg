\* Registry
CONSTANTS
    AgentId = {"default", "a1"}
    DefaultId = "default"
    Name = {"PROTOS", "nA", "nB"}
    DefaultName = "PROTOS"
\* SharedContext
CONSTANTS
    Namespace = {n1, n2, n3}
    FactKey = {k1, k2}
    maxNamespaces = 2
    maxFacts = 1
    MaxTime = 3
\* Cron
CONSTANTS
    Job = {j1, j2, j3}
    OneTime = {j2}
    MaxRuns = 2
\* MessagePolicy
CONSTANTS
    Sender = {sender1, sender2}
    Denied = {sender2}
    Allowed = {}
    minute = 1
    hour = 3
    maxPerMinute = 2
    maxPerHour = 4
\* Memory
CONSTANTS
    Entry = {e1, e2}
    Identity = {i1, i2}
    MaxCore = 1
\* Sessions
CONSTANTS
    Key = {key1, key2, key3}
    SharedKey = {key3}
    CronKey = {key3}
    CliRun = {r1, r2}
    NoSession = NoSession
    MaxSessionTurns = 2
    MaxSessions = 1
    MaxRecords = 2
\* Compaction
CONSTANTS
    maxMessages = 4
    compactTo = 2
    MinKeep = 1
    HardKeep = 2
    HardNotes = 1
    Window = 8
    Prompts = {0, 1}
    RecapCount = 3
    MaxSaid = 7
    MaxUses = 2
\* Skills
CONSTANTS
    Agent = {a1}
    Named = {s1, s2}
    ByHand = {s3}
    MaxCalls = 1
\* ModelResolver
CONSTANTS
    Providers = 3
    maxFailures = 2
    cooldown = 1
    rateLimitCooldown = 2
    RoundRobin = TRUE
    Turns = 6
\* Gateway
CONSTANTS
    w1 = w1
    Client = {c1, c2}
    Conv = {v1, v2}
    AgentConv = {}
    Workspace = {w1}
    Message = {m1, m2}
    WsOf <- MessagesOfOne
    NoClient = NoClient
    NoMessage = NoMessage
    NoBuffer = NoBuffer
    NoConv = NoConv
    MaxPerWorkspace = 1
SPECIFICATION Stores
CHECK_DEADLOCK FALSE
INVARIANTS
    StoresTypeOK StoresAgree DerivedIsCurrent AnswersFindTheirPlace LimitsHold
PROPERTIES
     HousekeepingSpares
