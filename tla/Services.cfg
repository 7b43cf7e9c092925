\* ConversationFile
CONSTANTS
    Change = {k1, k2}
    Flush = {f1, f2}
    Inode = {i1, i2, i3}
    NoFile = NoFile
    Torn = Torn
\* Lifecycle
CONSTANTS
    Pid = {p1}
    Fake = Fake
    MaxQueue = 1
\* LaneQueue
CONSTANTS
    Task = {t1, t2, t3}
    NoTask = NoTask
    maxQueueDepth = 2
    laneMaxRetries = 1
\* Webhooks
CONSTANTS
    Hook = {h1, h2}
    Delivery = {d1, d2}
    Large = {d2}
    Forwarded = {h1}
    hookMaxRetries = 1
    rateLimitMax = 1
\* TaskPlanner
CONSTANTS
    Plan = {plan1}
    Worker = {worker1}
    NoWorker = NoWorker
    maxSubtasks = 4
    maxConcurrency = 2
    maxPlans = 0
\* GroupChat
CONSTANTS
    q1 = q1
    q2 = q2
    q3 = q3
    Participant = {q1, q2, q3}
    order <- Order
    ChatMessage = {m1, m2}
    recent = 1
\* Provider
CONSTANTS
    maxTurns = 3
    maxCalls = 2
\* RunOutput
CONSTANTS
    Tool = {u1, u2}
    MaxPieces = 1
    MaxRuns = 2
    HistoryMax = 1
    LookBack = 2
\* Statistics
CONSTANTS
    MaxDay = 2
    DaysPerMonth = 2
    KeptDays = 1
    dailyLimit = 2
    monthlyLimit = 3
    OutputsKept = 2
    MaxRecorded = 2
\* Config
CONSTANTS
    Valid = {v1, v2}
    Invalid = {x1}
    HalfWritten = HalfWritten
    Absent = Absent
    MaxEdits = 4
\* ErrorAnalysis
CONSTANTS
    Failure = {e1, e2, e3}
    maxConcurrent = 2
\* Delegation
CONSTANTS
    a1 = a1
    a2 = a2
    a3 = a3
    a4 = a4
    a5 = a5
    nameOfA1 = nameOfA1
    Agent = {a1, a2, a3, a4, a5}
    Alias = {}
    AgentOf <- IdsOnly
    MaxDepth = 2
SPECIFICATION Services
CHECK_DEADLOCK FALSE
INVARIANTS
    ServicesTypeOK OnceAndExact KnowsWhatCameBefore
    ContextIsChain DepthBounded NoAgentTwice
PROPERTIES
    FaultsDoNoHarm FilesCatchUp WorkEnds ProcessesEnd
