SPECIFICATION FairSpec

CONSTANTS
    r1 = r1
    r2 = r2
    a1 = a1
    None = None
    Run = {r1, r2}
    Agent = {a1}
    Pid = {1, 2}
    AgentOf <- MCAgentOf
    Stderr <- MCKinds
    MaxRetries = 1
    MaxRateRetries = 2
    FailureThreshold = 2
    SuccessThreshold = 2
    BaseTimeout = 1
    MaxTimeout = 2
    ResetWindow = 2

INVARIANTS
    TypeOK
    ClosedIsHealthy
    BackoffOfOutage
    FailureRecordedOnce

PROPERTIES
    GhostsAreCancelled
    CircuitProbed
    GhostCleaned
