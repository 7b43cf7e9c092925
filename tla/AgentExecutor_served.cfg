CONSTANTS
    r1 = r1
    r2 = r2
    r3 = r3
    c1 = c1
    c2 = c2
    w1 = w1
    system = system
    Request = {r1, r2, r3}
    Conv = {c1}
    Workspace = {w1}
    ConvOf <- SameConv
    WsOf <- SameWorkspace
    Effective <- ToDefault
    Traits <- SpawnMayFail
    None = None
    NoConv = NoConv
    Free = Free
    MaxRetries = 1
    MayRestart = FALSE
SPECIFICATION FairSpec
CHECK_DEADLOCK FALSE
INVARIANT
    QueueServed
PROPERTY
    EveryRequestSettles
