CONSTANTS
    r1 = r1
    r2 = r2
    r3 = r3
    c1 = c1
    c2 = c2
    w1 = w1
    system = system
    Request = {r1, r2, r3}
    Conv = {c1, c2}
    Workspace = {w1, system}
    ConvOf <- TwoConvs
    WsOf <- CronElsewhere
    Effective <- ToDefault
    Traits <- CronAndRoute
    None = None
    NoConv = NoConv
    Free = Free
    MaxRetries = 1
    MayRestart = TRUE
SPECIFICATION Spec
CHECK_DEADLOCK FALSE
INVARIANTS
    LockOwned
    JobResumable
    RejectedBehindDelegation
