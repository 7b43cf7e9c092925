CONSTANTS
    r1 = r1
    r2 = r2
    r3 = r3
    c1 = c1
    c2 = c2
    w1 = w1
    system = system
    Request = {r1, r2, r3}
    Conv = {c1}
    Workspace = {w1}
    ConvOf <- SameConv
    WsOf <- SameWorkspace
    Effective <- ToDefault
    Traits <- Plain
    None = None
    NoConv = NoConv
    Free = Free
    MaxRetries = 0
    MayRestart = FALSE
SPECIFICATION Spec
CHECK_DEADLOCK FALSE
INVARIANT
    OneProcessPerConversation
