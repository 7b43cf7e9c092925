CONSTANTS
    m1 = m1
    m2 = m2
    m3 = m3
    g1 = g1
    p1 = p1
    Message = {m1}
    Agent = {g1}
    Conv = {p1}
    TargetOf <- OneTarget
    ConvOf <- OnePair
    Posted = {}
    Slow = {}
    MaxRetries = 1
    Threshold = 2
SPECIFICATION Spec
CHECK_DEADLOCK FALSE
INVARIANT
    OneLiveRun
