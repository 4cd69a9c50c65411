SPECIFICATION Spec
CONSTANTS
    s1 = s1
    h1 = h1
    STA = {s1}
    AP = {a1, a2}
    Host = {h1}
    Flow <- OneFlow
    PortCount = 4
    DefaultPort = 1
    None = None
    Budget <- MoveBudget
PROPERTY
    Redirected
CHECK_DEADLOCK FALSE
