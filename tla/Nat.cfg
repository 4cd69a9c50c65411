SPECIFICATION Spec
CONSTANTS
    s1 = s1
    h1 = h1
    STA = {s1}
    AP = {a1, a2}
    Host = {h1}
    Flow <- TwoFlows
    PortCount = 4
    DefaultPort = 2
    None = None
    Budget <- NatBudget
SYMMETRY Symmetry
INVARIANTS
    TypeOK
    PortsDistinct
    PortsDynamic
    KeptAsked
    ReplyToOwner
    RoundTrip
    CarriedFirst
PROPERTIES
    OwnPort
    ImplementsChannel
CHECK_DEADLOCK FALSE
