SPECIFICATION FairSpec
CONSTANTS
    MaxConn = 6
    MaxError = 3
    Sender = {t1}
    rx = rx
    Budget <- ConnectBudget
INVARIANTS
    TypeOK
    GwSwitchSwept
    ReadyActive
    NothingUnexpected
PROPERTY
    Reconnects
CHECK_DEADLOCK FALSE
