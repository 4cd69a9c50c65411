SPECIFICATION FairSpec
CONSTANTS
    MaxConn = 2
    MaxError = 2
    Sender = {t1}
    rx = rx
    Budget <- HangBudget
PROPERTY
    NoHang
CHECK_DEADLOCK FALSE
