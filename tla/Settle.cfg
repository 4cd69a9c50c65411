SPECIFICATION FairSpec
CONSTANTS
    STA = {s1}
    AP = {a1, a2, a3}
    RSSI = {196, 206}
    None = None
    Thread = {t1}
    max_num_sta = 1
    Reorder = FALSE
    Budget <- SettleBudget
PROPERTIES
    ImplementsAttachment
    MovesFromServing
    Answered
    Agree
CHECK_DEADLOCK FALSE
