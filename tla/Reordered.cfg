SPECIFICATION FairSpec
CONSTANTS
    STA = {s1}
    AP = {a1, a2}
    RSSI = {196, 206}
    None = None
    Thread = {t1}
    max_num_sta = 1
    Reorder = TRUE
    Budget <- SettleBudget
PROPERTIES
    Agree
CHECK_DEADLOCK FALSE
