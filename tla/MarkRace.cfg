SPECIFICATION Spec
CONSTANTS
    STA = {s1}
    AP = {a1, a2}
    RSSI = {196, 206}
    None = None
    Thread = {t1, t2}
    max_num_sta = 1
    Reorder = FALSE
    Budget <- SettleBudget
SYMMETRY Symmetry
INVARIANTS
    Served
CHECK_DEADLOCK FALSE
