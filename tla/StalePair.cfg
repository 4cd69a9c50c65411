SPECIFICATION Spec
CONSTANTS
    STA = {s1}
    AP = {a1, a2}
    RSSI = {196, 206}
    None = None
    Thread = {t1}
    max_num_sta = 1
    Reorder = FALSE
    Budget <- CutBudget
SYMMETRY Symmetry
INVARIANTS
    PairSwept
CHECK_DEADLOCK FALSE
