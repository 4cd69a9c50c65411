SPECIFICATION Spec
CONSTANTS
    STA = {s1}
    AP = {a1, a2}
    RSSI = {196, 206}
    None = None
    Thread = {t1}
    max_num_sta = 1
    Reorder = TRUE
    Budget <- LeaveBudget
SYMMETRY Symmetry
INVARIANTS
    TypeOK
    OneSelected
    QuestionPending
    OnlyChosen
CHECK_DEADLOCK FALSE
