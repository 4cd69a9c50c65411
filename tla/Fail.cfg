SPECIFICATION Spec
CONSTANTS
    STA = {s1}
    AP = {a1, a2}
    RSSI = {196, 206}
    None = None
    Thread = {t1}
    max_num_sta = 1
    Reorder = TRUE
    Budget <- FailBudget
SYMMETRY Symmetry
INVARIANTS
    OnlyKnown
    CandidateSwept
CHECK_DEADLOCK FALSE
