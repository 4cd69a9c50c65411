SPECIFICATION Spec
CONSTANTS
    STA = {s1}
    AP = {a1, a2}
    RSSI = {190, 196, 206}
    None = None
    Thread = {t1}
    max_num_sta = 1
    Reorder = TRUE
    Budget <- RoamBudget
SYMMETRY Symmetry
INVARIANTS
    OneAssociated
    OneServes
    Served
    QuestionPending
CHECK_DEADLOCK FALSE
