CONSTANTS
    Writers = {w1, w2, w3}
    Depth = 3
    MaxFaults = 1
    MaxRotations = 1
    None = None
SYMMETRY MCSymmetry
SPECIFICATION Spec
INVARIANTS
    ReportIsTrue
    LossIsExplained
CHECK_DEADLOCK FALSE
