CONSTANTS
    JudgeCodes = {"out_of_scope"}
    Processes = {p1, p2}
    Workers = {w1, w2}
    Candidates = 2
    Corpus <- MCCorpus
    b1 = b1
    b2 = b2
    Bindings = {b1, b2}
    MaxStarts = 3
SYMMETRY MCSymmetry
SPECIFICATION Spec
INVARIANTS
    TypeOK
    PaysOnlyMissing
    PublishedIsCheckpointed
    RankingNeverRefuses
    PublishedOrderHolds
CHECK_DEADLOCK FALSE
