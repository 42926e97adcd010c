CONSTANTS
    f1 = f1
    f2 = f2
    i1 = i1
    s1 = s1
    s2 = s2
    w1 = w1
    w2 = w2
    Freezers = {f1, f2}
    Inferrers = {i1}
    Workers = {w1, w2}
    Scorers = {s1, s2}
    Holdout = "primary-1"
    Corpora <- MCCorpora
    PartitionSets <- MCPartitionSets
    Pricings <- MCPricings
    ResultNames <- MCResultNames
    ReadOnlyRequests <- MCReadOnlyRequests
    Repeats = 2
    None = None
SYMMETRY MCSymmetry
SPECIFICATION Spec
INVARIANTS
    FrozenIsWhole
    PaysOnce
    BuildsWhenAnswered
    ScoreIsOfOneFreeze
    BoundIsScorable
    ScoreIsWhole
CHECK_DEADLOCK FALSE
