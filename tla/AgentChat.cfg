CONSTANTS
    r1 = r1
    r2 = r2
    r3 = r3
    s1 = s1
    s2 = s2
    c1 = c1
    c2 = c2
    Runs = {r1, r2, r3}
    Sessions = {s1, s2}
    Calls = {c1, c2}
    SessionOf <- MCSessionOf
    RunOf <- MCRunOf
    Prompts <- MCPrompts
    TtlMs = 1
    MaxEntries = 2
    PollAttempts = 2
    AttachAttempts = 1
    MaxClock = 1
    MaxCaptures = 3
SPECIFICATION Spec
INVARIANTS
    TypeOK
PROPERTIES
    VerdictIsHeard
    IntentIsOwnOrLatest
CHECK_DEADLOCK FALSE
