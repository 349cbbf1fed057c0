\* Two requests at a time, each a validation behind a limiter that may fail or
\* a regeneration.
SPECIFICATION GateSpec
CONSTANTS
    Req = {r1, r2}
    Batch = {b1, b2}
    PerBatch = 1
    NoBatch = NoBatch
    MaxRequests = 2
    Window = 2
    RedisFails = TRUE
    MaxTime = 2
    MaxCalls = 2
SYMMETRY Symmetry
INVARIANTS
    OneBatch
    AcceptedIsSpent
    GuessesLimited
CHECK_DEADLOCK FALSE
