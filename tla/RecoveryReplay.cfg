\* Two validations of one code at the same time.
SPECIFICATION Spec
CONSTANTS
    Req = {r1, r2}
    Batch = {b1}
    PerBatch = 1
    NoBatch = NoBatch
PROPERTY CodesSingleUse
CHECK_DEADLOCK FALSE
