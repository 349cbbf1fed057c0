\* Two concurrent requests, two tokens, one exchange code; calls to Redis fail
\* or lose their reply.
SPECIFICATION Spec
CONSTANTS
    User = {u1}
    Req = {r1, r2}
    Token = {t1, t2}
    Code = {c1, c2}
    NoUser = NoUser
    NoToken = NoToken
    FullTTL = 2
    TempTTL = 1
    CodeTTL = 1
    RedisFails = TRUE
SYMMETRY Symmetry
INVARIANTS
    TypeOK
    RevokedStaysOut
    NoLateAdmission
    MfaRequiredTruthful
    MfaHonoured
PROPERTY
    ExchangeCodesSingleUse
CHECK_DEADLOCK FALSE
