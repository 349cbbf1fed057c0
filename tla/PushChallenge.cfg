\* Three requests at a time on two challenges of two users; requests die and
\* commands fail.
SPECIFICATION Spec
CONSTANTS
    User = {u1, u2}
    Challenge = {ch1, ch2}
    Req = {r1, r2, r3}
    NoUser = NoUser
    NoChallenge = NoChallenge
    TTL = 2
    Fails = TRUE
SYMMETRY Symmetry
INVARIANTS
    TokensWereMatched
    ExpiredNeverAdmits
    DenialStands
CHECK_DEADLOCK FALSE
