\* One client, approved twice, with grants revoked in between and calls that
\* fail; fair handlers, no symmetry.
SPECIFICATION FairSpec
CONSTANTS
    User = {u1}
    Client = {c1}
    Uri = {uri1}
    Secret = {s1}
    Code = {k1, k2}
    Req = {r1, r2}
    None = None
    CodeTTL = 1
    TokenTTL = 1
    Fails = TRUE
INVARIANTS
    AppsAreListed
PROPERTIES
    AuthorizationCodesSingleUse
    DeactivationTakesHold
CHECK_DEADLOCK FALSE
