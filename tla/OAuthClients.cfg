\* Two clients that present the same code, two redirect URIs, PKCE or none.
SPECIFICATION Spec
CONSTANTS
    User = {u1}
    Client = {c1, c2}
    Uri = {uri1, uri2}
    Secret = {s1}
    Code = {k1}
    Req = {r1, r2}
    None = None
    CodeTTL = 1
    TokenTTL = 1
    Fails = FALSE
SYMMETRY Symmetry
INVARIANTS
    RedeemedAsBound
CHECK_DEADLOCK FALSE
