\* Two requests of one user: a second set-up during a verification.
SPECIFICATION Spec
CONSTANTS
    Req = {r1, r2}
    Secret = {s1, s2}
    Item = {}
    NoSecret = NoSecret
    Statements = "reliable"
SYMMETRY Symmetry
INVARIANT EnabledSecretProven
CHECK_DEADLOCK FALSE
