\* Three requests at a time on one session, two users, writes that fail.
SPECIFICATION Spec
CONSTANTS
    User = {u1, u2}
    Session = {s1}
    Req = {r1, r2, r3}
    NoUser = NoUser
    NoSession = NoSession
    SessionTTL = 3
    ApprovedTTL = 2
    Fails = TRUE
SYMMETRY Symmetry
INVARIANTS
    TokensWereApproved
    OneApprover
    ApprovalSticks
    RowFollowsKey
CHECK_DEADLOCK FALSE
