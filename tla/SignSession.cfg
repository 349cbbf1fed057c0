\* Two requests and two connections at a time on one session, two users,
\* statements, cache writes and broadcasts that fail.
SPECIFICATION Spec
CONSTANTS
    User = {u1, u2}
    Session = {s1}
    Req = {r1, r2}
    Socket = {w1, w2}
    NoUser = NoUser
    NoSession = NoSession
    SessionTTL = 2
    MaxLogs = 2
    Fails = TRUE
SYMMETRY Symmetry
CONSTRAINT Explored
INVARIANTS
    SignedWasApproved
    DecidedOnce
    StatusIsTrue
    NobodyMissesTheStatus
PROPERTY
    SignedWhileApproved
CHECK_DEADLOCK FALSE
