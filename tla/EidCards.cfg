\* Two requests at a time, two users, four accounts of four providers, in
\* eight mixes of operations.  States are not issued for ever.
SPECIFICATION Spec
CONSTANTS
    g1 = g1
    a1 = a1
    f1 = f1
    t1 = t1
    e1 = e1
    User = {u1, u2}
    Email = {e1}
    Account = {g1, a1, f1, t1}
    Provider <- MCProvider
    Address <- MCAddress
    Citizen = {c1, c2}
    State = {s1, s2}
    Req = {r1, r2}
    NoEmail = NoEmail
    NoUser = NoUser
    NoCitizen = NoCitizen
    NoState = NoState
    Nobody = Nobody
    Card = {k1}
    NoCard = NoCard
    MaxEntries = 2
    Loads <- MCLoads
    Fails = TRUE
SYMMETRY Symmetry
INVARIANTS
    LoginsAreTied
    VerifiedHasCitizen
    LevelIsBestProof
    EidAnswerHolds
    RevokedOnce
PROPERTY
    StatesGuardCallbacks
CHECK_DEADLOCK FALSE
