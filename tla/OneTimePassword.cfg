\* Two senders and two verifiers, by e-mail or by phone; requests die and calls
\* to Redis fail.
SPECIFICATION OtpSpec
CONSTANTS
    Sender = {s1, s2}
    Verifier = {v1, v2}
    Otp = {o1, o2}
    NoOtp = NoOtp
    MaxAttempts = 2
    OtpTTL = 2
    CooldownTTL = 2
    MaxLost = 1
SYMMETRY Symmetry
CONSTRAINT Explored
INVARIANTS
    OtpUsedOnce
    GuessesBounded
PROPERTY
    CooldownHolds
CHECK_DEADLOCK FALSE
