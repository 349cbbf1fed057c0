\* Two requests change the factors, statements fail and the process
\* dies; two tabs are in ceremonies.
SPECIFICATION PasskeySpec
CONSTANTS
    Req = {r1, r2}
    Secret = {s1, s2}
    Item = {x1, x2}
    NoSecret = NoSecret
    Statements = "may fail"
    Tab = {t1, t2}
    Challenge = {c1, c2}
    Loads <- MCLoads
    NoChallenge = NoChallenge
    NoItem = NoItem
SYMMETRY Symmetry
CONSTRAINT Explored
INVARIANTS
    FlagFollowsSettings
    SettingsFollowTables
    ProvenUnlessOvertaken
    WayIn
    RemovedPasskeyStaysOut
    ChallengeAnsweredOnce
CHECK_DEADLOCK FALSE
