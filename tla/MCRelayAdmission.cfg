SPECIFICATION AdmissionSpec
SYMMETRY ChallengeSymmetry
CONSTANTS
    t1 = t1
    t2 = t2
    Challenge = {c1, c2, c3, c4, c5}
    Token = {t1, t2}
    NoToken = NoToken
    Expiry <- MCExpiry
    GateOn = TRUE
    Cap = 2
    MaxClock = 3
INVARIANTS
    PaysOnce
    RecentChallengeHonoured
