SPECIFICATION Spec
SYMMETRY Symmetry
CONSTANTS
    Req = {r1, r2}
    Token = {t1}
    NoReq = NoReq
    NoToken = NoToken
    NoRow = NoRow
    TokenTTL = 6
    MaxTime = 7
INVARIANTS
    GuessingIsSlow
PROPERTY ErasedNotRestored
