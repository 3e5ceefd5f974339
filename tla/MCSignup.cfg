SPECIFICATION Spec
CONSTANTS
    p = p
    q = q
    Phones <- MCPhones
    Key <- MCKey
    TopLimit <- MCTopLimit
    Period = 2
    MaxTime = 2
    MaxRequests = 4
    MaxRotations = 2
    MaxFaults = 1
SYMMETRY NumberSymmetry
INVARIANTS
    NumberKept
    HeldIsHonest
    VerificationGates
    BurstsBounded
    RefusalEarned
CHECK_DEADLOCK FALSE
