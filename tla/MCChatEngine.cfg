SPECIFICATION Spec
CONSTANTS
    Client = {a, b}
    FaultKinds = {"drop", "reject", "giveup", "crash"}
    MaxFaults = 2
    MaxApps = 1
    MaxCommits = 2
CHECK_DEADLOCK FALSE
INVARIANTS
    GroupAgreement
    AppliedOnce
    AckedIsPersisted
    WinnerIsQueued
