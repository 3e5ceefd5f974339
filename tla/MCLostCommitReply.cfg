SPECIFICATION Spec
CONSTANTS
    Client = {a, b}
    FaultKinds = {"drop"}
    MaxFaults = 1
    MaxApps = 0
    MaxCommits = 1
CHECK_DEADLOCK FALSE
PROPERTY Converges
