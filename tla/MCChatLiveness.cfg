SPECIFICATION Spec
CONSTANTS
    Client = {a, b}
    FaultKinds = {"drop", "reject"}
    MaxFaults = 1
    MaxApps = 1
    MaxCommits = 2
CHECK_DEADLOCK FALSE
PROPERTIES
    CommitsReturn
    CatchesUp
    MessagesShown
