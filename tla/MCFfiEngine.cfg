SPECIFICATION Spec
CONSTANTS
    Senders = {"s"}
    MaxEngines = 2
    MaxLinks = 2
    MaxScans = 2
    MaxMessages = 2
    MaxFaults = 1
    Stub = TRUE
INVARIANT UnpairedAwaitsPairing
PROPERTIES
    SavedStateKept
    CallsReturn
    PairingShown
CHECK_DEADLOCK FALSE
