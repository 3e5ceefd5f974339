SPECIFICATION LinkSpec
CONSTANTS
    Call = {1, 2}
    MaxPushes = 2
CHECK_DEADLOCK FALSE
INVARIANTS
    RepliesMatch
    FramesInOrder
PROPERTIES
    CallsReturn
    BusyConnectionEnds
