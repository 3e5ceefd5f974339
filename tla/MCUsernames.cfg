SPECIFICATION ClaimSpec
CONSTANTS
    User = {u1, u2, u3}
    Nick = {a, b}
    NoNick = NoNick
    Tx = {t1, t2}
    MinWidth = 1
    MaxWidth = 2
    SlotCount <- MCSlotCount
SYMMETRY ClaimSymmetry
INVARIANTS
    ErasedHandleReserved
    LoneClaimSucceeds
PROPERTY
    WidthOnlyWidens
CHECK_DEADLOCK FALSE
