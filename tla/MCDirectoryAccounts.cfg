SPECIFICATION Spec
SYMMETRY Symmetry
CONSTANTS
    Phone = {p}
    UserId = {u1, u2}
    Link = {l1, l2}
    Req = {r1, r2}
    NoPhone = NoPhone
    NoRow = NoRow
    NoUser = NoUser
    NoLink = NoLink
    CooldownLen = 1
    SessionTTL = 1
    MaxTime = 1
INVARIANTS
    OneLiveAccount
    NoAccountInCooldown
    ErasedLeavesNothing
    LinkHandedOnce
