SPECIFICATION PacketSpec
CONSTANTS
    MungerRanges = 2
    Slots = 3
    SNModulus = 16
    FirstSN = 12
    KeyFrames = {12, 14}
    Scopes <- PacketScopes
INVARIANTS HolesAreAwaited RecentIsFound
PROPERTIES NumbersAreUnique NackFindsWhatWasSent TimestampsAdvance NoJumpAfterResync
CHECK_DEADLOCK FALSE
