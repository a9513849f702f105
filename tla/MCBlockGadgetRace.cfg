SPECIFICATION Spec
CONSTANTS
    g = g
    p = p
    c = c
    v1 = v1
    v2 = v2
    w1 = w1
    Block <- MCBlock
    NoBlock = NoBlock
    RootBlock = {g}
    Parents <- MCParents
    SlotOf <- MCSlotOf
    EpochOf <- MCEpochOf
    Seat = {1, 2}
    SeatOf <- MCSeatOf
    NoSeat = NoSeat
    SeatCount <- MCSeatCount
    MaxOnlineChanges = 1
    OnlineChangesMidWalk = TRUE
INVARIANT AcceptanceIsMonotone
CHECK_DEADLOCK FALSE
