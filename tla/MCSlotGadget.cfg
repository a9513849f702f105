SPECIFICATION Spec
CONSTANTS
    a1 = a1
    a2 = a2
    a3 = a3
    Account = {a1, a2, a3}
    MaxSlot = 3
    MaxRestarts = 1
    SeatCount <- MCSeatCount
INVARIANTS
    TypeOK
    FinalizedBySuperMajority
    NoGapInFinalization
    NoQuorumLeftBehind
PROPERTIES
    FinalizationOnlyAdvances
    FinalizedSlotsAreAnnounced
