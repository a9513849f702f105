SPECIFICATION Spec
CONSTANTS
  b1 = b1
  b3 = b3
  Block = {b1, b3}
  SlotOf <- MCSlotOf
  ValidationBlock = {b1}
  MinCommittableAge = 1
  MaxSlot = 3
  MaxForceCalls = 1
  MaxFaults = 0
CHECK_DEADLOCK FALSE
INVARIANT ForceCommitInProgress
