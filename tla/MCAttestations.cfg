SPECIFICATION Spec
CONSTANTS
  i1 = i1
  i2 = i2
  None = None
  Issuer = {i1, i2}
  Committee <- MCCommittee
  MaxCommittableAge = 3
  MaxSlot = 5
  FirstRestartSlot = 3
  FirstForkSlot = 3
  MaxAttestations = 2
  MaxRestarts = 1
CHECK_DEADLOCK FALSE
INVARIANTS
  TypeOK
  PendingIsGreatest
  AttestationsOnlyGrow
PROPERTIES
  ImplementsWindow
