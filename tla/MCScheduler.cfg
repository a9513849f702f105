SPECIFICATION Spec
CONSTANTS
  i1 = i1
  i2 = i2
  i3 = i3
  v1 = v1
  blkA = blkA
  blkB = blkB
  blkC = blkC
  blkD = blkD
  Issuer = {i1, i2, i3}
  Validator = {v1}
  Block = {blkA, blkB, blkC, blkD}
  IssuerOf <- MCIssuerOf
  Parents <- MCParents
  Time <- MCTime
  FutureBlock = {blkC}
  Work <- MCWork
  MaxBlockWork = 2
  Quantum <- MCQuantum
  MaxDeficit = 4
  SchedulerRate = 3
  MaxBufferSize = 2
  MaxValidationBufferSize = 1
  NewAccount = {i3}
  MaxQueues = 3
  MaxEvents = 2
CHECK_DEADLOCK FALSE
INVARIANTS
  TypeOK
  CausalScheduling
  QueuedIsEnqueued
  
PROPERTIES
  ReadyBlocksLeave
