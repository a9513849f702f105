SPECIFICATION Spec
CONSTANTS
  b1 = b1
  b2 = b2
  w1 = w1
  w2 = w2
  Genesis = Genesis
  Block = {b1, b2}
  Worker = {w1, w2}
  SlotOf <- MCSlotOf
  Parents <- MCParents
  CommitmentOf <- MCCommitmentOf
  TransactionBlock = {b1}
  Kinds <- MCKinds
  MaxCommittableAge = 1
  BufferSize = 1
  MaxSlot = 2
  MaxReceived <- MCMaxReceived
CHECK_DEADLOCK FALSE
INVARIANTS
  TypeOK
  NoBlockForgotten
  
  
  
  ActiveWindowHasRoot
  RequestsEnd
PROPERTIES
  BlocksAreBooked
