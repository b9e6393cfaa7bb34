\* The receive ring holds three bytes, the transmit ring two.
SPECIFICATION MCFairSpec
CONSTANTS
  Size = 4
  TxSize = 2
  Byte = {0, 1}
INVARIANTS
  TypeOK
  CountMatchesIndices
  NoLostUpdate
  TxTypeOK
  TxCountMatchesIndices
  TxLosesNoUpdate
  Armed
PROPERTIES
  ImplementsFifo
  EveryByteIsRead
  TxIsFifo
  WriteReturns
  Drained
