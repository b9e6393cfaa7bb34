\* Every helper, buffers of one to three bytes.
SPECIFICATION FairSpec
CONSTANTS
  Byte = {0, 1}
  Address = {3}
  NoAddress = 255
  MaxLength = 3
  SizeT = 8
INVARIANTS
  TypeOK
  WithinBuffer
  ReadIntoBuffer
PROPERTIES
  ImplementsTransfer
  TransferEnds
