\* A failed command returns no data (ecc_commands.c:256-257).
SPECIFICATION Spec
CONSTANTS
  MaxSlot = 1
  FirstKeySlot = 1
  ZoneSize <- MCZoneSize
  OtpSize = 4
  DataLen = 12
  WordSize = 32
  ByteSize = 4
  AccessSize = 2
  BlockSize = 2
  PubKeySize = 4
  SigSize = 4
  SerialSize = 3
  Value = {"blank", "a"}
  Blank = "blank"
  Malformed = Malformed
  ArgLists <- MCArgLists
INVARIANTS
  FailureReturnsNoData
