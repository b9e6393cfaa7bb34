\* Devices in each clock mode, a slow and a quick command, up to three faults.
SPECIFICATION FairSpec
CONSTANTS
  Command = {"GENKEY", "NONCE"}
  ChipMode = {0, 44, 106}
  MaxFaults = 3
INVARIANTS
  TypeOK
  NeverTooEarly
  HangNeedsFault
PROPERTIES
  ImplementsExchange
  ExecutionEnds
CHECK_DEADLOCK FALSE
