\* The first read of the chip mode fails, with no fault but an error answer.
SPECIFICATION Spec
CONSTANTS
  Command = {"GENKEY", "NONCE"}
  ChipMode = {0, 44, 106}
  MaxFaults = 0
INVARIANTS
  SleeperIsWoken
CHECK_DEADLOCK FALSE
