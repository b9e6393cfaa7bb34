\* The switch to download mode can fail unnoticed.
SPECIFICATION Spec
CONSTANTS
  FlashSize = 8
  SectorSize = 4
  PageSize = 2
  Bits = {1}
  Blobs <- MCBlobs
INVARIANTS
  FirmwareStopped
