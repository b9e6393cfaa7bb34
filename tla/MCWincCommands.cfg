SPECIFICATION FairSpec
CONSTANTS
  FlashSize = 8
  SectorSize = 4
  PageSize = 2
  Bits = {1}
  Blobs <- MCBlobs
INVARIANTS
  TypeOK
  FlagsTellCPU
PROPERTIES
  ImplementsFlashStore
  EveryCommandEnds
