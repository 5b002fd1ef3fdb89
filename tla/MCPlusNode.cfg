CONSTANTS
  NumJobs = 6
  Reservation = 4
  NodeRam = 12
  OsOverhead = 2
  NodeVcpu = 5
  SlotChoices = {0, 1, 2}
  Soft <- MCSoft
  Burst <- MCBurst
  Peak <- MCPeak
  DownloadRam <- MCDownloadRam
  WorkhorseRam <- MCWorkhorseRam
  UploadRam <- MCUploadRam
  Vcpu <- MCVcpu
SPECIFICATION FairSpec
INVARIANT TypeOK
INVARIANT NoOverload
INVARIANT AllocationBalanced
INVARIANT DownloadThrottle
PROPERTY ContractSpec
PROPERTY PlacedJobCompletes
\* Every job is done, rejected or left for another node, and this one is idle.
CHECK_DEADLOCK FALSE
