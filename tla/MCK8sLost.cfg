\* A replayed job loses its slot to the process it replaces (expected to fail).
SPECIFICATION Spec
CONSTANTS
  NumJobs = 3
  MaxRetries = 2
  Soft <- MCSoft
  Vcpu <- MCVcpu
  Ram <- MCRam
  Physical = 9
  Spike = 3
  NodeVcpu = 3
  DrainVcpu = 1
  MaxNodes = 2
  MaxCopies = 3
  TierModes = {FALSE}
CHECK_DEADLOCK FALSE
INVARIANT NoJobLost
