SPECIFICATION Spec
CONSTANTS
  NumJobs = 3
  MaxRetries = 2
  Soft <- MCSoft
  Vcpu <- MCVcpu
  Ram <- MCRam
  Physical = 9
  Spike = 3
  NodeVcpu = 3
  DrainVcpu = 1
  MaxNodes = 2
  MaxCopies = 3
  TierModes = {TRUE, FALSE}
INVARIANT TypeOK
INVARIANT AllocationBalanced
INVARIANT NoIdleRoom
INVARIANT RetryLimit
INVARIANT SlotsOnLiveNodes
\* Every job has ended and the timers have fired.
CHECK_DEADLOCK FALSE
