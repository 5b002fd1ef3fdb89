\* A node that drains when it is empty is never let go (expected to fail).
SPECIFICATION FairSpec
CONSTANTS
  NumJobs = 3
  MaxRetries = 2
  Soft <- MCSoft
  Vcpu <- MCVcpu
  Ram <- MCRam
  Physical = 9
  Spike = 3
  NodeVcpu = 3
  DrainVcpu = 1
  MaxNodes = 2
  MaxCopies = 3
  TierModes = {TRUE}
CHECK_DEADLOCK FALSE
PROPERTY DrainedNodeShutsDown
