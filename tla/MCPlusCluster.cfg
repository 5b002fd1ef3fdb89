SPECIFICATION FairSpec
CONSTANTS
  NumJobs = 4
  Soft <- MCSoft
  Vcpu <- MCVcpu
  Peak <- MCPeak
  Instances <- MCInstances
  Overhead = 1
  Spike = 2
  MaxNodes = 5
  UnderutilizedPct = 60
  ConsolidationPct = 60
INVARIANT TypeOK
INVARIANT NoIdleRoom
INVARIANT TimersMatchLoad
INVARIANT OneLaunchPerJob
PROPERTY ProvisionSettles
PROPERTY EveryJobDone
PROPERTY EveryNodeReleased
PROPERTY KeepsContract
\* Every job has ended and every node has been let go.
CHECK_DEADLOCK FALSE
