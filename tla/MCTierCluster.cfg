SPECIFICATION Spec
CONSTANTS
  NumJobs = 3
  Soft <- MCSoft
  Vcpu <- MCVcpu
  Burst <- MCBurst
  TierDefs <- MCTierDefs
  Overhead = 0
  Workloads <- MCWorkloads
  Policies <- MCPolicies
  Day = 4
  MaxNow = 5
  MaxNodes = 3
INVARIANT TypeOK
INVARIANT BurstsHaveRoom
PROPERTY LaunchesWithinPolicy
PROPERTY DrainedNodesWereIdle
PROPERTY KeepsContract
\* The clock stops at MaxNow.
CHECK_DEADLOCK FALSE
