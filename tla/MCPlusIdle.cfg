\* A node that has emptied and waits for its timer takes no job (the run is expected to fail).
SPECIFICATION Spec
CONSTANTS
  NumJobs = 4
  Soft <- MCSoft
  Vcpu <- MCVcpu
  Peak <- MCPeak
  Instances <- MCInstances
  Overhead = 1
  Spike = 2
  MaxNodes = 5
  UnderutilizedPct = 60
  ConsolidationPct = 60
CHECK_DEADLOCK FALSE
INVARIANT EmptiedNodeRefills
