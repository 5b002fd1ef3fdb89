SPECIFICATION FairSpec
CONSTANTS
  NumJobs = 3
  Peak <- MCPeak
  Vcpu <- MCVcpu
  Use <- MCUse
  Instances <- MCInstances
  Overhead = 0
  VolumeGb = 5
  InitialVolumes = 1
  MaxVolumes = 2
  TriggerPct = 55
  MaxNodes = 3
  Configs <- MCConfigs
INVARIANT ReportMatchesRun
INVARIANT IdleTimeTrue
PROPERTY EveryJobDone
PROPERTY ContractUntilEnd
\* A run that has ended takes no step any more.
CHECK_DEADLOCK FALSE
