SPECIFICATION Spec
CONSTANTS
  NumJobs = 4
  VolumeGb = 10
  InitialVolumes = 1
  MaxVolumes = 2
  TriggerPct = 80
  Workspace <- MCWorkspace
  Physical = 4
  Unit = 60
  Full = 4
  Soft <- MCSoft
  Hard <- MCHard
  Declared <- MCDeclared
  Efficiency <- MCEfficiency
  StageCaps <- MCStageCaps
INVARIANT TypeOK
INVARIANT StorageWithinLimits
INVARIANT WorkspacesOnBooks
INVARIANT SharesFitNode
INVARIANT NoStaleRate
INVARIANT NoShareTooHigh
INVARIANT ProportionalFair
INVARIANT AuctionInOrder
\* The node has been closed.
CHECK_DEADLOCK FALSE
