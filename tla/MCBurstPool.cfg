CONSTANTS
  NumJobs = 5
  Reservation = 4
  Burst <- MCBurst
SPECIFICATION FairPoolSpec
INVARIANT ClaimsWithinHeadroom
INVARIANT NoLostWakeup
PROPERTY NoUnfairOvertaking
PROPERTY EveryBurstServed
\* Every job may be through, or wait for more than the pool has: the node stops.
CHECK_DEADLOCK FALSE
