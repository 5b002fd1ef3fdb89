# A verification development of batch-sim

batch-sim is a discrete-event simulation (simpy) of three ways to run jobs with
short memory bursts on cloud nodes: AWS Batch, K8S and K8S+.  Its conclusions
(cost, crashes, waiting) are worth what its schedulers' bookkeeping is worth, so
this directory states what that bookkeeping promises, checks it with TLC on
small instances, and proves the core of it with TLAPS for all.

All source paths below are relative to `src/batch_sim/`.

## 1. The system

A run is one simpy environment.  Python generators are the processes; control
passes from one to another only at a `yield`.  Between two yields a process runs
alone, so every action below is the code from one yield to the next, and every
call it makes (`on_job_complete`, `_try_schedule`, ...) is part of the action.
The hard behaviour comes from what may happen at a yield: a job is killed while
it sleeps, a timer fires beside the event that would have cancelled it, a copy of
a job is placed beside the process it replaces.

| Component | State | Operations | Interacts with |
|---|---|---|---|
| burst pool (`scheduler/burst_pool.py`) | headroom, amount in use, queue of waiters | `acquire`, `release`, `update_max_peak` | called by K8S+ jobs; wakes them by events |
| K8S+ job process (`scheduler/k8s_plus_scheduler.py:55`) | phase, download slot, burst claim, slot on the node | download, preprocess, workhorse stages, upload | pool, download resource, node, scheduler |
| K8S+ scheduler (same file) | queue, nodes, books, `_draining`, three timers per node | arrival, completion, placement, launch, provisioning (Karpenter, tiers, legacy), timers, consolidation | everything |
| K8S scheduler (`scheduler/k8s_scheduler.py`) | queue, nodes, tiers of each job, drain monitors, windows | arrival, completion, placement, launch, provisioning (tiers, legacy), drains, policy swaps | engine, overload handler |
| core engine (`core/engine.py`) | slots of a node, flags and retries of a job, replay queue | `run_job_process`, `check_and_handle`, `add_job`/`update_phase`/`remove_job` | K8S and Batch schedulers |
| Batch scheduler (`scheduler/batch_scheduler.py`) | queue, nodes, books | arrival, completion, placement, launch, provisioning, idle timer, finalize | engine, storage pools |
| storage pools (`scheduler/storage_pool.py`) | capacity, commitment, volumes, generations | `has_room_for`, `job_start`, `job_exit`, `close` | called at placement, completion, termination |
| CPU boost (`scheduler/cpu_boost_*.py`) | share of each slot | greedy and proportional allocation, wake-up of the jobs whose share changed | called at every phase change |
| tiers and windows (`_resolve_compatible_tiers`, `_policy_timer`, `_provision_to_demand_joint`, `_update_drain_state` of both K8S schedulers) | tiers of each waiting job, the active window, last launch per tier, drain clocks | resolve, reject, swap windows, launch by tier, drain by rule | configuration; queue, nodes |
| configuration (`core/schemas.py`, `core/tier_preflight.py`) | - | validation, tier preflight | says which tiers, windows and workloads a run may have |
| metrics (`metrics/`) and the timeline script (`src/scripts/generate_node_timelines.py`) | event log, samples | record, sample, aggregate, extract phase windows | read what the schedulers recorded |
| registry (`registry/`), generation (`generator/`), driver, other scripts | - | capacity formula; sampling; start, horizon, finalize; reports | feed or read the above |

What makes each part correct:

- burst pool: claims are counted once and fit; nobody sleeps beside room he could
  take; nobody is starved or overtaken unfairly.
- K8S+ node: memory never runs out ("No crash possible"), the books balance, the
  throttle and the pool together cannot lock up.
- K8S+ cluster: no node is let go under a job, no node stays up for ever, no job
  waits for ever, demand is not provisioned for twice.
- K8S cluster: the same as far as it holds with kills and replays; every job
  completes or is recorded as failed; retries are bounded.
- Batch: a node's memory is never exceeded by jobs that stay within their peaks,
  whatever phases they are in; every job that waits for memory or for volumes gets them in the end.
- storage: a job that `has_room_for` let in never exhausts the volumes, the node
  never needs more of them than its instance attaches, and every workspace is on
  the books once.
- CPU boost: shares within the node's vCPUs though returned cycles are granted a
  second time; granted in the promised order or proportion; a changed share
  reaches the job that sleeps on it.
- tiers and windows: room for every job's burst on the node it runs on; launches
  within the policy of the hour; no node drained before its idle time.
- reports: the figures computed afterwards from the log are those of the run.

## 2. The modules

| Module | Models | State and actions |
|---|---|---|
| `Totals`, `Lists`, `NodeJobs` | `sum(...)` over jobs; a list without some entries; the jobs | recursive functions only, so that they can be proved about |
| `BurstPool` | the pool of one node | `fixed`, `headroom`, `in_use`, `waiters` are the attributes; `at[j]` is where job j's process stands in `acquire`.  `UpdateMaxPeak`, `Acquire`, `Resume`, `Release` |
| `PlusNode` | EXTENDS `BurstPool`: one K8S+ node, its jobs and its scheduler | node books, slots, the download `simpy.Resource` (`users`, `dl_queue`), `phase[j]`.  `NodeReady`, `Arrive` and one action per wake-up of `run_job_process_plus` |
| `NodeContract` | what a node promises from outside | one variable, the life of each job; two budgets, one boost per stay.  `PlusNode!Contract` instantiates it with a refinement mapping |
| `ClusterContract` | what every scheduler that kills nothing promises the jobs it is given | the life of each job, its node, the life and kind of each node; what a node of a kind has room for is a parameter.  `PlusCluster`, `BatchCluster` and `TierCluster` instantiate it: kinds are instance types, types under a storage model, and tiers; room (`Rooms`) is memory and vCPUs, for Batch volumes too |
| `Packing` | the greedy passes over the queue | shared by placement and provisioning of `PlusCluster`, `BatchCluster` and `TierCluster` |
| `PlusCluster` | the nodes of a K8S+ cluster under the Karpenter provisioner | `state`, `type`, `draining` and the three timers of each node; `Arrive`, `EndJob`, `Provision`, `NodeReady`, `EmptyFires`, `UnderFires`, `AgeFires` |
| `K8sCluster` | the K8S scheduler with `core/engine.py` | processes `<<job, copy>>`, their `phase`, `host`, `retry`, `cancelled`; slots keyed by job, books, drain monitors, idle timers; one action per wake-up |
| `BatchCluster` | the Batch scheduler, with storage admission | `phase`, `host`, `state`, `type`; `Arrive`, `NextPhase`, `Complete`, `Provision`, `NodeReady`, `IdleFires` |
| `RunReport` | EXTENDS `BatchCluster`: one run from `SimulationEngine.run` to its report | the clock, the event log (`job_log`, `node_log`), the sampler; `Tick`, `Finalize`, and the cluster's steps with `Record`.  The aggregator's and the timeline script's figures are operators on the log |
| `StorageModel` | the arithmetic of triggers and volumes | shared by `StoragePools` and `BatchCluster` |
| `StoragePools` | the three pool classes of `storage_pool.py` | `volumes`, `committed`; `gens`, `job_gen`; `active`.  `JobStart`, `JobExit`, `CloseStorage` |
| `CpuShares` | both CPU solvers and the stage loops that follow their share | `slots`, `share`, `rate`, `woken`; `JobEnters`, `StartPreprocess`, `StartStage`, `Resume`, `StartUpload`, `JobLeaves` |
| `NodeResources` | EXTENDS both: what one node hands out besides memory | `Place`, `Proceed`, `Complete`, `End`: one step of each side at a time, as `_place_job` and `on_job_complete` take them |
| `TierCluster` | tiers and time windows of K8S and K8S+, with a clock | `tiers`, `idx`, `swap_at`, `tier`, `last_spawn`, `clock`; `Arrive`, `Complete`, `Provision`, `NodeReady`, `DrainFires`, `IdleFires`, `PolicySwap`, `Tick` |
| `*Proofs` | theorems and lemmas: `PackingProofs` of `Totals`, `Lists` and `Packing`, on which the others rest; `BurstPoolProofs`, `PlusNodeProofs`, `PlusClusterProofs`, `K8sClusterProofs`, `BatchClusterProofs` (with `RunReport`), `NodeResourcesProofs` and `TierClusterProofs` of those modules | |
| `MC*` | the instances TLC checks | |

`TrySchedule` stands in every module for `_try_schedule`.  The code restarts its
scan of the sorted queue after each placement; as a placement only takes room
away, what was passed over stays so, and the restarts amount to one greedy pass.
The modules state the pass as the placement that satisfies its own definition
(`Places`, `GreedyPass`), which is unique, instead of a recursion.

Abstractions, by module:

- All: memory and vCPU are whole units; only sums and comparisons matter.  Except
  in `RunReport` and `TierCluster`, which have a clock in ticks, time is left out: a
  timer that runs may fire at any step, which includes every timing the code can
  produce and more.  Except in `RunReport`, metrics are left out.  simpy itself is
  external: `Granted`, `GrantSlots` and `Joined` are `simpy.Resource` as the code
  uses it.  `_reserved` and `for_job` are dead (no call passes `for_job`).
- `PlusNode`, `PlusCluster`, `K8sCluster`, `TierCluster`: placement compares memory and
  vCPU; the third condition, `has_room_for`, is in `BatchCluster` (where it delays
  jobs) and in `NodeResources` (where it is proved to suffice).
- `PlusNode`: the workhorse stages are one phase, since memory is the same in all
  of them and CPU shares do not affect memory.  The release of a download slot and
  its grant to the next request are one step; the process that got it runs in a
  later one.  An emptied node takes no job any more, which is what the code does.
  How a node is let go is `PlusCluster`'s business.
- `PlusCluster`: a job runs as one phase (`PlusNode` has the phases) and the books are
  the sums over the running jobs, which `PlusNode!AllocationBalanced` justifies.
  Nodes become ready in the order of their launch, as the warm-up is a constant.
  A placed job counts on its node at once (`On`).  The code's `job_count` counts slots
  (`core/engine.py:42`), and a job that waits for a download slot, or whose process has
  yet to start, has none; so `on_job_complete` may set a node `IDLE` with a job placed on
  it.  This takes the placement or the grant and the end of the node's last slot at one
  moment: who waits for a download slot waits for jobs with slots on his node.  The
  step between is in `PlusNode`, not here nor in `TierCluster` and `BatchCluster`.
- `K8sCluster`: one instance type and one tier, so the choice among them, spawn
  rates and `max_nodes` are not there; what is kept is whether a job's tiers are
  known at all; the rest of tiers is `TierCluster`'s.  An original that arrives may be
  put before or behind any replay in
  the queue, which covers every delay.  A process whose slot was taken away in its
  workhorse phase may or may not look before the phase ends (it does when its share
  changes), so `EndWorkhorse` allows both.  Drain monitors exist in tier mode only:
  without tiers `_node_queue_policy` is never filled.
- `BatchCluster`: a node has jobs in all phases, but no kills.  The code looks for an
  overload in Batch as in K8S (`core/engine.py:140`), and the module describes it where it finds
  none, which is so when no job uses more in a phase than it has reserved
  (`WithinPeaks`, by `NeverOverloaded`).  The sampler does not enforce that: `peak_ram_gb` is
  the preprocessing limit only (`generator/job_spec.py:39-41`), `workhorse_ram_gb` is drawn
  from a range unrelated to it (`generator/sampler.py:99-101`), and download and upload
  take a constant 0.5 GB.  With other configurations Batch kills and replays jobs, and
  neither `BatchCluster` nor `RunReport` says anything of such runs; the kill path itself is
  `K8sCluster`'s.  The provisioner packs whole instances
  (`inst.ram_gb`) and does not look at volumes, placement takes the overhead off and
  does; both are in the model.
- `RunReport`: the horizon is a stop at a tick.  A run without `cool_off_seconds` has
  no horizon; `_scale_out_monitor` polls for ever, so such a run ends only when it is
  stopped from outside and nothing is reported.  The clock stands still then, as no
  figure of such a run is computed.
- `StoragePools`: volumes of one size, the trigger in per cent.  The amount a volume
  costs is left out; what is billed, the volumes that are open, is kept.
- `NodeResources`: a job has its workspace and its slot from one step (`Place`) and gives
  both back in one.  With download slots it has the workspace first.  Each side by
  itself still has the behaviours of the code - the storage side with the placements
  where they are, the CPU side with them where the slots begin, when `CpuFits` holds all
  the more - and no property but the types is about both.  Jobs that a kill ends in
  an earlier phase than their last are left out.
- `CpuShares`: floats are parts of a vCPU, rounded down (60 parts each, which divides
  the shares of the instance exactly where the properties compare them).  A woken
  loop that has not run yet is in `woken`; until it does it goes on at its old rate,
  which is what the one event between `succeed` and resumption amounts to.
- `TierCluster`: jobs end at any step, nothing is killed.  Drain rules with equal
  thresholds in one policy are not considered, `TierAssumption` states it, and so it
  states what the validators of `core/schemas.py` let through.  The legacy RAM bands
  (`ram_min`/`ram_max` of a window) are not there.  An override has the tiers of the job's
  own bin (`by_bin` when the centroid names them bin by bin: then an empty list is
  an answer, and the job is rejected); `limited` says whether the bin declares both hard
  limits, without which the preflight cannot warn.  `idle_from` is a history variable:
  it observes how long a node has been that idle and no action reads it.

## 3. The runs

| Run | Instance | Shows |
|---|---|---|
| `burst_pool` | 5 jobs with bursts 2, 1, 3, 2, 5 on a pool of 4; fixed and legacy | `ClaimsWithinHeadroom`, `NoLostWakeup`, `NoUnfairOvertaking`, `EveryBurstServed` |
| `plus_node` | 6 jobs, node of 12 with 2 for the system and 4 reserved, 0, 1 or 2 download slots | `NoOverload`, `AllocationBalanced`, `DownloadThrottle`, the refinement `ContractSpec`, `PlacedJobCompletes` |
| `plus_cluster` | 4 jobs, up to 5 nodes of 2 instance types | `NoIdleRoom`, `TimersMatchLoad`, `OneLaunchPerJob`, `ProvisionSettles`, `EveryJobDone`, `EveryNodeReleased`, the refinement `KeepsContract` |
| `plus_idle` | as above | violated: `EmptiedNodeRefills` |
| `k8s_cluster` | 3 jobs, 2 retries, 2 nodes, with and without tiers | `AllocationBalanced`, `NoIdleRoom`, `RetryLimit`, `SlotsOnLiveNodes` |
| `batch_report` | 3 jobs, nodes of 2 types, 3 nodes, each storage model; no horizon, and horizons of 2 and 3 ticks with a pool (86,283 states) | `ReportMatchesRun`, `IdleTimeTrue`, `EveryJobDone`, the refinement `ContractUntilEnd` |
| `node_resources` | 4 jobs, a node of 4 vCPUs and 2 volumes, both solvers, three pool classes (63,582 states) | `StorageWithinLimits`, `WorkspacesOnBooks`, `SharesFitNode`, `NoStaleRate`, `NoShareTooHigh`, `ProportionalFair`, `AuctionInOrder` |
| `tiers` | 3 jobs, 2 tiers, a day of 4 ticks in two windows and no windows, 5 workloads, K8S and K8S+ (306,490 states) | `BurstsHaveRoom`, `LaunchesWithinPolicy`, `DrainedNodesWereIdle`, the refinement `KeepsContract` |
| `k8s_lost`, `k8s_rekill`, `k8s_tiers`, `k8s_drain` | as above, one mode | violated: `NoJobLost`, `ReplaysNotCancelled`, `WaitingJobHasTiers`, `DrainedNodeShutsDown` |

Bounds, and why they are enough:

- `burst_pool`: pairs of bursts that fit together and pairs that do not, three
  waiters at once, a small one behind a large one, one that fits a legacy pool only.
- `plus_node`: requests of 9 compete for 6, so jobs are placed by completions as
  well as by arrivals; three peaks at once would not fit the node; one job is
  rejected; with one slot all but one placed job wait for it.
- `plus_cluster`: three small jobs need two small nodes, the third job one large
  node.  `MaxNodes` = 5 bounds `Provision`; as `OneLaunchPerJob` holds, four jobs
  launch at most four nodes, so the bound never binds.
- `k8s_cluster`: each node takes three jobs by request and can preprocess one, so
  overloads are the rule.  A job is replayed at most 2^2 - 1 = 3 times (each of two
  processes of one retry count may be killed once more), hence `MaxCopies` = 3.
  `MaxNodes` = 2 does bind: it stops launches, which is safe for the invariants
  (fewer launches are behaviours the code has when polls come late).
- `batch_report`: a small node takes two jobs and its two volumes are full then, so a
  third one waits for volumes beside free memory; the large job needs the other
  type.  Horizons of 2 and 3 ticks cut runs short before a launch, between phases
  and after the last job, which is where the figures could go wrong.  `MaxNodes` = 3
  is one node for each job, and a node is launched for a job that has none: what
  `EveryJobDone` could miss is that the bound stops a launch, which TLC would
  report as a job that never ends.
- `node_resources`: of four jobs three fit by CPU; workspaces of 3, 4, 5 and 9 on a
  trigger of 8 per volume: a pool that has to expand, a full one, one workspace
  beyond a generation's trigger, generations that empty while they are current.
  I/O waits of 0, a quarter and a half give equal and unequal ranks in the auction;
  thread counts below and above the reservation give jobs that saturate first.
- `tiers`: `MaxNow` = 5 passes the noon boundary and midnight; a tier is dormant in one
  window; `max_nodes` of 1 and 2, spawn gaps of 1 and 2, one and two rules; a burst
  that fits one tier only, a default from the centroid, overrides of the hour
  (without tiers, for all bins and for this one; with a tier too small), a bin that declares its
  limits and one that does not, and an unknown tier, which the preflight refuses.  `MaxNodes` = 3 does bind; a
  launch that is held back is a poll that comes late.

`ClusterContract` is stated for one step at a time: a job's moves, a node's moves, the
room on each node, and `FirstComeFirstServed`, by which a job that still waits after a step
would not have fitted, on any ready node it may run on, beside the jobs that stay
there and the earlier ones that start there in this step.  Together with the order
of arrivals this is what the restarted scan of the queue amounts to.  K8S with kills is
outside: there a job's requests outlive its slot, and a replay goes to the back or the
front of the queue by its delay.  In `RunReport` the contract ends with the run
(`ContractUntilEnd`), as `finalize` terminates nodes under their jobs.

Deadlock checking is off in all runs: the simulation stops when every job has
ended and every timer has fired.

Fairness.  simpy processes every event that it has scheduled: a timeout fires, a
granted request or a succeeded event resumes its process, the monitor polls for
ever.  Hence weak fairness of the steps of jobs, nodes and `Provision`, never of
arrivals; in `RunReport` of the runs without a horizon only (`Uncut`), since at a
horizon every process just stops; and in `K8sCluster` none of `DrainFires`
(whether its rule applies long
enough depends on the window).  A placed job of `BurstPool` alone asks for its burst
because its download ends (`PlusNode` has that part).

### What the violated runs show

Each states a sentence of the repository that the code does not live up to.

- `plus_idle` - "cancels that timer the instant a new job lands on the node"
  (docs/NODE_LIFECYCLE_MODELING.md:37-39).  An emptied node is `IDLE`;
  `_best_fit_node` takes `READY` nodes only, so no job ever lands on it, and
  `if best.state == IDLE` in the three `_place_job` is never true.
- `k8s_lost` - "All jobs complete or recorded as terminal failures"
  (docs/jira/epic_E6_k8s.md:102).  Slots are keyed by `job_id`.  A killed process
  sleeps on with its slot; its copy, placed on the same node, takes the slot over;
  the killed one removes it on waking, and the copy, finding no slot, ends silently.
- `k8s_rekill` - "set after copy so replay is not pre-cancelled" (core/engine.py:84).
  A killed process still counts as preprocessing and may be chosen again; then its
  copy inherits `is_cancelled=True`.
- `k8s_tiers` - the same sentence of E6.  The end of the killed process pops the
  tiers of the job id; the waiting copy is compatible with no node.
- `k8s_drain` - "Node shuts down exactly when the last job exits"
  (docs/jira/epic_E16_time_based_scheduling_policy.md:193).  An empty node may be set
  `DRAINING`, and nothing terminates it afterwards.

Divergences that no run is spent on, which the models follow the code in:

- `cpu_boost_solver.py:57-60` lists "Job departs node" among the events that rerun the
  solver; no `on_job_complete` does.  `NoShareTooHigh` shows that this only leaves
  cycles unused until the next phase change.
- `core/engine.py:208` "Run until all processes complete naturally": they do not, as
  `_scale_out_monitor` never stops (see `RunReport` above).
- `core/schemas.py:490` "continuously": in K8S+ a node whose tier has other rules in
  another window may drain on time it accrued under those (`Steady` in
  `DrainedNodesWereIdle` names the exception).
- `core/schemas.py:576-579` describes `spawn_rate_per_min` as "Maximum node launches per
  minute for this queue", and epic E20 launches "until overflow is empty or `max_nodes` /
  `spawn_rate` limits are hit" (docs/jira/epic_E20_multi_tier_boost_provisioning.md:309-310).
  Both joint provisioners look at the rate once per pass (`k8s_scheduler.py:537-541`,
  `k8s_plus_scheduler.py:953-957`), and a tier that has launched in a pass stays open in it
  whatever its rate (`k8s_scheduler.py:559`).  So one pass may launch two nodes of a tier
  at once, and in `tiers` it does, of one with a gap of two ticks: a first job leaves the
  only node that tier 1 may have `IDLE`, and the pass for the next two jobs launches a tier 2
  node for each.  The comment at `k8s_scheduler.py:533-536` intends this; the schema and the
  epic say otherwise.  `LaunchesWithinPolicy` has what the code keeps to, the gap
  between the passes that launch for a tier, and is no bound on launches per minute.
- docs/jira/epic_E19_k8s_queue_fidelity.md:260-262 "Existing nodes apply their last-active
  drain rules" when their queue is dormant, or a conservative default.  In the code a
  dormant tier has no rules (`_get_active_queue_policy` finds no policy; `Rules` is empty):
  in K8S the monitor of such a node waits without a limit, until the next swap or
  job (an emptied node still ends by its idle timer); in K8S+
  `_update_drain_state` leaves the clock as it is, so only a timer that was already
  running still fires.
- `scheduler/storage_pool.py`: the current generation is released when its last job
  exits and is still the one that `job_start` fills next, so a job may run on
  volumes that are not billed any more; `StorageWithinLimits` counts what is open.
- `scheduler/batch_scheduler.py:114`: provisioning packs against `inst.ram_gb` while
  placement takes the overhead off.  With the overhead of 0 that Batch is built with
  the two agree; with another a job of nearly the instance's size would wait for
  ever beside nodes launched for it.
- The preflight of tiers does not look at overrides, nor can it warn of a bin that does
  not declare both limits: a job may still be rejected at arrival because of either
  (`BurstsHaveRoom`).

K8S+ is free of what the four `k8s_*` runs show: it kills no job, and its timers terminate an empty
node instead of draining it (`DrainingHasJobs`, a theorem).

## 4. The proofs

Checked by tlapm for every value of the constants that satisfies the named
assumptions (`PoolAssumption`, `NodeAssumption`, `ClusterAssumption`, `K8sAssumption`,
`BatchAssumption`, `StorageAssumption`, `CpuAssumption`, `TierAssumption` and the like: natural
amounts, bursts derived from peaks and requests, a trigger between 0 and 100 per
cent, days whose windows follow each other without a gap).  None of them bounds
what a job uses by what it requests or reserves.  Three theorems have a hypothesis of
their own, each named below: `NodeNeverOverloaded` (`WithinRequests`), `BatchNeverOverloaded`
(`WithinPeaks`) and `PlusProvisionSettles` (`MemoryAsked`).

- `PackingProofs`: sums of naturals are naturals, monotone, additive, change by what
  one summand changes; quotients by a divisor are monotone; what is kept of a list is
  what was in it, in the set, once if it was there once (`KeepEntries`).  The library's
  induction theorems take an operator and cannot be instantiated by the provers here,
  so induction is done through the set form (`NatSetInduction`, from well-foundedness
  of < on Nat), and a recursive function over 0..n is shown to exist in the same way
  (`RecursionExists`).  Counting is a sum too (`TotalCount`), a table adds up by rows as
  by columns (`TotalSwap`), and so the heads at each instant make up the time each
  spends there (`TimeCounted`), which is what every figure of the report is about.
- `BurstPoolProofs`: the invariant `PoolIInv` is types, the counter equal to the sum
  of claims, claims within the headroom, the queue listing exactly the waiting jobs
  without repetition, no waiter of a fixed pool that fits, and an unshrinking
  headroom.  Without the exact queue, `Release` could wake a job that does not wait
  and the sum would be off; without "no repetition" it could claim twice for one job.
  The loop of `release` is proved by induction over its index (`ScanSafe`).
  Theorems: `PoolTypes`, `PoolClaims`, `PoolWakeups`, and `PoolOvertaking`, the action
  property: what the loop has handed out only grows, so a claim that was too large
  for what was left when it came is too large for every later one of its size.
- `PlusNodeProofs`: `NodeIInv` adds that the pool is fixed at the reservation, that
  the books are the sums over the placed jobs and within the node, and that each
  job's stage with the pool agrees with its phase (`Stands`), which is what lets the
  pool's lemmas be used at each step of the node.  Theorems: `NodeTypes`, `NodeBooks`,
  `NodeClaims`, `NodeWakeups`, `NodeOvertaking`; `NodeNeverOverloaded`, which bounds the
  memory of each slot by request plus claim; and the refinement `NodeKeepsContract`.
  `NodeDownloads` has an invariant of its own, `SlotIInv`: `DownloadThrottle` with the
  queue of the download resource listing each job once, without which a release could
  grant two slots for one.
  `NodeNeverOverloaded` assumes `WithinRequests`: outside preprocessing no job uses
  more than it requested.  The sampler does not enforce that (it draws
  `workhorse_ram_gb` from a range unrelated to the hard limit, and download and upload
  memory is a constant 0.5 GB), so the assumption is a real one about the
  configuration.

- `PackingProofs` also shows that the placement that `TrySchedule` speaks of exists (`ChoicesExist`,
  `GreedyPlaces`), so does the provisioning pass that recurs on what is left
  (`PassExists`), what one new node takes is within it (`OneNode...`), and sums over
  sets of jobs change by what one job asks for.  The existence matters: the modules
  define a pass by what it satisfies, and an action that asks for something nothing
  satisfies would never be taken.  Theorems, for each cluster: `PlusPassExists`,
  `K8sPassExists`, `BatchPassExists`.
- `PlusClusterProofs`: `IInv` is the types, that nodes are launched in order, each with
  an instance type, and the four invariants together.  They need each other:
  `EmptyFires` may end a node only because `TimersMatchLoad` says that the timer runs
  on an empty one; `NoIdleRoom` survives a step that takes no pass because nothing
  but completions and launches makes room; and a launch picks an existing type only
  because the recursion `Launches` ends, every type it picks taking a job off the
  list.  Theorems: `PlusClusterTypes`, `PlusJobsOnLiveNodes`, `PlusDrainingHasJobs`,
  `PlusTimersMatchLoad`, `PlusNoIdleRoom`.  No run lists `JobsOnLiveNodes` and
  `DrainingHasJobs`: what a violation of them would do, a node let go under a job or
  kept up for ever, `KeepsContract` and `EveryNodeReleased` say in `plus_cluster`.  In
  the same way the types of the pool are a theorem, and part of `TypeOK` in `plus_node`;
  those of `RunReport` and `BatchCluster` are theorems only.
- `PlusProvisionSettles` is about the provisioner: a poll right after a pass finds nothing
  left to launch.  The pass packs node after node (`Launches`), the next poll packs job
  after job by first fit over the nodes there are (`Overflow`), and the theorem says that the
  two agree: each round of the pass is one node of first fit (`Rounds`, `LaunchesByRounds`,
  by induction over the jobs left), the rounds fill the launched nodes behind the old
  ones as first fit does, and there is only one first-fit placement (`GreedyUnique`,
  `FillOnce`).  On the way it shows that `Overflow` and `Launches` are what their
  definitions say and not an arbitrary choice.  Its hypothesis `MemoryAsked` says that
  every job requests some memory: `_select_instance_for_overflow` packs a type without
  room for jobs with a job that requests none, while the poll does not count such a node.
  The limits in the schema are positive (`core/schemas.py:210`).
- `PackingProofs`, `PlusClusterProofs`, `BatchClusterProofs` and `TierClusterProofs` prove the
  refinements of `ClusterContract`.  What a pass does to a node is proved once:
  `PassWithin` takes the last job that the pass puts on a node, which found the others
  there.  From it each module has one lemma for a step that ends with
  a pass (`PassKeepsContract`, `PassKeepsRooms`), one for a step that places nothing
  (`QuietKeepsContract`, `QuietKeepsRooms`), one for what a step may do to a node
  (`NodeKeepsContract`), and then one per action.  `IInv`
  is not enough for it; the refinement carries
  - `Hosted`: the jobs of a node are within its room, by all that counts towards it;
  - `NothingWaits` (`NoIdleRoom` in K8S+): no job waits beside room it could have.  Without
    it a step that only drains or launches nodes could leave an earlier job beside room
    that is there;
  - `AgeingLive` in K8S+ and `DrainingUp` with tiers: a node whose age is timed, or that
    drains, is up, so that a timer does not end a node twice.

  Theorems: `PlusKeepsContract`, `BatchKeepsContract`, `RunKeepsContract`, `TierKeepsContract`.
- `K8sClusterProofs`: `IInv` is `Consistent` - what an action hands to `_try_schedule`
  and what that leaves - with the rest of the types, `RetryLimit` and `NoIdleRoom`.
  `Consistent` says that the queue lists exactly the queued processes, each once;
  that a job has no copies before its first process has run, and that its tiers are
  known while that one is queued; that a slot is one of a process of its job that has
  been placed; that the books are the requests of the processes on the node; and that
  nodes with slots are ready or draining.  Each is needed: without the exact queue one
  pass could place a process twice and its request would be given back once; the copy
  made by a kill is unused only because the victim, found through a slot, has been
  placed; `NoIdleRoom` speaks of originals because only they have no twin in the
  queue that a pass may place instead.  The pass is treated once (`Scheduled`), for
  whatever it is called with, and so is the end of a process (`Ends`).
  Theorems: `K8sTypes`, `K8sBooks`, `K8sSlotsOnLiveNodes`, `K8sRetries`,
  `K8sNoIdleRoom`.
- `BatchClusterProofs`: `IInv` is the types, the order of launches, that jobs are on
  ready nodes and that their peaks fit the node (`Reserved`).  `NeverOverloaded` alone
  is not inductive: jobs that download use little, and change phase without asking.
  Theorems: `BatchTypes`, and `BatchNeverOverloaded`, which assumes `WithinPeaks` and is not
  listed with a run.  Its hypothesis is a real one about the configuration, see
  `BatchCluster` in section 2: what is proved without it is that the peaks that
  are reserved fit the node (`Reserved`).  The other theorems of this module need it
  as far as the module is the code only where nothing is killed.
- `BatchClusterProofs` goes on with `RunReport`.  `RunInv` is `IInv` until the run has ended,
  and
  - `JobLogged`, `NodeLogged`: a job has had the events up to its phase and a node those up to
    its state, in their order; at the horizon a node may skip some, and then
    `TERMINATED` is at the horizon;
  - `JobOnNode`: the job's node was ready when it started, and has not emptied before
    it was done.  Without this the script could draw a job on a node that had gone;
  - `NodeBusy`: a node that has had a job has one until it empties.  This is why
    `between_jobs_s` may be 0, and it rests on `_try_schedule` giving nothing to a node
    that is `IDLE`;
  - `SamplesLogged`: every sample taken is what the log says of its time (`SampleAt`).
    The log is written on while samples stay, so this needs that an event is entered
    now and never changes what has been (`JobLogKept`, `NodeLogKept`).

  What one step may do to a job and to a node is stated once (`JobMoves`, `NodeMoves`;
  a job that arrives may pass two phases) and the rest is about those moves only.
  The figures follow from the log at the end: a window that the script keeps is the phase
  the job was in (`WindowsTrue`), and bills, queue waits and idle times are intervals
  counted by head instead of by instant (`TimeCounted`); a node's idle time is two,
  up to its first job and from its last (`IdleWindows`).
  Theorems: `RunTypes`, `ReportMatches`, `IdleTime`, for every horizon, every cut and every
  order of steps between two ticks.
- `NodeResourcesProofs`: `NodeInv` joins the invariants of the two sides.  `StorageInv` is
  the types, that a mounted job of a generational pool has its generation, the limits
  and the books; `CpuInv` is the types, that the running jobs have the slots and that their
  requests and shares fit the node (`SlotsFit`: the solvers rely on the first), for
  every job rather than for those with a slot what `NoStaleRate` says, and that no
  share is above what the auction would give now (`SharesKept`).  The limit of the pool rests on the two triggers being
  the same formula (`ExpandedFits`: what `has_room_for` admits under `MaxVolumes` is
  within what `_maybe_expand` attaches), that of generations on
  `(open + 1) * InitialVolumes <= MaxVolumes` (`DivTimes`).  Both sides of a step are proved
  apart.  What the solvers compute is proved by induction over their rounds: what one
  round hands out is within what is left and within the job's headroom; in the
  auction a round that leaves something has served its job in full.  Departures are
  where `NoShareTooHigh` is not obvious, as nothing is solved again: with one bidder
  fewer and his reservation back in the surplus, every other job would be granted at
  least as much.  Theorems: `ResourceTypes`, `VolumesHaveRoom`, `WorkspacesAccounted`,
  `RatesAreCurrent`, `SharesFit` (both solvers), `AuctionSharesLag` and
  `AuctionServesInOrder` (the solver of K8S).
- `TierClusterProofs`: the first invariant with a clock.  `IInv` is `TypeOK` with
  - `Configured`: windows, workload and day are ones that the validators and the preflight
    let through;
  - `LaunchOrder`: nodes are launched in order, so that those a pass takes are new;
  - `JobsFit` and `TiersHost`: the requests on a node are within the reservation's
    rest, and a queued or running job's tiers can all host its burst.  Together they
    are `BurstsHaveRoom`, which by itself says nothing of queued jobs and so is lost at
    the next placement; `RejectedWarned` is its other half;
  - `WindowKept`: the index of the K8S scheduler is that of the present hour, or of the
    hour before with the timer due now.  This makes the policies a pass goes by
    those of `InForce`, and it needs `WindowAt` to be constant between boundaries;
  - `ClockKept`, per node: the history is right (`HistoryKept`), a running timer waits for a
    rule that has been met since the timer was set, less what had accrued before
    (`TimerWaits`), and what has accrued was idle time without a break
    (`AccruedIdle`).  The exception `Steady` enters here and nowhere else.

  That a pass never goes beyond `max_nodes` is an invariant of its rounds: `LaunchOne`
  adds a node only of a tier `BestTier` found open, and `RecursionExists` says that the
  rounds are defined.  Theorems: `TierTypes`, `BurstsRoom`, `DrainedIdle`,
  `LaunchesPolicy`.

Only model-checked:

- liveness (`EveryBurstServed`, `PlacedJobCompletes`, `EveryJobDone`, `EveryNodeReleased`),
  which is out of the prover's reach;
- `OneLaunchPerJob`, a counting argument over the order of launches that first fit
  does not make inductive: a pass over a longer queue may fill the nodes it counts on
  in another way, so what bounds the launches is the history of the passes and not
  the state.  What can be said of one pass by itself is proved (`ProvisionSettles`);
- `NoShareTooHigh` of the Batch solver and `ProportionalFair`: they speak of quotients that
  are exact for the instance and rounded down in general, where they may be off by
  the remainders.

That `K8sCluster` does lose jobs, and the other violated runs, are counterexamples of
TLC's.

## 5. What is left

Done: the burst pool and the K8S+ node with their contract, the K8S+ cluster, the
K8S cluster, the Batch cluster, storage, CPU shares, tiers and windows, the report
of a Batch run; proofs of the safety properties of all of them, with the exceptions
named above.

Would be next: `OneLaunchPerJob` with the history of the passes as an auxiliary variable;
tiers under the Karpenter provisioner.

Not modelled, and why:

- the legacy RAM bands of the K8S schedulers (`_queue_for_ram`, the windows and the
  provisioning that go by it): superseded by tiers, which share their code paths for
  placement, draining and launching;
- tiers under the Karpenter provisioner: each of the two is modelled without the
  other; their combination adds a filter of instance types per tier;
- kills in Batch, which need jobs that use more than they reserve (`WithinPeaks`, section 2);
- costs, percentiles and charts, the drawing of timelines and their storage and vCPU
  series: pure functions of the log, none of which a scheduler reads back;
- the report of a K8S run: after a kill a job has two records, and what the script
  draws of the first depends on details of the log that matter to no figure;
- loading YAML, single-field ranges of the schemas, the experiment driver's loop over
  strategies: sequential glue;
- sampling (random choice: the models fix or quantify over what it draws) and the
  queue router (retired, used by one script).

`PROJECT.json` lists the hazards this is all about, with the property that would
catch each, the mutants that show that every property can fail, and the lines of
the source that each definition stands for.
