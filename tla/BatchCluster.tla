---------------------------- MODULE BatchCluster ----------------------------
(***************************************************************************)
(* The Batch scheduler (batch_sim/scheduler/batch_scheduler.py) and the    *)
(* nodes it launches.  A job reserves its peak for as long as it runs; its *)
(* workspace on the node's volumes is as large (workspace_gb).             *)
(*                                                                         *)
(* Nothing is killed here, although run_job_process looks for an overload  *)
(* in Batch, too (engine.py:140).  This is the code where jobs stay within *)
(* their peaks (WithinPeaks): then it finds none (NeverOverloaded).        *)
(*                                                                         *)
(* Timers are untimed: one that runs may fire at any step.                 *)
(***************************************************************************)
EXTENDS NodeJobs, Packing, StorageModel, Sequences, SequencesExt

CONSTANTS
  Peak, Vcpu,      \* peak_ram_gb and soft_cpu of each job
  Use,             \* Use[j]: the memory job j uses in each of its phases
  Instances,       \* _allowed_types, cheapest first: [ram, vcpu] records
  Overhead,        \* os_overhead_gb
  MaxNodes         \* bound: the nodes 1..MaxNodes are launched in order

Nodes == 1..MaxNodes
Types == 1..Len(Instances)
Active == {"download", "preprocess", "workhorse", "upload"}

(* cfg.storage: without, one pool per node, or a volume per job.           *)
StorageModels == {"none", "pool", "dedicated"}

ASSUME BatchAssumption ==
  /\ Peak \in [Jobs -> Nat] /\ Vcpu \in [Jobs -> Nat]
  /\ Use \in [Jobs -> [Active -> Nat]]
  /\ Instances \in Seq([ram : Nat, vcpu : Nat])
  /\ Overhead \in Nat /\ MaxNodes \in Nat

(* No job uses more memory in a phase than it has reserved.  peak_ram_gb   *)
(* is the preprocessing limit only (job_spec.py:39-41); the sampler draws  *)
(* workhorse_ram_gb from a range of its own (sampler.py:99-101), and       *)
(* download and upload take a fixed 0.5, without relating them to it.      *)
WithinPeaks == \A j \in Jobs, ph \in Active : Use[j][ph] <= Peak[j]

VARIABLES
  storage,   \* cfg.storage
  phase,     \* phase[j]: "absent", "queued", where it is on its node, "done"
  host,      \* host[j]: the node job j runs on, or 0
  state,     \* state[n]: node.state, "none" before it is launched
  type       \* type[n]: its instance type, an index of Instances, or 0

clusterVars == <<storage, phase, host, state, type>>

ClusterInit ==
  /\ storage \in StorageModels
  /\ phase = [j \in Jobs |-> "absent"] /\ host = [j \in Jobs |-> 0]
  /\ state = [n \in Nodes |-> "none"] /\ type = [n \in Nodes |-> 0]

-----------------------------------------------------------------------------
(* The jobs with a slot on n, and what they have reserved there.           *)
On(h, n) == {j \in Jobs : h[j] = n}
LoadOf(h, n, Amount) == Asked(On(h, n), Amount, NumJobs)

(* has_room_for of the node's pool.                                        *)
HasRoomFor(h, n, j) ==
  /\ storage = "pool" => PoolHasRoom(LoadOf(h, n, Peak), Peak[j])
  /\ storage = "dedicated" => Cardinality(On(h, n)) < MaxVolumes

(* What the node has room for beside its jobs.                             *)
RamFits(h, n, j) ==
  /\ LoadOf(h, n, Peak) + Peak[j] <= Instances[type[n]].ram - Overhead
  /\ LoadOf(h, n, Vcpu) + Vcpu[j] <= Instances[type[n]].vcpu

(* _batch_fits *)
FitsOn(h, n, j) == RamFits(h, n, j) /\ HasRoomFor(h, n, j)

(* Mutant: a node that has emptied is a candidate, too.                    *)
ReadyOrIdle(st) == {n \in Nodes : st[n] \in {"READY", "IDLE"}}

(* The nodes that take jobs.                                              *)
Ready(st) == {n \in Nodes : st[n] = "READY"}

(* _best_fit_node: the candidate with the most memory and vCPUs reserved,  *)
(* the first launched among equals.                                        *)
BestFit(candidates, h, j) ==
  LET fit == {n \in candidates : FitsOn(h, n, j)}
      load(n) == LoadOf(h, n, Peak) + LoadOf(h, n, Vcpu)
      Better(n, m) == load(n) > load(m) \/ (load(n) = load(m) /\ n <= m)
  IN  IF fit = {} THEN 0 ELSE CHOOSE n \in fit : \A m \in fit : Better(n, m)

Queued(ph) == {j \in Jobs : ph[j] = "queued"}

(* _try_schedule, when the jobs stand at ph and run on h.  It starts over  *)
(* after each placement; a job that did not fit before does not fit then.  *)
TrySchedule(ph, h, st) ==
  LET Pick(g, j) == BestFit(Ready(st), g, j)
  IN  \E placed \in [Queued(ph) -> Ready(st) \cup {0}] :
        /\ GreedyPass(Queued(ph), h, placed, Pick)
        /\ host' = [j \in Jobs |-> IF j \in Queued(ph) THEN placed[j] ELSE h[j]]
        /\ phase' = [j \in Jobs |-> IF j \in Queued(ph) /\ placed[j] # 0
                                    THEN "download" ELSE ph[j]]
        /\ state' = [n \in Nodes |-> IF n \in Range(placed) THEN "READY" ELSE st[n]]

(* on_job_arrival *)
Arrive(j) ==
  /\ phase[j] = "absent"
  /\ \A k \in 1..(j-1) : phase[k] # "absent"
  /\ TrySchedule([phase EXCEPT ![j] = "queued"], host, state)
  /\ UNCHANGED <<storage, type>>

(* run_job_process goes on to its next phase.                              *)
NextPhase(j) ==
  /\ phase[j] \in Active \ {"upload"}
  /\ phase' = [phase EXCEPT ![j] = CASE @ = "download" -> "preprocess"
                                     [] @ = "preprocess" -> "workhorse"
                                     [] @ = "workhorse" -> "upload"]
  /\ UNCHANGED <<storage, host, state, type>>

(* The job ends: on_job_complete.                                          *)
Complete(j) ==
  LET h == [host EXCEPT ![j] = 0]
      n == host[j]
  IN  /\ phase[j] = "upload"
      /\ TrySchedule([phase EXCEPT ![j] = "done"], h,
                     IF On(h, n) = {} THEN [state EXCEPT ![n] = "IDLE"] ELSE state)
      /\ UNCHANGED <<storage, type>>

-----------------------------------------------------------------------------
(* Mutant: a node that is gone counts, too.                                *)
VirtualCountsGone == {n \in Nodes : state[n] # "none"}

(* The nodes whose free memory and vCPUs count when the queue is           *)
(* provisioned for.  Their volumes do not count.                           *)
Virtual == {n \in Nodes : state[n] \in {"READY", "LAUNCHING"}}

(* The queued jobs that no such node has room for, first fit.              *)
Overflow ==
  LET Pick(g, j) ==
        LET fit == {n \in Virtual : RamFits(g, n, j)}
        IN  IF fit = {} THEN 0 ELSE CHOOSE n \in fit : \A m \in fit : n <= m
      filled == CHOOSE placed \in [Queued(phase) -> Virtual \cup {0}] :
                  GreedyPass(Queued(phase), host, placed, Pick)
  IN  {j \in Queued(phase) : filled[j] = 0}

(* How many of jobs an empty node of type t takes, the largest first.  The *)
(* memory is that of the instance, with the overhead.                      *)
Count == [t \in Types |-> [jobs \in SUBSET Jobs |->
  LET Larger(j, k) == \/ Peak[j] > Peak[k]
                      \/ Peak[j] = Peak[k] /\ (Vcpu[j] > Vcpu[k] \/ (Vcpu[j] = Vcpu[k] /\ j < k))
      taken == CHOOSE S \in SUBSET jobs : \A j \in jobs :
                 LET before == {k \in S : Larger(k, j)} \cup {j}
                 IN  j \in S <=> /\ Asked(before, Peak, NumJobs) <= Instances[t].ram
                                 /\ Asked(before, Vcpu, NumJobs) <= Instances[t].vcpu
  IN  Cardinality(taken)]]

(* _select_instance_for_overflow: the type that takes most, and of these   *)
(* the one with most jobs per dollar, the cheapest; 0: none takes any.     *)
Select == [jobs \in SUBSET Jobs |->
  LET fit == {t \in Types : Count[t][jobs] > 0}
      Better(t, u) == Count[t][jobs] > Count[u][jobs] \/ (Count[t][jobs] = Count[u][jobs] /\ t <= u)
  IN  IF fit = {} THEN 0 ELSE CHOOSE t \in fit : \A u \in fit : Better(t, u)]

TakenBy == [t \in Types |-> [jobs \in SUBSET Jobs |->
  OneNode(jobs, Instances[t].ram, Instances[t].vcpu, Peak, Vcpu, NumJobs)]]

(* The types of the nodes to launch for jobs.                              *)
Launches[jobs \in SUBSET Jobs] ==
  IF jobs = {} THEN <<>>
  ELSE IF Select[jobs] = 0 THEN <<>>
  ELSE <<Select[jobs]>> \o Launches[jobs \ TakenBy[Select[jobs]][jobs]]

Launched == {n \in Nodes : state[n] # "none"}

(* _provision_to_demand, when _scale_out_monitor finds that a job has      *)
(* waited long enough.                                                     *)
Provision ==
  LET types == Launches[Overflow]
      from == Cardinality(Launched)
      new == (from+1)..(from+Len(types))
  IN  /\ Queued(phase) # {}
      /\ types # <<>>
      /\ from + Len(types) <= MaxNodes
      /\ state' = [n \in Nodes |-> IF n \in new THEN "LAUNCHING" ELSE state[n]]
      /\ type' = [n \in Nodes |-> IF n \in new THEN types[n - from] ELSE type[n]]
      /\ UNCHANGED <<storage, phase, host>>

(* The rest of _launch_node, after the warm-up, which is the same for all. *)
NodeReady(n) ==
  /\ state[n] = "LAUNCHING"
  /\ \A m \in 1..(n-1) : state[m] # "LAUNCHING"
  /\ TrySchedule(phase, host, [state EXCEPT ![n] = "READY"])
  /\ UNCHANGED <<storage, type>>

(* _idle_timer, which runs from the time the node is IDLE.                 *)
IdleFires(n) ==
  /\ state[n] = "IDLE" /\ On(host, n) = {}
  /\ state' = [state EXCEPT ![n] = "TERMINATED"]
  /\ UNCHANGED <<storage, phase, host, type>>

ClusterNext ==
  \/ Provision
  \/ \E j \in Jobs : Arrive(j) \/ NextPhase(j) \/ Complete(j)
  \/ \E n \in Nodes : NodeReady(n) \/ IdleFires(n)

ClusterSpec == ClusterInit /\ [][ClusterNext]_clusterVars

-----------------------------------------------------------------------------
States == {"none", "LAUNCHING", "READY", "IDLE", "TERMINATED"}
Phases == Active \cup {"absent", "queued", "done"}

(* The types of the cluster's variables; a job has a host exactly while it *)
(* runs, and a node its type once it is launched.                          *)
ClusterTypeOK ==
  /\ storage \in StorageModels
  /\ phase \in [Jobs -> Phases] /\ host \in [Jobs -> Nodes \cup {0}]
  /\ state \in [Nodes -> States] /\ type \in [Nodes -> Types \cup {0}]
  /\ \A j \in Jobs : host[j] # 0 <=> phase[j] \in Active
  /\ \A n \in Nodes : type[n] # 0 <=> state[n] # "none"

(* A node whose jobs use what they use in their phases is not overloaded   *)
(* (engine.py:45), so that check_and_handle kills no job.                  *)
NeverOverloaded ==
  \A n \in Nodes :
    On(host, n) # {} =>
      Asked(On(host, n), [j \in Jobs |-> IF phase[j] \in Active THEN Use[j][phase[j]] ELSE 0],
            NumJobs) <= Instances[type[n]].ram - Overhead

-----------------------------------------------------------------------------
(* What a node of each type has room for, volumes included.                *)
Rooms == [k \in StorageModels \X Types |-> {S \in SUBSET Jobs :
  /\ Asked(S, Peak, NumJobs) <= Instances[k[2]].ram - Overhead
  /\ Asked(S, Vcpu, NumJobs) <= Instances[k[2]].vcpu
  /\ k[1] = "pool" => Within(Asked(S, Peak, NumJobs), MaxVolumes)
  /\ k[1] = "dedicated" => Cardinality(S) <= MaxVolumes}]

Contract == INSTANCE ClusterContract
  WITH Fits <- Rooms,
       status <- [j \in Jobs |-> IF phase[j] \in Active THEN "running" ELSE phase[j]],
       node <- state, kind <- [n \in Nodes |-> <<storage, type[n]>>],
       may <- [j \in Jobs |-> StorageModels \X Types]

(* The scheduler keeps the contract of ClusterContract: each job runs once *)
(* on a node that has memory, vCPUs and volumes for its peak, and no job   *)
(* is passed over for one that has waited less (_try_schedule), whichever  *)
(* of the three it waits for.                                              *)
KeepsContract == Contract!Spec
=============================================================================
