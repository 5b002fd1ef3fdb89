---------------------------- MODULE PlusCluster ----------------------------
(***************************************************************************)
(* The nodes of the K8S+ scheduler under its Karpenter-style provisioner   *)
(* (batch_sim/scheduler/k8s_plus_scheduler.py, cfg.provisioner without     *)
(* tiers): launches for the overflow of the queue, best-fit placement, and *)
(* the life of a node: empty, underutilized and maximum-age timers,        *)
(* consolidation, draining, termination.                                   *)
(*                                                                         *)
(* What a job does on its node is PlusNode's business; here it runs until  *)
(* it ends.  The node's books are the sums over its jobs                   *)
(* (PlusNode!AllocationBalanced), so they are not kept apart.  Timers are  *)
(* untimed: one that runs may fire at any step.                            *)
(***************************************************************************)
EXTENDS Packing, Sequences, SequencesExt

CONSTANTS
  NumJobs,             \* jobs 1..NumJobs arrive in this order
  Soft, Vcpu, Peak,    \* soft_limit_ram_gb, soft_cpu, peak_ram_gb of each
  Instances,           \* allowed_instance_types: [ram, vcpu, price] records
  Overhead,            \* os_overhead_gb
  Spike,               \* the headroom derived from centroid_peak_rams
  MaxNodes,            \* bound: the nodes 1..MaxNodes are launched in order
  UnderutilizedPct,    \* underutilize_threshold_pct
  ConsolidationPct     \* consolidation_threshold_pct

Jobs == 1..NumJobs
Nodes == 1..MaxNodes

ASSUME ClusterAssumption ==
  /\ NumJobs \in Nat /\ MaxNodes \in Nat
  /\ Soft \in [Jobs -> Nat] /\ Vcpu \in [Jobs -> Nat \ {0}] /\ Peak \in [Jobs -> Nat]
  /\ Instances \in Seq([ram : Nat, vcpu : Nat \ {0}, price : Nat \ {0}])
  /\ Overhead \in Nat /\ Spike \in Nat
  /\ UnderutilizedPct \in Nat /\ ConsolidationPct \in Nat

VARIABLES
  phase,     \* phase[j]: "absent", "queued", "running" or "done"
  host,      \* host[j]: the node job j runs on, or 0
  state,     \* state[n]: node.state, "none" before it is launched
  type,      \* type[n]: its instance type, an index of Instances, or 0
  draining,  \* _draining
  empty,     \* the nodes whose _empty_timer_proc runs
  under,     \* the nodes whose _underutilized_timer_proc runs
  ageing     \* the nodes whose _max_ttl_proc runs

vars == <<phase, host, state, type, draining, empty, under, ageing>>

States == {"none", "LAUNCHING", "READY", "IDLE", "TERMINATED"}

Init ==
  /\ phase = [j \in Jobs |-> "absent"] /\ host = [j \in Jobs |-> 0]
  /\ state = [n \in Nodes |-> "none"] /\ type = [n \in Nodes |-> 0]
  /\ draining = {} /\ empty = {} /\ under = {} /\ ageing = {}

-----------------------------------------------------------------------------
(* compute_k8s_capacity *)
Effective(t) ==
  LET left == Instances[t].ram - Overhead - Spike IN IF left > 0 THEN left ELSE 0

(* The jobs placed on n.  job_count is their number, but for those that    *)
(* wait for a download slot and have no slot on the node yet.              *)
On(h, n) == {j \in Jobs : h[j] = n}
LoadOf(h, n, Amount) == Asked(On(h, n), Amount, NumJobs)

(* _k8s_fits, when the nodes host h.                                       *)
FitsOn(h, n, j) ==
  /\ Effective(type[n]) > 0
  /\ LoadOf(h, n, Soft) + Soft[j] <= Effective(type[n])
  /\ LoadOf(h, n, Vcpu) + Vcpu[j] <= Instances[type[n]].vcpu

(* The nodes that take jobs.                                               *)
Open(st, dr) == {n \in Nodes : st[n] = "READY" /\ n \notin dr}

(* Mutant: the fullest node is taken before it is asked whether it fits.   *)
FullestThenFit(candidates, h, j) ==
  LET Fuller(n, m) == \/ LoadOf(h, n, Soft) > LoadOf(h, m, Soft)
                      \/ LoadOf(h, n, Soft) = LoadOf(h, m, Soft) /\ n <= m
      fullest == CHOOSE n \in candidates : \A m \in candidates : Fuller(n, m)
  IN  IF candidates = {} THEN 0 ELSE IF FitsOn(h, fullest, j) THEN fullest ELSE 0

(* _best_fit_node: the fullest candidate, the first launched among equals. *)
BestFit(candidates, h, j) ==
  LET fit == {n \in candidates : FitsOn(h, n, j)}
      Better(n, m) == \/ LoadOf(h, n, Soft) > LoadOf(h, m, Soft)
                      \/ LoadOf(h, n, Soft) = LoadOf(h, m, Soft) /\ n <= m
  IN  IF fit = {} THEN 0 ELSE CHOOSE n \in fit : \A m \in fit : Better(n, m)

Queued(ph) == {j \in Jobs : ph[j] = "queued"}

(* Mutant: a node that gets jobs keeps its timers as they are.             *)
TimersIgnorePlacement(updated, h, st, dr) == UNCHANGED <<empty, under>>

(* _update_node_lifecycle for the nodes of updated, which now host h, and  *)
(* _cancel_lifecycle_timers for those that start to drain.                 *)
Timers(updated, h, st, dr) ==
  LET watched == {n \in updated : st[n] # "TERMINATED" /\ n \notin dr}
      used(n) == LoadOf(h, n, Vcpu)
      idle == {n \in watched : used(n) = 0}
      low == {n \in watched : /\ used(n) > 0
                              /\ 100 * used(n) < UnderutilizedPct * Instances[type[n]].vcpu}
      kept(timers) == {n \in timers : n \notin watched /\ n \notin dr /\ st[n] # "TERMINATED"}
  IN  /\ empty' = kept(empty) \cup idle
      /\ under' = kept(under) \cup low

(* _try_schedule, when the jobs stand at ph and run on h, and the nodes of *)
(* touched have changed already.                                           *)
TrySchedule(ph, h, st, dr, touched) ==
  LET Pick(g, j) == BestFit(Open(st, dr), g, j)
  IN  \E placed \in [Queued(ph) -> Open(st, dr) \cup {0}] :
        /\ GreedyPass(Queued(ph), h, placed, Pick)
        /\ host' = [j \in Jobs |-> IF j \in Queued(ph) THEN placed[j] ELSE h[j]]
        /\ phase' = [j \in Jobs |-> IF j \in Queued(ph) /\ placed[j] # 0
                                    THEN "running" ELSE ph[j]]
        /\ state' = st
        /\ draining' = dr
        /\ Timers(touched \cup (Range(placed) \ {0}), host', st, dr)

(* on_job_arrival: without tiers every job is queued.                      *)
Arrive(j) ==
  /\ phase[j] = "absent"
  /\ \A k \in 1..(j-1) : phase[k] # "absent"
  /\ TrySchedule([phase EXCEPT ![j] = "queued"], host, state, draining, {})
  /\ UNCHANGED <<type, ageing>>

-----------------------------------------------------------------------------
(* Mutant: nodes that are still launching are not counted as room.         *)
VirtualReadyOnly(st, dr) == {n \in Nodes : st[n] = "READY" /\ n \notin dr}

(* Mutant: so are the ones that are gone.                                  *)
VirtualCountsGone(st, dr) == {n \in Nodes : st[n] # "none" /\ n \notin dr}

(* The nodes whose free room counts when the queue is provisioned for.     *)
Virtual(st, dr) == {n \in Nodes : st[n] \in {"READY", "LAUNCHING"} /\ n \notin dr}

(* The queued jobs that no such node has room for, first fit.              *)
Overflow ==
  LET Pick(g, j) ==
        LET fit == {n \in Virtual(state, draining) : FitsOn(g, n, j)}
        IN  IF fit = {} THEN 0 ELSE CHOOSE n \in fit : \A m \in fit : n <= m
      filled == CHOOSE placed \in [Queued(phase) -> Virtual(state, draining) \cup {0}] :
                  GreedyPass(Queued(phase), host, placed, Pick)
  IN  {j \in Queued(phase) : filled[j] = 0}

Types == 1..Len(Instances)

TakenBy == [t \in Types |-> [jobs \in SUBSET Jobs |->
              OneNode(jobs, Effective(t), Instances[t].vcpu, Soft, Vcpu, NumJobs)]]

(* _select_instance_for_overflow: of the types that fit the first job, the *)
(* one that takes the most jobs per dollar; 0: none fits it.               *)
Select == [jobs \in (SUBSET Jobs) \ {{}} |->
  LET first == CHOOSE j \in jobs : \A k \in jobs : j <= k
      fit == {t \in Types : /\ Instances[t].ram >= Peak[first] + Overhead
                            /\ Instances[t].vcpu >= Vcpu[first]
                            /\ Effective(t) >= Soft[first]
                            /\ TakenBy[t][jobs] # {}}
      Score(t, u) == Cardinality(TakenBy[t][jobs]) * Instances[u].price
      Better(t, u) == Score(t, u) > Score(u, t) \/ (Score(t, u) = Score(u, t) /\ t <= u)
  IN  IF fit = {} THEN 0 ELSE CHOOSE t \in fit : \A u \in fit : Better(t, u)]

(* The types of the nodes to launch for jobs, until none is left or none   *)
(* fits the first of those left.                                           *)
Launches[jobs \in SUBSET Jobs] ==
  IF jobs = {} THEN <<>>
  ELSE IF Select[jobs] = 0 THEN <<>>
  ELSE <<Select[jobs]>> \o Launches[jobs \ TakenBy[Select[jobs]][jobs]]

Launched == {n \in Nodes : state[n] # "none"}

(* _provision_to_demand_karpenter, when _scale_out_monitor finds that a    *)
(* job has waited long enough.                                             *)
Provision ==
  LET types == Launches[Overflow]
      from == Cardinality(Launched)
  IN  /\ Queued(phase) # {}
      /\ types # <<>>
      /\ from + Len(types) <= MaxNodes
      /\ state' = [n \in Nodes |-> IF n \in (from+1)..(from+Len(types))
                                   THEN "LAUNCHING" ELSE state[n]]
      /\ type' = [n \in Nodes |-> IF n \in (from+1)..(from+Len(types))
                                  THEN types[n - from] ELSE type[n]]
      /\ UNCHANGED <<phase, host, draining, empty, under, ageing>>

(* The rest of _launch_node, after the warm-up, which is the same for all. *)
NodeReady(n) ==
  /\ state[n] = "LAUNCHING"
  /\ \A m \in 1..(n-1) : state[m] # "LAUNCHING"
  /\ ageing' = ageing \cup {n}
  /\ TrySchedule(phase, host, [state EXCEPT ![n] = "READY"], draining, {n})
  /\ UNCHANGED type

-----------------------------------------------------------------------------
(* _try_consolidate: the load of n, which is low, fits on another node.    *)
Consolidates(n, h, dr) ==
  /\ n \notin dr
  /\ On(h, n) # {}
  /\ 100 * LoadOf(h, n, Vcpu) < ConsolidationPct * Instances[type[n]].vcpu
  /\ \E m \in Open(state, dr) \ {n} :
       /\ Effective(type[m]) - LoadOf(h, m, Soft) >= LoadOf(h, n, Soft)
       /\ Instances[type[m]].vcpu - LoadOf(h, m, Vcpu) >= LoadOf(h, n, Vcpu)

(* Mutant: remove_job is forgotten.                                        *)
EndJobKeepsSlot(j) ==
  /\ phase[j] = "running"
  /\ TrySchedule([phase EXCEPT ![j] = "done"], host, state, draining, {host[j]})
  /\ UNCHANGED <<type, ageing>>

(* The job ends: on_job_complete.  Its node, when that was its last job,   *)
(* is terminated if it drains and idle otherwise; a node that still has    *)
(* jobs may be consolidated.                                               *)
EndJob(j) ==
  LET n == host[j]
      h == [host EXCEPT ![j] = 0]
      ph == [phase EXCEPT ![j] = "done"]
  IN  /\ phase[j] = "running"
      /\ \/ /\ On(h, n) = {} /\ n \in draining
            /\ TrySchedule(ph, h, [state EXCEPT ![n] = "TERMINATED"], draining \ {n}, {})
            /\ ageing' = ageing \ {n}
         \/ /\ On(h, n) = {} /\ n \notin draining
            /\ TrySchedule(ph, h, [state EXCEPT ![n] = "IDLE"], draining, {n})
            /\ UNCHANGED ageing
         \/ /\ On(h, n) # {}
            /\ TrySchedule(ph, h, state,
                           draining \cup (IF Consolidates(n, h, draining) THEN {n} ELSE {}), {n})
            /\ UNCHANGED ageing
      /\ UNCHANGED type

(* _do_terminate, which cancels every timer of the node.                   *)
Terminate(n) ==
  /\ state' = [state EXCEPT ![n] = "TERMINATED"]
  /\ draining' = draining \ {n}
  /\ empty' = empty \ {n} /\ under' = under \ {n} /\ ageing' = ageing \ {n}

(* A timer that finds jobs on the node sets it draining instead.           *)
TerminateOrDrain(n) ==
  IF On(host, n) = {}
  THEN Terminate(n)
  ELSE /\ draining' = draining \cup {n}
       /\ empty' = empty \ {n} /\ under' = under \ {n} /\ ageing' = ageing \ {n}
       /\ UNCHANGED state

(* _empty_timer_proc *)
EmptyFires(n) ==
  /\ n \in empty
  /\ IF On(host, n) = {} THEN Terminate(n)
     ELSE empty' = empty \ {n} /\ UNCHANGED <<state, draining, under, ageing>>
  /\ UNCHANGED <<phase, host, type>>

(* _underutilized_timer_proc; the age of the node keeps being timed.       *)
UnderFires(n) ==
  /\ n \in under
  /\ IF On(host, n) = {} THEN Terminate(n)
     ELSE /\ draining' = draining \cup {n}
          /\ empty' = empty \ {n} /\ under' = under \ {n}
          /\ UNCHANGED <<state, ageing>>
  /\ UNCHANGED <<phase, host, type>>

(* Mutant: a node drains whether it has jobs or not.                       *)
AgeFiresDrains(n) ==
  /\ n \in ageing
  /\ draining' = draining \cup {n}
  /\ empty' = empty \ {n} /\ under' = under \ {n} /\ ageing' = ageing \ {n}
  /\ UNCHANGED <<phase, host, type, state>>

(* _max_ttl_proc *)
AgeFires(n) ==
  /\ n \in ageing
  /\ TerminateOrDrain(n)
  /\ UNCHANGED <<phase, host, type>>

NodeStep(n) == NodeReady(n) \/ EmptyFires(n) \/ UnderFires(n) \/ AgeFires(n)

Next ==
  \/ Provision
  \/ \E j \in Jobs : Arrive(j) \/ EndJob(j)
  \/ \E n \in Nodes : NodeStep(n)

(* simpy fires every timer that is not cancelled, and the monitor polls    *)
(* for ever.                                                               *)
Fairness ==
  /\ WF_vars(Provision)
  /\ \A j \in Jobs : WF_vars(EndJob(j))
  /\ \A n \in Nodes : WF_vars(NodeReady(n)) /\ WF_vars(EmptyFires(n))
                      /\ WF_vars(UnderFires(n)) /\ WF_vars(AgeFires(n))

Spec == Init /\ [][Next]_vars

FairSpec == Spec /\ Fairness

-----------------------------------------------------------------------------
(* The types of the variables; a job has a host exactly while it runs.     *)
TypeOK ==
  /\ phase \in [Jobs -> {"absent", "queued", "running", "done"}]
  /\ host \in [Jobs -> Nodes \cup {0}]
  /\ state \in [Nodes -> States]
  /\ type \in [Nodes -> 0..Len(Instances)]
  /\ draining \subseteq Nodes
  /\ empty \subseteq Nodes /\ under \subseteq Nodes /\ ageing \subseteq Nodes
  /\ \A j \in Jobs : host[j] # 0 <=> phase[j] = "running"

(* "Node shuts down exactly when the last job exits, not before"           *)
(* (docs/jira/epic_E16_time_based_scheduling_policy.md:193): no timer,     *)
(* consolidation or completion takes a node from under a job.              *)
JobsOnLiveNodes == \A j \in Jobs : phase[j] = "running" => state[host[j]] = "READY"

(* A node that drains has a job left whose end will terminate it: a node   *)
(* set draining when it is empty would never be let go.                    *)
DrainingHasJobs ==
  \A n \in draining : state[n] = "READY" /\ On(host, n) # {}

(* The queue is scheduled wherever room appears on any node.               *)
NoIdleRoom ==
  \A j \in Queued(phase) : \A n \in Open(state, draining) : ~FitsOn(host, n, j)

(* Placements, completions, launches and drains keep the timers of a node  *)
(* in step with its load (k8s_plus_scheduler.py:463-504): an empty node is *)
(* timed to go, a node with jobs never is, and a node that drains has none *)
(* of the two timers.                                                      *)
TimersMatchLoad ==
  \A n \in Nodes :
    LET used == LoadOf(host, n, Vcpu)
        live == state[n] \in {"READY", "IDLE"} /\ n \notin draining
    IN  /\ n \in empty <=> live /\ used = 0
        /\ n \in under => live /\ used > 0

(* Provisioning counts on the nodes that are still launching: no job has   *)
(* more than one node launched for it, however often the monitor polls     *)
(* before the first is ready.                                              *)
OneLaunchPerJob == Cardinality(Launched) <= Cardinality({j \in Jobs : phase[j] # "absent"})

(* One provisioning pass launches all that the queue asks for: a poll that *)
(* follows it at once, before any of the new nodes is ready, finds nothing *)
(* to launch.                                                              *)
ProvisionSettles == [][Provision => Launches[Overflow]' = <<>>]_vars

(* Every job that is queued is run to its end, whichever nodes are drained *)
(* or let go meanwhile, when some instance type fits each job.             *)
EveryJobDone == \A j \in Jobs : phase[j] = "queued" ~> phase[j] = "done"

(* Every node is terminated in the end.                                    *)
EveryNodeReleased == \A n \in Nodes : state[n] = "LAUNCHING" ~> state[n] = "TERMINATED"

(* "_place_job calls the same _update_node_lifecycle, which cancels that   *)
(* timer the instant a new job lands on the node"                          *)
(* (docs/NODE_LIFECYCLE_MODELING.md:37-39): a node that has emptied and    *)
(* still waits for its timer takes a job that fits it.                     *)
EmptiedNodeRefills ==
  \A j \in Queued(phase) : \A n \in Nodes \ draining :
    state[n] = "IDLE" => ~FitsOn(host, n, j)

-----------------------------------------------------------------------------
(* What a node of each type has room for.                                  *)
Rooms == [t \in Types |-> {S \in SUBSET Jobs :
  /\ Effective(t) > 0 /\ Asked(S, Soft, NumJobs) <= Effective(t)
  /\ Asked(S, Vcpu, NumJobs) <= Instances[t].vcpu}]

(* The states of node.state with the drain mark as one of them.            *)
NodeState == [n \in Nodes |-> IF n \in draining THEN "DRAINING" ELSE state[n]]

Contract == INSTANCE ClusterContract
  WITH Fits <- Rooms, status <- phase, node <- NodeState, kind <- type,
       may <- [j \in Jobs |-> Types]

(* The scheduler keeps the contract of ClusterContract: however timers,    *)
(* consolidation and launches interleave with the queue, each job runs     *)
(* once, on a node with room for it, no node is let go under a job, and no *)
(* job is passed over for one that has waited less (_try_schedule).        *)
KeepsContract == Contract!Spec
=============================================================================
